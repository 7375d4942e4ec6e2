---------------------------- MODULE TaskSessions ----------------------------
(* The tasks of one conversation: how a message is routed to a task, whose  *)
(* question it answers, and on which checkpoint thread the graph runs.      *)
(*                                                                          *)
(* Messages are numbered as their turns begin. The task session a message   *)
(* creates has its number, and so has the session's checkpoint thread; 0    *)
(* stands for no task, and for the thread of its own that a message without *)
(* a task gets. The wording of messages is left out: the router may relate  *)
(* a message to any task it can name. The status of a session, which is     *)
(* only displayed, and the sessions of a batch's items are left out too.    *)
EXTENDS Naturals, FiniteSets

CONSTANTS
    MaxMessages,  \* bound: messages of the conversation
    AtOnce        \* bound: messages in hand at a time

VARIABLES
    begun,        \* turns of the conversation so far
    active,       \* conversations.active_task_session_id
    session,      \* task_sessions: "new" until a workflow runs for it
    question,     \* task_pending_requests by task; pending_requests at 0
    point,        \* a thread's last checkpoint: "open" at an interrupt, or how it ended
    hand,         \* handle_message of each message
    regular       \* messages came one at a time and answered their own task's questions

taskVars == <<begun, active, session, question, point, hand, regular>>

ASSUME TaskAssumption == MaxMessages \in Nat /\ AtOnce \in Nat \ {0}

Messages == 1..MaxMessages

NoQuestion == [status |-> "none", kind |-> "none", thread |-> 0, since |-> 0]
NoPending  == [of |-> 0, row |-> NoQuestion]
NotBegun   == [pc |-> "idle", seen |-> 0, target |-> 0, pending |-> NoPending,
               thread |-> 0, out |-> "none"]

TaskInit ==
    /\ begun = 0 /\ active = 0
    /\ session = [s \in Messages |-> "none"]
    /\ question = [q \in 0..MaxMessages |-> NoQuestion]
    /\ point = [s \in Messages |-> "none"]
    /\ hand = [t \in Messages |-> NotBegun]
    /\ regular = TRUE

Idle  == {"idle", "over", "failed"}
InHand == {t \in Messages : hand[t].pc \notin Idle}

Known == {s \in Messages : session[s] # "none"}

Goes(t, pc) == hand' = [hand EXCEPT ![t].pc = pc]
Ends(t, pc) == hand' = [hand EXCEPT ![t] = [NotBegun EXCEPT !.pc = pc]]

(* get_conversation and begin_turn; repeated requests are in               *)
(* ConversationTurns.                                                      *)
BeginMessage(t) ==
    /\ t = begun + 1 /\ Cardinality(InHand) < AtOnce
    /\ begun' = t
    /\ regular' = (regular /\ InHand = {})
    /\ hand' = [hand EXCEPT ![t] = [NotBegun EXCEPT !.pc = "route", !.seen = active]]
    /\ UNCHANGED <<active, session, question, point>>

(***************************************************************************)
(* The open question, and the route.                                       *)
(***************************************************************************)
(* A turn that failed since the loose question was asked has tried it.     *)
LooseIsStale == \E t \in Messages : hand[t].pc = "failed" /\ t > question[0].since

Pending_AlsoSuspended ==  \* mutant: a suspended question counts as open
    IF active # 0 /\ question[active].status # "none"
       THEN [of |-> active, row |-> question[active]]
    ELSE [of |-> 0, row |-> IF LooseIsStale THEN NoQuestion ELSE question[0]]

(* get_pending_request.                                                    *)
Pending ==
    IF active # 0 /\ question[active].status = "waiting"
       THEN [of |-> active, row |-> question[active]]
    ELSE [of |-> 0, row |-> IF LooseIsStale THEN NoQuestion ELSE question[0]]

IsOpen(pending) == pending.row.status # "none"

(* TaskRelationRouter.route: a message that recalls a task or switches to  *)
(* one may name any; one that starts a task gets a session of its own; with *)
(* a question open the rest answer it, without one they continue the active *)
(* task or belong to none.                                                 *)
Targets(t, pending) ==
    {t} \cup (IF Known = {} THEN {0} ELSE Known)
        \cup (IF ~IsOpen(pending) THEN {0, hand[t].seen}
              ELSE {IF pending.of # 0 THEN pending.of ELSE hand[t].seen})

Interrupts(t, target, pending) == pending.of # 0 /\ pending.of # target

RouteMessage(t) ==
    /\ hand[t].pc = "route"
    /\ LET pending == Pending
       IN  /\ question' = IF active # 0 /\ pending.of = active THEN question
                          ELSE [question EXCEPT ![0] = pending.row]
           /\ \E target \in Targets(t, pending) :
                 hand' = [hand EXCEPT ![t] =
                    [@ EXCEPT !.target = target, !.pending = pending,
                              !.pc = IF Interrupts(t, target, pending) THEN "suspend"
                                     ELSE IF target = t THEN "create" ELSE "bind"]]
    /\ UNCHANGED <<begun, active, session, point, regular>>

(* set_task_pending_status: only a row that is still there is changed.     *)
Suspend(t) ==
    /\ hand[t].pc = "suspend"
    /\ LET of == hand[t].pending.of
       IN  question' = IF question[of].status = "none" THEN question
                       ELSE [question EXCEPT ![of].status = "suspended"]
    /\ Goes(t, IF hand[t].target = t THEN "create" ELSE "bind")
    /\ UNCHANGED <<begun, active, session, point, regular>>

(* create_task_session. A new task leaves the open question to its task.   *)
CreateSession(t) ==
    /\ hand[t].pc = "create"
    /\ session' = [session EXCEPT ![t] = "new"]
    /\ hand' = [hand EXCEPT ![t].pc = "bind", ![t].pending = NoPending]
    /\ UNCHANGED <<begun, active, question, point, regular>>

(* get_task_pending_request, set_active_task_session and the choice of the *)
(* thread: a question of the task's own replaces the one that was open.    *)
Bind(t) ==
    /\ hand[t].pc = "bind"
    /\ LET target  == hand[t].target
           pending == IF target \in {0, t} \/ question[target].status = "none"
                      THEN hand[t].pending
                      ELSE [of |-> target, row |-> question[target]]
       IN  /\ active' = IF target = 0 THEN active ELSE target
           /\ hand' = [hand EXCEPT ![t] =
                 [@ EXCEPT !.pending = pending,
                           !.thread = IF IsOpen(pending) /\ pending.row.thread # 0
                                      THEN pending.row.thread ELSE target,
                           !.pc = IF ~IsOpen(pending) THEN "invoke"
                                  ELSE IF pending.row.kind = "price" THEN "price"
                                  ELSE "consume"]]
    /\ UNCHANGED <<begun, session, question, point, regular>>

(***************************************************************************)
(* The graph. What it does is a choice: it interrupts itself with a        *)
(* question, answers, or runs a workflow, which may end with a question     *)
(* about the price.                                                        *)
(***************************************************************************)
Outcomes == {"text", "price", "chat", "work"}

Place(out) == CASE out = "text" -> "open" [] out = "price" -> "priced" [] OTHER -> "closed"

(* An error may come before or after the thread's next checkpoint; the     *)
(* thread of a message without a task is not used again.                   *)
Reaches(t, places) ==
    \E p \in places : point' = IF hand[t].thread = 0 THEN point
                               ELSE [point EXCEPT ![hand[t].thread] = p]

Runs(t, outcomes) ==
    \E out \in outcomes :
       /\ hand' = [hand EXCEPT ![t].out = out, ![t].pc = "settle"]
       /\ Reaches(t, {Place(out)})

Replies(t, outcomes) ==
    /\ \E out \in outcomes : hand' = [hand EXCEPT ![t].out = out, ![t].pc = "settle"]
    /\ UNCHANGED point

Invoke(t) ==
    /\ hand[t].pc = "invoke"
    /\ Runs(t, Outcomes)
    /\ UNCHANGED <<begun, active, session, question, regular>>

(* A question of the task the message was routed to, not of the one it      *)
(* interrupts, nor one without a task.                                     *)
OfItsTask(t) == hand[t].pending.of = hand[t].target /\ hand[t].target # 0

Consume_Later(t) ==  \* mutant: the graph is resumed with the question in place
    /\ hand[t].pc = "consume"
    /\ Goes(t, "resume")
    /\ regular' = (regular /\ OfItsTask(t))
    /\ UNCHANGED <<begun, active, session, question, point>>

(* A clarification is consumed before the graph is resumed.                *)
Consume(t) ==
    /\ hand[t].pc = "consume"
    /\ question' = [question EXCEPT ![hand[t].pending.of] = NoQuestion]
    /\ Goes(t, "resume")
    /\ regular' = (regular /\ OfItsTask(t))
    /\ UNCHANGED <<begun, active, session, point>>

Interrupted(th) == th # 0 /\ point[th] = "open"

(* Command(resume=...) on a thread that ran to its end runs nothing and    *)
(* returns what it ended with, also a question about a price that has been *)
(* answered since; on a thread that never ran it raises (Breaks).          *)
ResumeThread(t) ==
    /\ hand[t].pc = "resume"
    /\ \/ Interrupted(hand[t].thread) /\ Runs(t, Outcomes)
       \/ /\ hand[t].thread # 0
          /\ \/ point[hand[t].thread] = "closed" /\ Replies(t, {"chat"})
             \/ point[hand[t].thread] = "priced" /\ Replies(t, {"replayed"})
    /\ UNCHANGED <<begun, active, session, question, regular>>

(* _resume_price_confirmation resumes the workflow that asked, without the *)
(* graph; to an answer it cannot read it repeats the question, which ends  *)
(* with that if the workflow has stopped waiting by then.                  *)
AnswerPrice(t) ==
    /\ hand[t].pc = "price"
    /\ \/ Replies(t, {"again", "chat"}) /\ UNCHANGED question
       \/ /\ Replies(t, {"price", "work"})
          /\ question' = [question EXCEPT ![hand[t].pending.of] = NoQuestion]
    /\ UNCHANGED <<begun, active, session, regular>>

(***************************************************************************)
(* The end of a turn.                                                      *)
(***************************************************************************)
Asked == {"text", "price", "again", "replayed"}

(* save_pending_request, or clear_pending_request, of the routed task. The *)
(* question is about a price while the workflow waits for one.             *)
SettleQuestion(t) ==
    /\ hand[t].pc = "settle"
    /\ LET h == hand[t]
           row == [status |-> "waiting", 
                   kind |-> IF h.out \in {"text", "replayed"} THEN "text" ELSE "price",
                   thread |-> IF h.target = 0 THEN 0 ELSE h.thread, since |-> begun]
       IN  question' = [question EXCEPT ![h.target] = IF h.out \in Asked THEN row
                                                      ELSE NoQuestion]
    /\ Goes(t, "finish")
    /\ UNCHANGED <<begun, active, session, point, regular>>

(* _mirror_task_state: a workflow belongs to the turn's task if that has   *)
(* none yet, else it gets a session of its own.                            *)
Mirrored(t) ==
    LET s == IF hand[t].target # 0 /\ session[hand[t].target] = "new"
             THEN hand[t].target ELSE t
    IN  session' = [session EXCEPT ![s] = "ran"]

(* complete_turn or complete_message_turn. A workflow that was resumed has *)
(* its session, unless the turn that ran it first did not come to this.    *)
FinishMessage(t) ==
    /\ hand[t].pc = "finish"
    /\ \/ hand[t].out \in {"price", "work"} /\ Mirrored(t)
       \/ /\ hand[t].out \in {"text", "again", "replayed", "chat"} \/ hand[t].pending.row.kind = "price"
          /\ UNCHANGED session
    /\ Ends(t, "over")
    /\ UNCHANGED <<begun, active, question, point, regular>>

(* Anything may raise, fail_turn too, and the process may die. The graph   *)
(* may have come to a checkpoint by then, without an interrupt.            *)
Breaks(t) ==
    /\ t \in InHand
    /\ \E end \in {"failed", "over"} : Ends(t, end)
    /\ \/ UNCHANGED point
       \/ hand[t].pc \in {"invoke", "resume"} /\ Reaches(t, {"closed"})
    /\ UNCHANGED <<begun, active, session, question, regular>>

MessageStep(t) ==
    \/ BeginMessage(t) \/ RouteMessage(t) \/ Suspend(t) \/ CreateSession(t) \/ Bind(t)
    \/ Invoke(t) \/ Consume(t) \/ ResumeThread(t) \/ AnswerPrice(t)
    \/ SettleQuestion(t) \/ FinishMessage(t) \/ Breaks(t)

TaskNext == \E t \in Messages : MessageStep(t)

TaskSpec == TaskInit /\ [][TaskNext]_taskVars

-----------------------------------------------------------------------------
(* Properties.                                                             *)

Question == [status : {"none", "waiting", "suspended"}, kind : {"none", "text", "price"},
             thread : 0..MaxMessages, since : 0..MaxMessages]

TaskTypeOK ==
    /\ begun \in 0..MaxMessages /\ active \in 0..MaxMessages
    /\ session \in [Messages -> {"none", "new", "ran"}]
    /\ question \in [0..MaxMessages -> Question]
    /\ point \in [Messages -> {"none", "open", "closed", "priced"}]
    /\ hand \in [Messages ->
          [pc : Idle \cup {"route", "suspend", "create", "bind", "invoke", "consume",
                            "resume", "price", "settle", "finish"},
           seen : 0..MaxMessages, target : 0..MaxMessages,
           pending : [of : 0..MaxMessages, row : Question],
           thread : 0..MaxMessages, out : Asked \cup Outcomes \cup {"none"}]]

(* Comment at facade.py:244: no failure leaves a question behind that later *)
(* messages would answer in vain. While messages come one at a time and     *)
(* answer questions of the task they are for, the one question that waits   *)
(* is the active task's, and the thread it names stands at an interrupt,    *)
(* unless a workflow asked for a price.                                     *)
OpenQuestionIsLive ==
    regular => \A s \in Messages : question[s].status = "waiting" =>
       /\ s = active
       /\ question[s].kind = "text" => Interrupted(question[s].thread)

(* docs/V43_TECHNICAL.md: another task that is started suspends a task, and *)
(* a recall takes it up. A question that was put aside ends with a message  *)
(* for its task only, or with one that read it while it was still open.     *)
SetAsideIsKept ==
    [][\A s \in Messages :
          question[s].status = "suspended" /\ question'[s].status = "none" =>
             \E t \in InHand :
                /\ hand'[t] # hand[t]
                /\ \/ hand[t].target = s
                   \/ hand[t].pending.of = s /\ hand[t].pending.row.status = "waiting"]_taskVars

(* docs/V43_TECHNICAL.md:20: a task that is recalled is resumed on its own  *)
(* thread, and the threads of other tasks stay as they are.                 *)
TaskRunsOnItsThread ==
    \A t \in Messages :
       hand[t].pc \in {"invoke", "resume"} /\ hand[t].target # 0 =>
          hand[t].thread = hand[t].target
=============================================================================
