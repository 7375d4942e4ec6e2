------------------------- MODULE ConversationTurns -------------------------
(* A chat message as a durable job: the dispatch endpoint, the drain thread *)
(* and its handler, the turn of the conversation, the event stream and the  *)
(* page that reads it.                                                      *)
(*                                                                          *)
(* A request is a client_request_id with its message; a client that repeats *)
(* itself dispatches the same request again. Of a stream's events only the  *)
(* two that end it are kept.                                                *)
EXTENDS Integers, FiniteSets, Sequences

CONSTANTS
    Requests,    \* client_request_ids
    Threads,     \* bound: threads of the API process at a time
    MaxCalls,    \* bound: calls of the two endpoints
    Direct,      \* bound: requests a client also asks without the queue
    Slots,       \* capacity of the workflow bulkhead
    NoRequest    \* no request: of a thread, a stream

VARIABLES
    stream,   \* copilot_streams: status, and the events that end a stream
    calls,    \* calls so far; call s opens stream s if it dispatches
    job,      \* runtime_jobs of type copilot_turn, by idempotency key
    turn,     \* turns: status, whether a response is stored, answers given
    strayed,  \* requests whose response was stored with another request's turn
    thread,   \* threads inside an endpoint or inside _drain_workflow_queue
    reader,   \* a page and the stream it reads, 0 for none
    excused   \* the end of that stream was lost with a process, a queue or a database

turnVars == <<stream, calls, job, turn, strayed, thread, reader, excused>>

ASSUME TurnAssumption ==
    /\ IsFiniteSet(Requests) /\ IsFiniteSet(Threads)
    /\ Direct \subseteq Requests /\ MaxCalls \in Nat /\ Slots \in Nat \ {0}
    /\ NoRequest \notin Requests

Streams == 1..MaxCalls

StreamStatus == {"none", "running", "completed", "failed"}
JobStatus    == {"none", "queued", "leased", "succeeded", "dead"}
TurnStatus   == {"none", "processing", "completed", "failed"}
Handling     == {"begin", "work", "ran", "answered", "replay", "raised", "settle"}
ThreadPC     == Handling \cup {"idle", "enqueue", "drain", "finish"}

NoStream == [status |-> "none", log |-> <<>>]
NoJob    == [status |-> "none", stream |-> 0]
NoTurn   == [status |-> "none", stored |-> FALSE, answers |-> 0]

At(pc, r, s) == [pc |-> pc, req |-> r, stream |-> s, ok |-> FALSE]
Free         == At("idle", NoRequest, 0)

TurnInit ==
    /\ stream = [s \in Streams |-> NoStream] /\ calls = 0
    /\ job = [r \in Requests |-> NoJob]
    /\ turn = [r \in Requests |-> NoTurn]
    /\ strayed = {}
    /\ thread = [t \in Threads |-> Free]
    /\ reader = [stream |-> 0, pc |-> "off"]
    /\ excused = FALSE

Moves(t, pc) == thread' = [thread EXCEPT ![t].pc = pc]

(***************************************************************************)
(* dispatch_copilot_message. The thread goes on as the drain thread that   *)
(* the endpoint starts.                                                    *)
(***************************************************************************)
(* CopilotEventStore.create.                                               *)
OpenStream(t, r) ==
    /\ thread[t].pc = "idle" /\ calls < MaxCalls
    /\ calls' = calls + 1
    /\ stream' = [stream EXCEPT ![calls + 1].status = "running"]
    /\ thread' = [thread EXCEPT ![t] = At("enqueue", r, calls + 1)]
    /\ UNCHANGED <<job, turn, reader, excused, strayed>>

(* The job's payload names the stream, so a repeated key is a conflict.    *)
(* A page learns of the stream from the endpoint's answer.                 *)
EnqueueTurn(t) ==
    /\ thread[t].pc = "enqueue"
    /\ job[thread[t].req].status = "none"
    /\ job' = [job EXCEPT ![thread[t].req] =
                  [status |-> "queued", stream |-> thread[t].stream]]
    /\ Moves(t, "drain")
    /\ \/ UNCHANGED reader
       \/ reader.pc = "off" /\ reader' = [stream |-> thread[t].stream, pc |-> "poll"]
    /\ UNCHANGED <<stream, calls, turn, excused, strayed>>

Failed_Silent(s) ==  \* mutant: the status is set, the event is not written
    IF stream[s].status # "running" THEN stream
    ELSE [stream EXCEPT ![s].status = "failed"]

(* CopilotEventStore.fail: only a running stream is failed.                *)
Failed(s) == IF stream[s].status # "running" THEN stream
             ELSE [stream EXCEPT ![s] = [status |-> "failed",
                                         log |-> Append(@.log, "stream_failed")]]

(* A conflict of the key, or a queue at one of its limits.                 *)
EnqueueRefused(t) ==
    /\ thread[t].pc = "enqueue"
    /\ stream' = Failed(thread[t].stream)
    /\ thread' = [thread EXCEPT ![t] = Free]
    /\ UNCHANGED <<calls, job, turn, reader, excused, strayed>>

(* Any other error of the queue leaves the endpoint with the stream open.  *)
EnqueueRaises(t) ==
    /\ thread[t].pc = "enqueue"
    /\ thread' = [thread EXCEPT ![t] = Free]
    /\ UNCHANGED <<stream, calls, job, turn, reader, excused, strayed>>

(***************************************************************************)
(* _drain_workflow_queue and run_once.                                     *)
(***************************************************************************)
InHandler == {t \in Threads : thread[t].pc \in Handling /\ thread[t].stream # 0}

Queued == {job[r].stream : r \in {q \in Requests : job[q].status = "queued"}}

TakeJob(t) ==
    /\ thread[t].pc = "drain"
    /\ Cardinality(InHandler) < Slots
    /\ \E r \in Requests :
          /\ job[r].status = "queued"
          /\ job' = [job EXCEPT ![r].status = "leased"]
          /\ thread' = [thread EXCEPT ![t] = At("begin", r, job[r].stream)]
    /\ UNCHANGED <<stream, calls, turn, reader, excused, strayed>>

(* A full bulkhead fails the leased job; it has no second attempt, and its *)
(* handler, which owns the stream, never runs.                             *)
BulkheadRefuses(t) ==
    /\ thread[t].pc = "drain"
    /\ Cardinality(InHandler) >= Slots
    /\ \E r \in Requests :
          /\ job[r].status = "queued"
          /\ job' = [job EXCEPT ![r].status = "dead"]
          /\ excused' = (excused \/ job[r].stream = reader.stream)
    /\ UNCHANGED <<stream, calls, turn, thread, reader, strayed>>

QueueEmpty(t) ==
    /\ thread[t].pc = "drain"
    /\ \A r \in Requests : job[r].status # "queued"
    /\ thread' = [thread EXCEPT ![t] = Free]
    /\ UNCHANGED <<stream, calls, job, turn, reader, excused, strayed>>

LeaseRunsOut_Again(r) ==  \* mutant: the job has a second attempt
    /\ job[r].status = "leased"
    /\ job' = [job EXCEPT ![r].status = "queued"]
    /\ UNCHANGED <<stream, calls, turn, thread, reader, excused, strayed>>

(* Nothing renews the lease of a running turn: lease_next reclaims it.     *)
LeaseRunsOut(r) ==
    /\ job[r].status = "leased"
    /\ job' = [job EXCEPT ![r].status = "dead"]
    /\ UNCHANGED <<stream, calls, turn, thread, reader, excused, strayed>>

(* complete or fail of the job; a lost lease ends the drain thread, and    *)
(* with it the service of the jobs that are queued.                        *)
FinishJob(t) ==
    /\ thread[t].pc = "finish"
    /\ LET r == thread[t].req
       IN  \/ /\ job[r].status = "leased"
              /\ job' = [job EXCEPT ![r].status = IF thread[t].ok THEN "succeeded"
                                                  ELSE "dead"]
              /\ thread' = [thread EXCEPT ![t] = At("drain", NoRequest, 0)]
              /\ UNCHANGED excused
           \/ /\ job[r].status # "leased"
              /\ thread' = [thread EXCEPT ![t] = Free]
              /\ excused' = (excused \/ reader.stream \in Queued)
              /\ UNCHANGED job
    /\ UNCHANGED <<stream, calls, turn, reader, strayed>>

(***************************************************************************)
(* ConversationFacade.handle_message, from the handler or from the         *)
(* endpoint that answers in one go (stream 0).                             *)
(***************************************************************************)
AskDirectly(t, r) ==
    /\ thread[t].pc = "idle" /\ r \in Direct /\ calls < MaxCalls
    /\ calls' = calls + 1
    /\ thread' = [thread EXCEPT ![t] = At("begin", r, 0)]
    /\ UNCHANGED <<stream, job, turn, reader, excused, strayed>>

Replayed_Any(r) == "replay"  \* mutant: replayed without a stored response

(* handle_message of a request that has a turn: the stored response, or a  *)
(* conflict while there is none (a turn names a task only together with    *)
(* its response).                                                          *)
Replayed(r) == IF turn[r].stored THEN "replay" ELSE "raised"

(* begin_turn: one transaction reserves the request.                       *)
BeginTurn(t) ==
    /\ thread[t].pc = "begin"
    /\ LET r == thread[t].req
       IN  \/ /\ turn[r].status = "none"
              /\ turn' = [turn EXCEPT ![r].status = "processing"]
              /\ Moves(t, "work")
           \/ /\ turn[r].status # "none"
              /\ Moves(t, Replayed(r))
              /\ UNCHANGED turn
    /\ UNCHANGED <<stream, calls, job, reader, excused, strayed>>

(* The graph runs the task its message created, or resumes one that waits  *)
(* for a price: the TaskState is saved with this turn as its own.          *)
RunTask(t) ==
    /\ thread[t].pc = "work"
    /\ Moves(t, "ran")
    /\ UNCHANGED <<stream, calls, job, turn, strayed, reader, excused>>

(* complete_message_turn, of an answer without a task.                     *)
CompleteMessageTurn(t) ==
    /\ thread[t].pc = "work"
    /\ turn' = [turn EXCEPT ![thread[t].req] = [status |-> "completed", stored |-> TRUE,
                                                answers |-> @.answers + 1]]
    /\ Moves(t, "answered")
    /\ UNCHANGED <<stream, calls, job, reader, excused, strayed>>

Completed_AddsAnother(r) ==  \* mutant: a message is added each time
    [status |-> "completed", stored |-> TRUE, answers |-> turn[r].answers + 1]

(* complete_turn of the turn that the TaskState names: the response is     *)
(* stored, and a message is added if the turn has none.                    *)
Completed(r) == [status |-> "completed", stored |-> TRUE,
                 answers |-> IF turn[r].answers = 0 THEN 1 ELSE turn[r].answers]

(* The turns that a saved TaskState may name: which of them ran a task is  *)
(* not kept, only that a message still at work has not.                    *)
Named == {r \in Requests : turn[r].status # "none"}
            \ {thread[t].req : t \in {u \in Threads : thread[u].pc = "work"}}

(* The task of the response is loaded again. It names another turn if a    *)
(* later message has taken the task up, or if the graph ran none: resume   *)
(* of a thread that ran to its end, for a message that consumed a question *)
(* another one has answered, returns what the thread ended with. The turn  *)
(* of the request itself then stays as it is.                              *)
CompleteTurn(t) ==
    /\ thread[t].pc \in {"work", "ran"}
    /\ \E r \in Named :
          /\ turn' = [turn EXCEPT ![r] = Completed(r)]
          /\ strayed' = strayed \cup ({thread[t].req} \ {r})
    /\ Moves(t, "answered")
    /\ UNCHANGED <<stream, calls, job, reader, excused>>

(* Anything may raise, also capture_task_entities and refresh_summary      *)
(* when the turn is complete. fail_turn takes the turn whatever its        *)
(* status; it may raise in its turn.                                       *)
FailTurn(t) ==
    /\ thread[t].pc \in {"work", "ran", "answered"}
    /\ \/ turn' = [turn EXCEPT ![thread[t].req].status = "failed"]
       \/ UNCHANGED turn
    /\ Moves(t, "raised")
    /\ UNCHANGED <<stream, calls, job, reader, excused, strayed>>

(***************************************************************************)
(* _run_dispatched_message: complete and fail of the stream.               *)
(***************************************************************************)
(* The first transaction of complete appends the answer, its second one    *)
(* closes the stream.                                                      *)
PublishAnswer(t) ==
    /\ thread[t].pc \in {"answered", "replay"} /\ thread[t].stream # 0
    /\ stream' = [stream EXCEPT ![thread[t].stream].log = Append(@, "response_ready")]
    /\ Moves(t, "settle")
    /\ UNCHANGED <<calls, job, turn, reader, excused, strayed>>

SettleStream(t) ==
    /\ thread[t].pc = "settle"
    /\ stream' = [stream EXCEPT ![thread[t].stream].status = "completed"]
    /\ thread' = [thread EXCEPT ![t] = [pc |-> "finish", req |-> @.req,
                                        stream |-> @.stream, ok |-> TRUE]]
    /\ UNCHANGED <<calls, job, turn, reader, excused, strayed>>

(* An error of handle_message or of complete; fail may raise in its turn.  *)
FailStream(t) ==
    /\ thread[t].pc \in {"raised", "replay", "answered", "settle"} /\ thread[t].stream # 0
    /\ \/ stream' = Failed(thread[t].stream) /\ UNCHANGED excused
       \/ excused' = (excused \/ thread[t].stream = reader.stream) /\ UNCHANGED stream
    /\ Moves(t, "finish")
    /\ UNCHANGED <<calls, job, turn, reader, strayed>>

(* The direct endpoint returns the response or the error.                  *)
ReplyDirectly(t) ==
    /\ thread[t].pc \in {"replay", "answered", "raised"} /\ thread[t].stream = 0
    /\ thread' = [thread EXCEPT ![t] = Free]
    /\ UNCHANGED <<stream, calls, job, turn, reader, excused, strayed>>

(***************************************************************************)
(* stream_copilot_events: events are read first, the status afterwards.    *)
(* The page closes at an event that ends the stream; EventSource connects  *)
(* again with its last event id when the server ends the response.         *)
(***************************************************************************)
ReadEvents ==
    /\ reader.pc = "poll"
    /\ reader' = [reader EXCEPT !.pc = IF stream[reader.stream].log # <<>> THEN "shown"
                                       ELSE "check"]
    /\ UNCHANGED <<stream, calls, job, turn, thread, excused, strayed>>

ReadStatus ==
    /\ reader.pc = "check"
    /\ reader' = [reader EXCEPT !.pc =
                     IF stream[reader.stream].status = "running" THEN "poll"
                     ELSE "closed"]
    /\ UNCHANGED <<stream, calls, job, turn, thread, excused, strayed>>

Reconnect ==
    /\ reader.pc = "closed"
    /\ reader' = [reader EXCEPT !.pc = "poll"]
    /\ UNCHANGED <<stream, calls, job, turn, thread, excused, strayed>>

(* The process dies: threads are gone, rows stay. Nobody drains the queue  *)
(* until the next dispatch.                                                *)
ServerDies ==
    /\ \E t \in Threads : thread[t] # Free
    /\ thread' = [t \in Threads |-> Free]
    /\ excused' = (excused \/ reader.stream \in
                               {s \in Streams : stream[s].status = "running"})
    /\ UNCHANGED <<stream, calls, job, turn, reader, strayed>>

ThreadStep(t) ==
    \/ EnqueueTurn(t) \/ EnqueueRefused(t) \/ EnqueueRaises(t)
    \/ TakeJob(t) \/ BulkheadRefuses(t) \/ QueueEmpty(t) \/ FinishJob(t)
    \/ BeginTurn(t) \/ RunTask(t) \/ CompleteTurn(t)
    \/ CompleteMessageTurn(t) \/ FailTurn(t)
    \/ PublishAnswer(t) \/ SettleStream(t) \/ FailStream(t) \/ ReplyDirectly(t)

ReaderStep == ReadEvents \/ ReadStatus \/ Reconnect

TurnNext ==
    \/ \E t \in Threads, r \in Requests : OpenStream(t, r) \/ AskDirectly(t, r)
    \/ \E t \in Threads : ThreadStep(t)
    \/ \E r \in Requests : LeaseRunsOut(r)
    \/ ReaderStep
    \/ ServerDies

(* The threads of a live process run on, and the page keeps reading; agents *)
(* and model calls have timeouts of their own, so that work ends.           *)
TurnFairness ==
    /\ \A t \in Threads : WF_turnVars(ThreadStep(t))
    /\ WF_turnVars(ReaderStep)

TurnSpec == TurnInit /\ [][TurnNext]_turnVars /\ TurnFairness

-----------------------------------------------------------------------------
(* Properties.                                                             *)

TurnTypeOK ==
    /\ stream \in [Streams -> [status : StreamStatus,
                               log : Seq({"response_ready", "stream_failed"})]]
    /\ calls \in 0..MaxCalls
    /\ job \in [Requests -> [status : JobStatus, stream : 0..MaxCalls]]
    /\ turn \in [Requests -> [status : TurnStatus, stored : BOOLEAN, answers : Nat]]
    /\ strayed \subseteq Requests
    /\ thread \in [Threads -> [pc : ThreadPC, req : Requests \cup {NoRequest},
                               stream : 0..MaxCalls, ok : BOOLEAN]]
    /\ reader \in [stream : 0..MaxCalls,
                   pc : {"off", "poll", "check", "closed", "shown"}]
    /\ excused \in BOOLEAN

(* However often a client repeats a request, in the queue and directly, in *)
(* every interleaving and after failures and crashes, and although turns   *)
(* are completed by the messages that take up or replay their tasks, the   *)
(* conversation gets at most one answer to it.                             *)
OneAnswerPerRequest == \A r \in Requests : turn[r].answers <= 1

(* What a stream announces is in the conversation: a response it published *)
(* is stored with the turn of the request the stream belongs to, or with   *)
(* that of another request, whose task the message took up or replayed.    *)
PublishedIsStored ==
    /\ \A s \in Streams : \A i \in 1..Len(stream[s].log) :
          stream[s].log[i] = "response_ready" =>
             \E r \in Requests : job[r].stream = s /\ (turn[r].stored \/ r \in strayed)
    /\ \A r \in strayed : \E q \in Requests \ {r} : turn[q].stored

(* docs/V34_TECHNICAL.md: a stream ends with one of two events. No stream  *)
(* goes on after it failed, and it is completed by one answer only.        *)
EndsOnce ==
    \A s \in Streams :
       /\ stream[s].status = "completed" => stream[s].log = <<"response_ready">>
       /\ stream[s].status = "failed" =>
             stream[s].log \in {<<"stream_failed">>, <<"response_ready", "stream_failed">>}

(* What AnswerLedger speaks of: the request that the job of a stream       *)
(* carries, and the answers given.                                         *)
Accepted == [s \in Streams |->
               IF \E r \in Requests : job[r].stream = s
               THEN CHOOSE r \in Requests : job[r].stream = s ELSE NoRequest]

AnswersGiven == [r \in Requests |-> turn[r].answers]

Turns == INSTANCE AnswerLedger WITH accepted <- Accepted, answers <- AnswersGiven

(* The endpoints, the queue, the drain threads and the conversation        *)
(* together keep the promises of AnswerLedger.                             *)
ImplementsAnswers == Turns!Spec

(* A page that waits for a stream is shown its end, unless the process     *)
(* died, the bulkhead was full or the database refused the event.  Once it *)
(* waits it is never "off" again, and what excuses the end stays.          *)
PageIsAnswered ==
    []<>(reader.pc \in {"off", "shown"} \/ excused)
=============================================================================
