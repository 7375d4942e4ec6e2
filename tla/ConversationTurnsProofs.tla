---------------------- MODULE ConversationTurnsProofs ----------------------
(***************************************************************************)
(* Theorems about ConversationTurns, for any requests, threads, calls and  *)
(* slots, and their proofs.                                                *)
(***************************************************************************)
EXTENDS ConversationTurns, SequenceTheorems, TLAPS

(* What a stream can look like.                                            *)
Open         == [status |-> "running", log |-> <<>>]
Answered     == [status |-> "running", log |-> <<"response_ready">>]
Done         == [status |-> "completed", log |-> <<"response_ready">>]
FailedAtOnce == [status |-> "failed", log |-> <<"stream_failed">>]
FailedLate   == [status |-> "failed", log |-> <<"response_ready", "stream_failed">>]

Published == {Answered, Done, FailedLate}
Looks     == {NoStream, Open, FailedAtOnce} \cup Published

Thread == [pc : ThreadPC, req : Requests \cup {NoRequest}, stream : 0..MaxCalls, ok : BOOLEAN]

(* A thread that has a request, and its stream, to itself.                 *)
Owns(t) == thread[t].pc \in Handling \cup {"enqueue", "finish"}

(* The response to r is in the conversation.                               *)
Given(r) == turn[r].stored \/ r \in strayed

(* What a thread knows of its request.                                     *)
Informed(t) ==
  Owns(t) =>
    /\ thread[t].req \in Requests
    /\ thread[t].pc = "answered" => Given(thread[t].req)
    /\ thread[t].pc = "replay" => turn[thread[t].req].stored
    /\ thread[t].pc \in {"work", "ran", "answered"} => turn[thread[t].req].status # "none"
    /\ thread[t].pc = "work" => turn[thread[t].req].answers = 0

(* What a thread knows of its stream, and of the job that carries it.      *)
Streaming(t) ==
  /\ thread[t].pc \in {"enqueue", "settle"} => thread[t].stream # 0
  /\ Owns(t) /\ thread[t].stream # 0 =>
       /\ thread[t].stream \in 1..calls
       /\ thread[t].pc = "enqueue" => \A r \in Requests : job[r].stream # thread[t].stream
       /\ thread[t].pc # "enqueue" => /\ job[thread[t].req].stream = thread[t].stream
                                      /\ job[thread[t].req].status \notin {"none", "queued"}
       /\ thread[t].pc \notin {"settle", "finish"} => stream[thread[t].stream] = Open
       /\ thread[t].pc = "settle" => stream[thread[t].stream] = Answered

(* No two threads have one stream, and no two work on one request.         *)
Apart(t, u) ==
  t # u /\ Owns(t) /\ Owns(u) =>
    /\ thread[t].stream # 0 => thread[t].stream # thread[u].stream
    /\ thread[t].pc = "work" /\ thread[u].pc = "work" => thread[t].req # thread[u].req

ThreadsHold == /\ \A t \in Threads : Informed(t) /\ Streaming(t)
               /\ \A t, u \in Threads : Apart(t, u)

(* A stream belongs to one job, and stays open while that is queued.       *)
JobsHold ==
  /\ \A r \in Requests :
       /\ job[r].status = "none" <=> job[r].stream = 0
       /\ job[r].stream \in 0..calls
       /\ job[r].status = "queued" => stream[job[r].stream] = Open
  /\ \A r, q \in Requests : r # q /\ job[r].stream # 0 => job[r].stream # job[q].stream

TurnsHold ==
  /\ \A r \in Requests : /\ turn[r].answers <= 1
                         /\ turn[r].status = "none" => turn[r].answers = 0
  /\ \A r \in strayed : \E q \in Requests \ {r} : turn[q].stored

StreamsHold ==
  \A s \in Streams :
    /\ stream[s] \in Looks
    /\ s > calls => stream[s] = NoStream
    /\ stream[s] \in Published => \E r \in Requests : job[r].stream = s /\ Given(r)

Typed == /\ calls \in 0..MaxCalls
         /\ job \in [Requests -> [status : JobStatus, stream : 0..MaxCalls]]
         /\ turn \in [Requests -> [status : TurnStatus, stored : BOOLEAN, answers : Nat]]
         /\ strayed \subseteq Requests
         /\ thread \in [Threads -> Thread]
         /\ reader \in [stream : 0..MaxCalls,
                        pc : {"off", "poll", "check", "closed", "shown"}]
         /\ excused \in BOOLEAN
         /\ stream \in [Streams -> Looks]

TurnInv == Typed /\ ThreadsHold /\ JobsHold /\ TurnsHold /\ StreamsHold

-----------------------------------------------------------------------------
(* The looks of a stream.                                                  *)

LEMMA Distinct ==
  /\ NoStream \notin Published /\ Open \notin Published /\ FailedAtOnce \notin Published
  /\ NoStream.status = "none" /\ Open.status = "running" /\ Answered.status = "running"
  /\ Open.log = <<>> /\ Answered.log = <<"response_ready">>
  /\ NoStream.log = <<>>
<1>1. <<"response_ready">> # <<"stream_failed">> /\ <<>> # <<"response_ready">>
      /\ <<>> # <<"response_ready", "stream_failed">>
      /\ <<"stream_failed">> # <<"response_ready", "stream_failed">>
  OBVIOUS
<1> QED  BY <1>1 DEF NoStream, Open, Answered, Done, FailedAtOnce, FailedLate, Published

LEMMA FailedLooks ==
  ASSUME NEW s \in Streams
  PROVE  /\ stream[s] = Open => Failed(s) = [stream EXCEPT ![s] = FailedAtOnce]
         /\ stream[s] = Answered => Failed(s) = [stream EXCEPT ![s] = FailedLate]
<1>1. Append(<<>>, "stream_failed") = <<"stream_failed">>  OBVIOUS
<1>2. Append(<<"response_ready">>, "stream_failed") = <<"response_ready", "stream_failed">>
  <2> DEFINE a == Append(<<"response_ready">>, "stream_failed")
             b == <<"response_ready", "stream_failed">>
             Ends == {"response_ready", "stream_failed"}
  <2>0. <<"response_ready">> \in Seq(Ends)  OBVIOUS
  <2>1. a \in Seq(Ends) /\ b \in Seq(Ends) /\ Len(a) = 2 /\ Len(b) = 2
    BY <2>0, AppendProperties
  <2>2. \A i \in 1..2 : a[i] = b[i]
    OBVIOUS
  <2> HIDE DEF a, b, Ends
  <2>3. a = b  BY <2>1, <2>2, SeqEqual
  <2> QED  BY <2>3 DEF a, b
<1>3. ASSUME stream[s] = Open PROVE Failed(s) = [stream EXCEPT ![s] = FailedAtOnce]
  <2>1. stream[s].status = "running" /\ stream[s].log = <<>>  BY <1>3, Distinct
  <2> QED  BY <1>1, <2>1 DEF Failed, FailedAtOnce
<1>4. ASSUME stream[s] = Answered PROVE Failed(s) = [stream EXCEPT ![s] = FailedLate]
  <2>1. stream[s].status = "running" /\ stream[s].log = <<"response_ready">>
    BY <1>4, Distinct
  <2> QED  BY <1>2, <2>1 DEF Failed, FailedLate
<1> QED  BY <1>3, <1>4

(* What the invariant says of streams in the words of the properties.      *)
LEMMA LooksAreRight ==
  ASSUME TurnInv
  PROVE  TurnTypeOK /\ OneAnswerPerRequest /\ PublishedIsStored /\ EndsOnce
<1> DEFINE Ends == {"response_ready", "stream_failed"}
<1>a. /\ <<>> \in Seq(Ends) /\ <<"response_ready">> \in Seq(Ends)
      /\ <<"stream_failed">> \in Seq(Ends)
      /\ <<"response_ready", "stream_failed">> \in Seq(Ends)
  OBVIOUS
<1>b. Looks \subseteq [status : StreamStatus, log : Seq(Ends)]
  <2> HIDE DEF Ends
  <2>1. /\ NoStream \in [status : StreamStatus, log : Seq(Ends)]
        /\ Open \in [status : StreamStatus, log : Seq(Ends)]
        /\ Answered \in [status : StreamStatus, log : Seq(Ends)]
    BY <1>a DEF NoStream, Open, Answered, StreamStatus
  <2>2. /\ Done \in [status : StreamStatus, log : Seq(Ends)]
        /\ FailedAtOnce \in [status : StreamStatus, log : Seq(Ends)]
        /\ FailedLate \in [status : StreamStatus, log : Seq(Ends)]
    BY <1>a DEF Done, FailedAtOnce, FailedLate, StreamStatus
  <2> QED  BY <2>1, <2>2 DEF Looks, Published
<1>c. \A x \in Looks :
        /\ x.status = "completed" => x.log = <<"response_ready">>
        /\ x.status = "failed" =>
             x.log \in {<<"stream_failed">>, <<"response_ready", "stream_failed">>}
  BY DEF Looks, Published, NoStream, Open, Answered, Done, FailedAtOnce, FailedLate
<1>1. \A x \in Looks : x \notin Published =>
        \A i \in 1..Len(x.log) : x.log[i] # "response_ready"
  <2> SUFFICES ASSUME NEW x \in {NoStream, Open, FailedAtOnce}
               PROVE  \A i \in 1..Len(x.log) : x.log[i] # "response_ready"
    BY DEF Looks
  <2>1. CASE x.log = <<>>  BY <2>1
  <2>2. CASE x.log = <<"stream_failed">>  BY <2>2
  <2> QED  BY <2>1, <2>2 DEF NoStream, Open, FailedAtOnce
<1>2. TurnTypeOK
  <2>1. stream \in [Streams -> [status : StreamStatus, log : Seq(Ends)]]
    <3> HIDE DEF Ends
    <3> QED  BY <1>b DEF TurnInv, Typed
  <2> QED  BY <2>1 DEF TurnInv, Typed, TurnTypeOK, Thread
<1>3. OneAnswerPerRequest
  BY DEF TurnInv, TurnsHold, OneAnswerPerRequest
<1>4. PublishedIsStored
  BY <1>1 DEF TurnInv, StreamsHold, TurnsHold, Given, PublishedIsStored
<1>5. EndsOnce
  BY <1>c DEF TurnInv, StreamsHold, EndsOnce
<1> QED  BY <1>2, <1>3, <1>4, <1>5

-----------------------------------------------------------------------------
LEMMA AtTyped ==
  /\ Free = At("idle", NoRequest, 0)
  /\ \A pc \in ThreadPC, r \in Requests \cup {NoRequest}, s \in 0..MaxCalls :
        At(pc, r, s) \in Thread
  /\ {"idle", "drain", "enqueue", "begin"} \subseteq ThreadPC /\ 0 \in 0..MaxCalls
BY TurnAssumption DEF Free, At, Thread, ThreadPC, Handling

LEMMA TurnBegins == TurnInit => TurnInv
<1> SUFFICES ASSUME TurnInit PROVE TurnInv  OBVIOUS
<1>1. Typed
  <2>1. /\ NoJob \in [status : JobStatus, stream : 0..MaxCalls]
        /\ NoTurn \in [status : TurnStatus, stored : BOOLEAN, answers : Nat]
        /\ Free \in Thread /\ NoStream \in Looks /\ 0 \in 0..MaxCalls
    BY TurnAssumption, AtTyped DEF NoJob, NoTurn, Free, JobStatus, TurnStatus, Looks
  <2> QED  BY <2>1 DEF TurnInit, Typed
<1>2. \A t \in Threads : ~Owns(t) /\ thread[t].pc = "idle"
  BY DEF TurnInit, Owns, Free, At, Handling
<1>3. ThreadsHold
  BY <1>2 DEF ThreadsHold, Informed, Streaming, Apart
<1>4. JobsHold
  BY DEF TurnInit, JobsHold, NoJob
<1>5. TurnsHold
  BY DEF TurnInit, TurnsHold, NoTurn
<1>6. StreamsHold
  BY Distinct DEF TurnInit, StreamsHold, Looks
<1> QED  BY <1>1, <1>3, <1>4, <1>5, <1>6 DEF TurnInv

-----------------------------------------------------------------------------
(* The steps after which every thread goes on by itself: no stream changes, *)
(* no job becomes another one, no turn is begun or answered.                *)
GoesOn(t, th) ==
  \/ th = thread[t]
  \/ th.pc \in {"idle", "drain"}
  \/ /\ Owns(t) /\ th.req = thread[t].req /\ th.stream = thread[t].stream
     /\ thread[t].pc \in Handling
     /\ \/ th.pc = "finish"
        \/ th.pc = "ran" /\ thread[t].pc = "work"
        \/ th.pc = "raised" /\ thread[t].pc # "settle"
        \/ th.pc = "replay" /\ thread[t].pc = "begin" /\ turn[th.req].stored

JobsKept ==
  /\ job' \in [Requests -> [status : JobStatus, stream : 0..MaxCalls]]
  /\ \A r \in Requests : /\ job'[r].stream = job[r].stream
                         /\ job'[r].status = "none" <=> job[r].status = "none"
                         /\ job'[r].status = "queued" => job[r].status = "queued"

TurnsKept ==
  /\ turn' \in [Requests -> [status : TurnStatus, stored : BOOLEAN, answers : Nat]]
  /\ \A r \in Requests : /\ turn'[r].stored = turn[r].stored
                         /\ turn'[r].answers = turn[r].answers
                         /\ turn'[r].status = "none" <=> turn[r].status = "none"
  /\ strayed' = strayed

Watched == /\ reader' \in [stream : 0..MaxCalls,
                           pc : {"off", "poll", "check", "closed", "shown"}]
           /\ excused' \in BOOLEAN

LEMMA Moving ==
  ASSUME TurnInv, Watched, JobsKept, TurnsKept, UNCHANGED <<stream, calls>>,
         thread' \in [Threads -> Thread], \A t \in Threads : GoesOn(t, thread'[t])
  PROVE  TurnInv'
<1> USE DEF TurnInv
<1>1. Typed'
  BY DEF Typed, Watched, JobsKept, TurnsKept
<1>2. \A t \in Threads : Owns(t)' => Owns(t)
  BY DEF Owns, GoesOn, Handling
<1>3. \A t \in Threads : Informed(t)' /\ Streaming(t)'
  <2> SUFFICES ASSUME NEW t \in Threads PROVE Informed(t)' /\ Streaming(t)'
    OBVIOUS
  <2>1. Informed(t) /\ Streaming(t) /\ GoesOn(t, thread'[t])
    BY DEF ThreadsHold
  <2>2. Informed(t)'
    BY <1>2, <2>1 DEF Informed, GoesOn, Owns, Handling, TurnsKept, Given
  <2>3. Owns(t)' /\ thread'[t].stream # 0 => thread[t].req \in Requests
    BY <1>2, <2>1 DEF Informed
  <2>4. Streaming(t)'
    BY <1>2, <2>1, <2>3 DEF Streaming, GoesOn, Owns, Handling, JobsKept
  <2> QED  BY <2>2, <2>4
<1>4. \A t, u \in Threads : Apart(t, u)'
  <2>1. \A t, u \in Threads : Apart(t, u)  BY DEF ThreadsHold
  <2>2. \A t \in Threads : Owns(t)' => /\ thread'[t].stream = thread[t].stream
                                       /\ thread'[t].pc = "work" =>
                                            /\ thread[t].pc = "work"
                                            /\ thread'[t].req = thread[t].req
    BY DEF GoesOn, Owns, Handling
  <2> QED  BY <1>2, <2>1, <2>2 DEF Apart
<1>5. JobsHold'
  BY DEF JobsHold, JobsKept
<1>6. TurnsHold' /\ StreamsHold'
  BY DEF TurnsHold, StreamsHold, JobsKept, TurnsKept, Given, Typed
<1> QED  BY <1>1, <1>3, <1>4, <1>5, <1>6 DEF ThreadsHold

(* A record of one thread, moved.                                          *)
LEMMA Moved ==
  ASSUME Typed, NEW t \in Threads, NEW pc \in ThreadPC, Moves(t, pc)
  PROVE  /\ thread' \in [Threads -> Thread]
         /\ thread' = [thread EXCEPT ![t] = [thread[t] EXCEPT !.pc = pc]]
         /\ thread'[t].pc = pc /\ thread'[t].req = thread[t].req
         /\ thread'[t].stream = thread[t].stream
         /\ \A u \in Threads : u # t => thread'[u] = thread[u]
BY DEF Typed, Thread, Moves

LEMMA Freed ==
  ASSUME Typed, NEW t \in Threads, thread' = [thread EXCEPT ![t] = Free]
  PROVE  thread' \in [Threads -> Thread] /\ \A u \in Threads : GoesOn(u, thread'[u])
<1>1. Free \in Thread /\ Free.pc = "idle"
  BY AtTyped DEF Free, At
<1> QED  BY <1>1 DEF Typed, GoesOn

LEMMA Unmoved ==
  ASSUME Typed, UNCHANGED thread
  PROVE  thread' \in [Threads -> Thread] /\ \A u \in Threads : GoesOn(u, thread'[u])
BY DEF Typed, GoesOn

LEMMA Kept ==
  ASSUME Typed
  PROVE  /\ UNCHANGED job => JobsKept
         /\ UNCHANGED <<turn, strayed>> => TurnsKept
         /\ UNCHANGED reader /\ excused' \in BOOLEAN => Watched
BY DEF Typed, JobsKept, TurnsKept, Watched

(* A job that is no longer queued, or no longer leased.                    *)
LEMMA JobEnds ==
  ASSUME Typed, NEW r \in Requests, job[r].status \in {"queued", "leased"},
         NEW x \in {"leased", "succeeded", "dead"}, job' = [job EXCEPT ![r].status = x]
  PROVE  JobsKept
<1>1. job[r] \in [status : JobStatus, stream : 0..MaxCalls]
  BY DEF Typed
<1>2. job' = [job EXCEPT ![r] = [job[r] EXCEPT !.status = x]]
  BY DEF Typed
<1>3. [job[r] EXCEPT !.status = x] = [status |-> x, stream |-> job[r].stream]
  BY <1>1
<1> QED  BY <1>1, <1>2, <1>3 DEF Typed, JobsKept, JobStatus

LEMMA ByThemselves ==
  ASSUME TurnInv, NEW t \in Threads,
         \/ EnqueueRaises(t) \/ QueueEmpty(t) \/ ReplyDirectly(t) \/ BulkheadRefuses(t)
         \/ FinishJob(t) \/ RunTask(t) \/ FailTurn(t)
  PROVE  TurnInv'
<1> USE DEF TurnInv
<1>1. CASE EnqueueRaises(t) \/ QueueEmpty(t) \/ ReplyDirectly(t)
  <2>1. excused' \in BOOLEAN  BY <1>1 DEF EnqueueRaises, QueueEmpty, ReplyDirectly, Typed
  <2> QED  BY <1>1, <2>1, Freed, Kept, Moving DEF EnqueueRaises, QueueEmpty, ReplyDirectly
<1>2. CASE BulkheadRefuses(t)
  <2>1. JobsKept  BY <1>2, JobEnds DEF BulkheadRefuses
  <2>2. excused' \in BOOLEAN  BY <1>2 DEF BulkheadRefuses, Typed
  <2> QED  BY <1>2, <2>1, <2>2, Unmoved, Kept, Moving DEF BulkheadRefuses
<1>3. CASE FinishJob(t)
  <2>1. thread[t].req \in Requests
    BY <1>3 DEF FinishJob, ThreadsHold, Informed, Owns
  <2>2. excused' \in BOOLEAN  BY <1>3 DEF FinishJob, Typed
  <2>3. JobsKept
    <3>1. CASE UNCHANGED job  BY <3>1, Kept
    <3>2. CASE /\ job[thread[t].req].status = "leased"
               /\ job' = [job EXCEPT ![thread[t].req].status =
                             IF thread[t].ok THEN "succeeded" ELSE "dead"]
      BY <2>1, <3>2, JobEnds
    <3> QED  BY <1>3, <3>1, <3>2 DEF FinishJob
  <2>4. thread' \in [Threads -> Thread] /\ \A u \in Threads : GoesOn(u, thread'[u])
    <3>1. At("drain", NoRequest, 0) \in Thread /\ At("drain", NoRequest, 0).pc = "drain"
      BY AtTyped DEF At
    <3>2. CASE thread' = [thread EXCEPT ![t] = At("drain", NoRequest, 0)]
      BY <3>1, <3>2 DEF Typed, GoesOn
    <3>3. CASE thread' = [thread EXCEPT ![t] = Free]
      BY <3>3, Freed
    <3> QED  BY <1>3, <3>2, <3>3 DEF FinishJob
  <2> QED  BY <1>3, <2>2, <2>3, <2>4, Kept, Moving DEF FinishJob
<1>4. CASE FailTurn(t)
  <2>0. thread[t].pc \in {"work", "ran", "answered"} /\ Moves(t, "raised")
        /\ UNCHANGED <<stream, calls, job, reader, excused, strayed>>
    BY <1>4 DEF FailTurn
  <2>1. Owns(t) /\ thread[t].req \in Requests /\ thread[t].pc \in Handling
    BY <2>0 DEF ThreadsHold, Informed, Owns, Handling
  <2>2. thread' \in [Threads -> Thread] /\ \A u \in Threads : GoesOn(u, thread'[u])
    <3>1. "raised" \in ThreadPC  BY DEF ThreadPC, Handling
    <3> QED  BY <2>0, <2>1, <3>1, Moved DEF GoesOn
  <2>3. TurnsKept
    <3>1. CASE turn' = [turn EXCEPT ![thread[t].req].status = "failed"]
      <4>1. turn[thread[t].req].status # "none"
        BY <2>0, <2>1 DEF ThreadsHold, Informed
      <4> QED  BY <2>0, <2>1, <3>1, <4>1 DEF TurnsKept, Typed, TurnStatus
    <3> QED  BY <1>4, <2>0, <3>1, Kept DEF FailTurn
  <2>4. excused' \in BOOLEAN  BY <2>0 DEF Typed
  <2> QED  BY <2>0, <2>2, <2>3, <2>4, Kept, Moving
<1>5. CASE RunTask(t)
  <2>1. thread[t].pc = "work" /\ Moves(t, "ran")
        /\ UNCHANGED <<stream, calls, job, turn, strayed, reader, excused>>
    BY <1>5 DEF RunTask
  <2>2. "ran" \in ThreadPC /\ Owns(t) /\ thread[t].pc \in Handling
    BY <2>1 DEF ThreadPC, Handling, Owns
  <2>3. thread' \in [Threads -> Thread] /\ \A u \in Threads : GoesOn(u, thread'[u])
    BY <2>1, <2>2, Moved DEF GoesOn
  <2>4. excused' \in BOOLEAN  BY <2>1 DEF Typed
  <2> QED  BY <2>1, <2>3, <2>4, Kept, Moving
<1> QED  BY <1>1, <1>2, <1>3, <1>4, <1>5

LEMMA Around ==
  ASSUME TurnInv, (\E r \in Requests : LeaseRunsOut(r)) \/ ReaderStep \/ ServerDies
  PROVE  TurnInv'
<1> USE DEF TurnInv
<1>1. ASSUME NEW r \in Requests, LeaseRunsOut(r) PROVE TurnInv'
  <2>1. JobsKept  BY <1>1, JobEnds DEF LeaseRunsOut
  <2>2. excused' \in BOOLEAN  BY <1>1 DEF LeaseRunsOut, Typed
  <2> QED  BY <1>1, <2>1, <2>2, Unmoved, Kept, Moving DEF LeaseRunsOut
<1>2. CASE ReaderStep
  <2>1. UNCHANGED <<stream, calls, job, turn, strayed, thread, excused>>
    BY <1>2 DEF ReaderStep, ReadEvents, ReadStatus, Reconnect
  <2>2. \E pc \in {"poll", "check", "closed", "shown"} : reader' = [reader EXCEPT !.pc = pc]
    BY <1>2 DEF ReaderStep, ReadEvents, ReadStatus, Reconnect
  <2>3. Watched  BY <2>1, <2>2 DEF Watched, Typed
  <2> QED  BY <2>1, <2>3, Unmoved, Kept, Moving
<1>3. CASE ServerDies
  <2>1. thread' = [t \in Threads |-> Free] /\ UNCHANGED <<stream, calls, job, turn, strayed, reader>>
        /\ excused' \in BOOLEAN
    BY <1>3 DEF ServerDies, Typed
  <2>2. Free \in Thread /\ Free.pc = "idle"  BY AtTyped DEF At
  <2>3. thread' \in [Threads -> Thread] /\ \A t \in Threads : GoesOn(t, thread'[t])
    BY <2>1, <2>2 DEF GoesOn
  <2> QED  BY <2>1, <2>3, Kept, Moving
<1> QED  BY <1>1, <1>2, <1>3

-----------------------------------------------------------------------------
(* The steps of one thread with its own stream: others do not see it.      *)
Publishes(t, th, x) ==
  /\ x \in Looks
  /\ x \in Published => \/ thread[t].pc \in {"answered", "replay"}
                        \/ stream[thread[t].stream] \in Published
  /\ \/ th.pc = "idle"
     \/ /\ thread[t].pc \in Handling /\ thread[t].req = th.req
        /\ th.stream = thread[t].stream
        /\ th.pc = "finish" \/ (th.pc = "settle" /\ x = Answered)

LEMMA Publishing ==
  ASSUME TurnInv, Watched, NEW t \in Threads, Owns(t), thread[t].stream # 0,
         NEW th \in Thread, NEW x, Publishes(t, th, x),
         thread' = [thread EXCEPT ![t] = th],
         stream' = [stream EXCEPT ![thread[t].stream] = x],
         UNCHANGED <<calls, job, turn, strayed>>
  PROVE  TurnInv'
<1> USE DEF TurnInv
<1> DEFINE s == thread[t].stream
<1>1. s \in 1..calls /\ s \in Streams /\ Informed(t) /\ Streaming(t)
  <2>1. Informed(t) /\ Streaming(t)  BY DEF ThreadsHold
  <2>2. s \in 1..calls  BY <2>1 DEF Streaming
  <2> QED  BY <2>1, <2>2, TurnAssumption DEF Typed, Streams
<1>2. thread' \in [Threads -> Thread]
      /\ \A u \in Threads : thread'[u] = IF u = t THEN th ELSE thread[u]
  BY DEF Typed
<1>3. stream' \in [Streams -> Looks]
      /\ \A z \in Streams : stream'[z] = IF z = s THEN x ELSE stream[z]
  BY <1>1 DEF Typed, Publishes
<1>4. Typed'
  BY <1>2, <1>3 DEF Typed, Watched
<1>5. \A u \in Threads : /\ u # t => (Owns(u)' <=> Owns(u))
                         /\ u # t /\ Owns(u) => thread[u].stream # s
  BY <1>2 DEF Owns, ThreadsHold, Apart
<1>6. \A u \in Threads : Informed(u)' /\ Streaming(u)'
  <2> SUFFICES ASSUME NEW u \in Threads PROVE Informed(u)' /\ Streaming(u)'
    OBVIOUS
  <2>1. CASE u # t
    <3>1. Informed(u) /\ Streaming(u)  BY DEF ThreadsHold
    <3>2. Informed(u)'  BY <1>2, <1>5, <2>1, <3>1 DEF Informed, Given
    <3>3. thread'[u] = thread[u] /\ thread[u].stream \in 0..MaxCalls
      BY <1>2, <2>1 DEF Typed, Thread
    <3>4. Owns(u) /\ thread[u].stream # 0 => stream'[thread[u].stream] = stream[thread[u].stream]
      BY <1>3, <1>5, <2>1, <3>3 DEF Streams
    <3>5. Streaming(u)'  BY <1>5, <2>1, <3>1, <3>3, <3>4 DEF Streaming, Owns
    <3> QED  BY <3>2, <3>5
  <2>2. CASE u = t /\ th.pc = "idle"
    BY <1>2, <2>2 DEF Informed, Streaming, Owns, Handling
  <2>3. CASE u = t /\ th.pc \in {"finish", "settle"} /\ thread[t].pc \in Handling
    <3>1. thread'[t] = th /\ th.req = thread[t].req /\ th.stream = s
          /\ thread[t].pc # "enqueue"
      BY <1>2, <2>3 DEF Publishes, Handling
    <3>2. Informed(t)'  BY <1>1, <2>3, <3>1 DEF Informed
    <3>3. th.pc = "settle" => stream'[s] = Answered
      BY <1>1, <1>3, <2>3, <3>1 DEF Publishes
    <3>4. Streaming(t)'  BY <1>1, <2>3, <3>1, <3>3 DEF Streaming
    <3> QED  BY <2>3, <3>2, <3>4
  <2> QED  BY <2>1, <2>2, <2>3 DEF Publishes
<1>7. \A u, v \in Threads : Apart(u, v)'
  <2>1. \A u, v \in Threads : Apart(u, v)  BY DEF ThreadsHold
  <2>2. \A u \in Threads : Owns(u)' => /\ Owns(u) /\ thread'[u].stream = thread[u].stream
                                       /\ thread'[u].pc = "work" =>
                                            /\ thread[u].pc = "work"
                                            /\ thread'[u].req = thread[u].req
    BY <1>2, <1>5 DEF Owns, Publishes, Handling
  <2> QED  BY <2>1, <2>2 DEF Apart
<1>8. JobsHold'
  <2>1. \A r \in Requests : job[r].status = "queued" => job[r].stream # s
    BY <1>1 DEF JobsHold, Streaming, Informed
  <2>2. \A r \in Requests : job[r].status = "queued" => job[r].stream \in Streams
    BY DEF JobsHold, Typed, Streams
  <2> QED  BY <1>3, <2>1, <2>2 DEF JobsHold
<1>9. TurnsHold'
  BY DEF TurnsHold
<1>10. StreamsHold'
  <2>1. x \in Published => \E r \in Requests : job[r].stream = s /\ Given(r)
    <3>1. CASE thread[t].pc \in {"answered", "replay"}
      BY <1>1, <3>1 DEF Informed, Streaming, Given
    <3>2. CASE stream[s] \in Published
      BY <1>1, <3>2 DEF StreamsHold
    <3> QED  BY <3>1, <3>2 DEF Publishes
  <2>2. \A z \in Streams : z > calls => z # s
    BY <1>1 DEF Typed, Streams
  <2> QED  BY <1>3, <2>1, <2>2 DEF StreamsHold, Given
<1> QED  BY <1>4, <1>6, <1>7, <1>8, <1>9, <1>10 DEF ThreadsHold

LEMMA OfOwnStream ==
  ASSUME TurnInv, NEW t \in Threads,
         EnqueueRefused(t) \/ PublishAnswer(t) \/ SettleStream(t) \/ FailStream(t)
  PROVE  TurnInv'
<1> USE DEF TurnInv
<1> DEFINE s == thread[t].stream
<1>1. /\ Informed(t) /\ Streaming(t) /\ thread[t] \in Thread
      /\ thread[t].pc \in {"enqueue", "answered", "replay", "settle", "raised"}
      /\ Owns(t) /\ s # 0
  <2>1. Informed(t) /\ Streaming(t) /\ thread[t] \in Thread  BY DEF ThreadsHold, Typed
  <2> QED  BY <2>1 DEF EnqueueRefused, PublishAnswer, SettleStream, FailStream, Streaming,
                       Owns, Handling
<1>2. s \in Streams
  BY <1>1, TurnAssumption DEF Streaming, Typed, Streams
<1>3. Answered \in Looks /\ Done \in Looks /\ FailedAtOnce \in Looks /\ FailedLate \in Looks
      /\ {Answered, Done, FailedLate} \subseteq Published
  BY DEF Looks, Published
<1>4. \A pc \in {"finish", "settle", "raised"} :
        /\ [thread[t] EXCEPT !.pc = pc] \in Thread /\ [thread[t] EXCEPT !.pc = pc].pc = pc
        /\ [thread[t] EXCEPT !.pc = pc].req = thread[t].req
        /\ [thread[t] EXCEPT !.pc = pc].stream = s
        /\ Moves(t, pc) => thread' = [thread EXCEPT ![t] = [thread[t] EXCEPT !.pc = pc]]
  BY <1>1 DEF Thread, ThreadPC, Handling, Moves, Typed
<1>5. CASE EnqueueRefused(t)
  <2>1. thread[t].pc = "enqueue" /\ stream' = Failed(s)
        /\ thread' = [thread EXCEPT ![t] = Free]
        /\ UNCHANGED <<calls, job, turn, strayed, reader, excused>>
    BY <1>5 DEF EnqueueRefused
  <2>2. stream' = [stream EXCEPT ![s] = FailedAtOnce]
    BY <1>1, <1>2, <2>1, FailedLooks DEF Streaming
  <2>3. Free \in Thread /\ Free.pc = "idle"  BY AtTyped DEF At
  <2>4. Publishes(t, Free, FailedAtOnce)
    BY <1>3, <2>3, Distinct DEF Publishes
  <2>5. Watched  BY <2>1 DEF Watched, Typed
  <2> QED  BY <1>1, <2>1, <2>2, <2>3, <2>4, <2>5, Publishing
<1>6. CASE PublishAnswer(t)
  <2>1. thread[t].pc \in {"answered", "replay"} /\ Moves(t, "settle")
        /\ stream' = [stream EXCEPT ![s].log = Append(@, "response_ready")]
        /\ UNCHANGED <<calls, job, turn, strayed, reader, excused>>
    BY <1>6 DEF PublishAnswer
  <2>2. stream[s] = Open  BY <1>1, <2>1 DEF Streaming
  <2>3. [stream[s] EXCEPT !.log = Append(@, "response_ready")] = Answered
    <3>1. Append(<<>>, "response_ready") = <<"response_ready">>  OBVIOUS
    <3> QED  BY <2>2, <3>1 DEF Open, Answered
  <2>4. stream' = [stream EXCEPT ![s] = Answered]
    BY <1>2, <2>1, <2>3 DEF Typed
  <2>5. Publishes(t, [thread[t] EXCEPT !.pc = "settle"], Answered)
    BY <1>1, <1>3, <1>4, <2>1 DEF Publishes, Handling
  <2>6. Watched  BY <2>1 DEF Watched, Typed
  <2> QED  BY <1>1, <1>4, <2>1, <2>4, <2>5, <2>6, Publishing
<1>7. CASE SettleStream(t)
  <2>1. /\ thread[t].pc = "settle"
        /\ thread' = [thread EXCEPT ![t] = [pc |-> "finish", req |-> @.req,
                                            stream |-> @.stream, ok |-> TRUE]]
        /\ stream' = [stream EXCEPT ![s].status = "completed"]
        /\ UNCHANGED <<calls, job, turn, strayed, reader, excused>>
    BY <1>7 DEF SettleStream
  <2>2. stream[s] = Answered  BY <1>1, <2>1 DEF Streaming
  <2>3. [stream[s] EXCEPT !.status = "completed"] = Done
    BY <2>2 DEF Answered, Done
  <2>4. stream' = [stream EXCEPT ![s] = Done]
    BY <1>2, <2>1, <2>3 DEF Typed
  <2> DEFINE th == [pc |-> "finish", req |-> thread[t].req, stream |-> s, ok |-> TRUE]
  <2>5. th \in Thread  BY <1>1 DEF Thread, ThreadPC
  <2>6. thread' = [thread EXCEPT ![t] = th]
    BY <1>1, <2>1 DEF Thread, Typed
  <2>7. Publishes(t, th, Done)
    BY <1>1, <1>3, <2>1, <2>2 DEF Publishes, Handling
  <2>8. Watched  BY <2>1 DEF Watched, Typed
  <2> QED  BY <1>1, <2>1, <2>4, <2>5, <2>6, <2>7, <2>8, Publishing
<1>8. CASE FailStream(t)
  <2>1. /\ thread[t].pc \in {"raised", "replay", "answered", "settle"}
        /\ Moves(t, "finish") /\ UNCHANGED <<calls, job, turn, strayed, reader>>
        /\ (stream' = Failed(s) /\ UNCHANGED excused)
             \/ (excused' = (excused \/ s = reader.stream) /\ UNCHANGED stream)
    BY <1>8 DEF FailStream
  <2>2. Watched  BY <2>1 DEF Watched, Typed
  <2>3. CASE UNCHANGED stream
    <3>1. "finish" \in ThreadPC /\ thread[t].pc \in Handling
      BY <2>1 DEF ThreadPC, Handling
    <3>2. thread' \in [Threads -> Thread] /\ \A u \in Threads : GoesOn(u, thread'[u])
      BY <1>1, <2>1, <3>1, Moved DEF GoesOn
    <3> QED  BY <2>1, <2>2, <2>3, <3>2, Kept, Moving
  <2>4. CASE stream' = Failed(s) /\ thread[t].pc = "settle"
    <3>1. stream[s] = Answered  BY <1>1, <2>4 DEF Streaming
    <3>2. stream' = [stream EXCEPT ![s] = FailedLate]
      BY <1>2, <2>4, <3>1, FailedLooks
    <3>3. Publishes(t, [thread[t] EXCEPT !.pc = "finish"], FailedLate)
      BY <1>1, <1>3, <1>4, <2>4, <3>1 DEF Publishes, Handling
    <3> QED  BY <1>1, <1>4, <2>1, <2>2, <3>2, <3>3, Publishing
  <2>5. CASE stream' = Failed(s) /\ thread[t].pc # "settle"
    <3>1. stream[s] = Open  BY <1>1, <2>1, <2>5 DEF Streaming
    <3>2. stream' = [stream EXCEPT ![s] = FailedAtOnce]
      BY <1>2, <2>5, <3>1, FailedLooks
    <3>3. Publishes(t, [thread[t] EXCEPT !.pc = "finish"], FailedAtOnce)
      BY <1>1, <1>3, <1>4, <2>1, Distinct DEF Publishes, Handling
    <3> QED  BY <1>1, <1>4, <2>1, <2>2, <3>2, <3>3, Publishing
  <2> QED  BY <2>1, <2>3, <2>4, <2>5
<1> QED  BY <1>5, <1>6, <1>7, <1>8

-----------------------------------------------------------------------------
(* The steps that write a turn q that nobody else is at work on: the turn   *)
(* of the thread's request, or another one that gets its response.         *)
Turned(t, pc, q, x) ==
  /\ Moves(t, pc) /\ Owns(t) /\ thread[t].pc \in {"begin", "work", "ran"}
  /\ turn' = [turn EXCEPT ![q] = x]
  /\ turn[q].stored => x.stored
  /\ x.status # "none" /\ x.answers <= 1
  /\ pc = "work" => q = thread[t].req /\ x.answers = 0 /\ strayed' = strayed
  /\ pc = "answered" => /\ x.stored /\ turn[thread[t].req].status # "none"
                        /\ strayed' = strayed \cup ({thread[t].req} \ {q})
  /\ \A u \in Threads : u # t /\ thread[u].pc = "work" => thread[u].req # q
  /\ UNCHANGED <<stream, calls, job, reader, excused>>

LEMMA Turning ==
  ASSUME TurnInv, NEW t \in Threads, NEW pc \in {"work", "answered"}, NEW q \in Requests,
         NEW x \in [status : TurnStatus, stored : BOOLEAN, answers : Nat],
         Turned(t, pc, q, x)
  PROVE  TurnInv'
<1> USE DEF TurnInv, Turned
<1> DEFINE r == thread[t].req
<1>1. Informed(t) /\ Streaming(t) /\ r \in Requests /\ pc \in Handling /\ pc \in ThreadPC
  BY DEF ThreadsHold, Informed, Handling, ThreadPC
<1>2. /\ thread' \in [Threads -> Thread]
      /\ thread'[t].pc = pc /\ thread'[t].req = r
      /\ thread'[t].stream = thread[t].stream
      /\ \A u \in Threads : u # t => thread'[u] = thread[u]
  BY <1>1, Moved
<1>3. /\ turn' \in [Requests -> [status : TurnStatus, stored : BOOLEAN, answers : Nat]]
      /\ \A p \in Requests : turn'[p] = IF p = q THEN x ELSE turn[p]
  BY DEF Typed
<1>a. /\ strayed \subseteq strayed' /\ strayed' \subseteq strayed \cup {r}
      /\ pc = "work" => strayed' = strayed
      /\ \A p \in Requests : Given(p) => Given(p)'
  <2>1. /\ strayed \subseteq strayed' /\ strayed' \subseteq strayed \cup {r}
        /\ pc = "work" => strayed' = strayed
    OBVIOUS
  <2>2. \A p \in Requests : turn[p].stored => turn'[p].stored
    BY <1>3
  <2> QED  BY <2>1, <2>2 DEF Given
<1>4. Typed'
  BY <1>1, <1>2, <1>3, <1>a DEF Typed
<1>5. \A u \in Threads : Owns(u)' <=> Owns(u)
  BY <1>1, <1>2 DEF Owns
<1>6. \A u \in Threads : Informed(u)'
  <2> SUFFICES ASSUME NEW u \in Threads PROVE Informed(u)'
    OBVIOUS
  <2>1. CASE u # t
    <3>1. Informed(u) /\ (thread[u].pc = "work" => thread[u].req # q)
      BY <2>1 DEF ThreadsHold
    <3>2. thread'[u] = thread[u]  BY <1>2, <2>1
    <3> QED  BY <1>3, <1>5, <1>a, <3>1, <3>2 DEF Informed
  <2>2. CASE u = t /\ pc = "work"
    BY <1>1, <1>2, <1>3, <2>2 DEF Informed
  <2>3. CASE u = t /\ pc = "answered"
    <3>1. turn'[r].stored \/ r \in strayed'
      <4>1. CASE r = q  BY <1>3, <2>3, <4>1
      <4>2. CASE r # q  BY <2>3, <4>2
      <4> QED  BY <4>1, <4>2
    <3>2. turn'[r].status # "none"  BY <1>1, <1>3, <2>3
    <3>3. thread'[t].pc = "answered" /\ thread'[t].req = r /\ r \in Requests
      BY <1>1, <1>2, <2>3
    <3> QED  BY <2>3, <3>1, <3>2, <3>3 DEF Informed, Given
  <2> QED  BY <2>1, <2>2, <2>3
<1>7. \A u \in Threads : Streaming(u)'
  <2> SUFFICES ASSUME NEW u \in Threads PROVE Streaming(u)'
    OBVIOUS
  <2>1. Streaming(u)  BY DEF ThreadsHold
  <2>2. CASE u # t
    BY <1>2, <1>5, <2>1, <2>2 DEF Streaming
  <2>3. CASE u = t
    BY <1>1, <1>2, <1>5, <2>3 DEF Streaming
  <2> QED  BY <2>2, <2>3
<1>8. \A u, v \in Threads : Apart(u, v)'
  <2> SUFFICES ASSUME NEW u \in Threads, NEW v \in Threads PROVE Apart(u, v)'
    OBVIOUS
  <2>1. Apart(u, v) /\ thread'[u].stream = thread[u].stream
        /\ thread'[v].stream = thread[v].stream
        /\ thread'[u].req = thread[u].req /\ thread'[v].req = thread[v].req
    BY <1>2 DEF ThreadsHold
  <2>2. u # v /\ thread'[u].pc = "work" /\ thread'[v].pc = "work"
          => thread[u].req # thread[v].req
    <3>1. CASE u = t  BY <1>2, <3>1
    <3>2. CASE v = t  BY <1>2, <3>2
    <3>3. CASE u # t /\ v # t
      <4>1. thread'[u] = thread[u] /\ thread'[v] = thread[v]  BY <1>2, <3>3
      <4> QED  BY <2>1, <4>1 DEF Apart, Owns, Handling
    <3> QED  BY <3>1, <3>2, <3>3
  <2> QED  BY <1>5, <2>1, <2>2 DEF Apart
<1>9. JobsHold'
  BY DEF JobsHold
<1>10. TurnsHold'
  <2>1. \A p \in Requests : /\ turn'[p].answers <= 1
                            /\ turn'[p].status = "none" => turn'[p].answers = 0
    BY <1>3 DEF TurnsHold
  <2>2. ASSUME NEW p \in strayed' PROVE \E o \in Requests \ {p} : turn'[o].stored
    <3>1. CASE p \in strayed
      BY <1>3, <3>1 DEF TurnsHold
    <3>2. CASE p \notin strayed
      <4>1. p = r /\ p # q /\ x.stored
        BY <2>2, <3>2
      <4> QED  BY <1>3, <4>1
    <3> QED  BY <3>1, <3>2
  <2> QED  BY <2>1, <2>2 DEF TurnsHold
<1>11. StreamsHold'
  <2> SUFFICES ASSUME NEW s \in Streams
               PROVE  /\ stream[s] \in Looks
                      /\ s > calls => stream[s] = NoStream
                      /\ stream[s] \in Published =>
                           \E p \in Requests : job[p].stream = s /\ Given(p)'
    BY DEF StreamsHold
  <2> QED  BY <1>a DEF StreamsHold
<1> QED  BY <1>4, <1>6, <1>7, <1>8, <1>9, <1>10, <1>11 DEF ThreadsHold

LEMMA OfOneTurn ==
  ASSUME TurnInv, NEW t \in Threads,
         BeginTurn(t) \/ CompleteMessageTurn(t) \/ CompleteTurn(t)
  PROVE  TurnInv'
<1> USE DEF TurnInv
<1> DEFINE r == thread[t].req
<1>1. Informed(t) /\ Owns(t) /\ r \in Requests /\ thread[t].pc \in {"begin", "work", "ran"}
  <2>1. thread[t].pc \in {"begin", "work", "ran"}
    BY DEF BeginTurn, CompleteMessageTurn, CompleteTurn
  <2> QED  BY <2>1 DEF ThreadsHold, Informed, Owns, Handling
<1>2. turn[r] \in [status : TurnStatus, stored : BOOLEAN, answers : Nat]
  BY <1>1 DEF Typed
<1>3. CASE BeginTurn(t) /\ turn[r].status = "none"
  <2> DEFINE x == [turn[r] EXCEPT !.status = "processing"]
  <2>1. /\ thread[t].pc = "begin" /\ Moves(t, "work")
        /\ turn' = [turn EXCEPT ![r].status = "processing"]
        /\ UNCHANGED <<stream, calls, job, reader, excused, strayed>>
    BY <1>3 DEF BeginTurn
  <2>2. /\ x \in [status : TurnStatus, stored : BOOLEAN, answers : Nat]
        /\ x.status = "processing" /\ x.stored = turn[r].stored
        /\ x.answers = turn[r].answers
    BY <1>2 DEF TurnStatus
  <2>3. turn' = [turn EXCEPT ![r] = x]
    BY <1>1, <2>1 DEF Typed
  <2>4. turn[r].answers = 0
    BY <1>1, <1>3 DEF TurnsHold
  <2>5. \A u \in Threads : u # t /\ thread[u].pc = "work" => thread[u].req # r
    BY <1>1, <1>3 DEF ThreadsHold, Informed, Owns, Handling
  <2> HIDE DEF x
  <2>6. x.status # "none" /\ x.answers <= 1 /\ x.answers = 0
        /\ (turn[r].stored => x.stored)
    BY <2>2, <2>4
  <2>7. Turned(t, "work", r, x)
    BY <1>1, <2>1, <2>3, <2>5, <2>6 DEF Turned
  <2> HIDE DEF r
  <2> QED  BY <1>1, <2>2, <2>7, Turning
<1>4. CASE BeginTurn(t) /\ turn[r].status # "none"
  <2>1. /\ thread[t].pc = "begin" /\ Moves(t, Replayed(r))
        /\ UNCHANGED <<stream, calls, job, turn, strayed, reader, excused>>
    BY <1>4 DEF BeginTurn
  <2>2. Replayed(r) \in ThreadPC /\ Replayed(r) \in {"replay", "raised"}
        /\ (Replayed(r) = "replay" => turn[r].stored)
    BY DEF Replayed, ThreadPC, Handling
  <2>3. thread' \in [Threads -> Thread] /\ \A u \in Threads : GoesOn(u, thread'[u])
    BY <1>1, <2>1, <2>2, Moved DEF GoesOn, Handling
  <2>4. excused' \in BOOLEAN  BY <2>1 DEF Typed
  <2> QED  BY <2>1, <2>3, <2>4, Kept, Moving
<1>5. CASE CompleteMessageTurn(t)
  <2> DEFINE x == [status |-> "completed", stored |-> TRUE, answers |-> turn[r].answers + 1]
  <2>1. /\ thread[t].pc = "work" /\ Moves(t, "answered")
        /\ turn' = [turn EXCEPT ![r] = x]
        /\ UNCHANGED <<stream, calls, job, reader, excused, strayed>>
    BY <1>1, <1>5 DEF CompleteMessageTurn, Typed
  <2>2. turn[r].answers = 0 /\ turn[r].status # "none"  BY <1>1, <2>1 DEF Informed
  <2>3. x \in [status : TurnStatus, stored : BOOLEAN, answers : Nat]
        /\ x.status # "none" /\ x.stored /\ x.answers <= 1
    BY <2>2 DEF TurnStatus
  <2>4. \A u \in Threads : u # t /\ thread[u].pc = "work" => thread[u].req # r
    BY <2>1 DEF ThreadsHold, Apart, Owns, Handling
  <2>5. strayed' = strayed \cup ({r} \ {r})  BY <2>1
  <2> HIDE DEF x
  <2>6. Turned(t, "answered", r, x)
    BY <1>1, <2>1, <2>2, <2>3, <2>4, <2>5 DEF Turned
  <2> HIDE DEF r
  <2> QED  BY <1>1, <2>3, <2>6, Turning
<1>6. CASE CompleteTurn(t)
  <2>1. PICK q \in Named : /\ turn' = [turn EXCEPT ![q] = Completed(q)]
                           /\ strayed' = strayed \cup ({r} \ {q})
    BY <1>6 DEF CompleteTurn
  <2>2. /\ thread[t].pc \in {"work", "ran"} /\ Moves(t, "answered")
        /\ UNCHANGED <<stream, calls, job, reader, excused>>
    BY <1>6 DEF CompleteTurn
  <2>3. q \in Requests /\ \A u \in Threads : thread[u].pc = "work" => thread[u].req # q
    BY DEF Named
  <2>4. turn[q].answers \in Nat /\ turn[q].answers <= 1
    BY <2>3 DEF Typed, TurnsHold
  <2> DEFINE x == Completed(q)
  <2>5. x \in [status : TurnStatus, stored : BOOLEAN, answers : Nat]
        /\ x.status # "none" /\ x.stored /\ x.answers <= 1
    BY <2>4 DEF Completed, TurnStatus
  <2>6. turn[r].status # "none"  BY <1>1, <2>2 DEF Informed
  <2> HIDE DEF x
  <2>7. turn' = [turn EXCEPT ![q] = x]  BY <2>1 DEF x
  <2>8. Turned(t, "answered", q, x)
    BY <1>1, <2>1, <2>2, <2>3, <2>5, <2>6, <2>7 DEF Turned
  <2> HIDE DEF r
  <2> QED  BY <2>3, <2>5, <2>8, Turning
<1> QED  BY <1>3, <1>4, <1>5, <1>6

-----------------------------------------------------------------------------
(* The steps by which a thread takes up a request.                         *)
LEMMA Starting ==
  ASSUME TurnInv, NEW t \in Threads, NEW r \in Requests,
         \/ OpenStream(t, r)
         \/ AskDirectly(t, r)
  PROVE  TurnInv'
<1> USE DEF TurnInv
<1> DEFINE s == IF OpenStream(t, r) THEN calls + 1 ELSE 0
           pc == IF OpenStream(t, r) THEN "enqueue" ELSE "begin"
<1>1. /\ calls < MaxCalls /\ calls' = calls + 1 /\ calls + 1 \in Streams
      /\ calls' \in 0..MaxCalls
      /\ UNCHANGED <<job, turn, strayed, reader, excused>>
  BY TurnAssumption DEF OpenStream, AskDirectly, Typed, Streams
<1>2. /\ At(pc, r, s) \in Thread /\ thread' = [thread EXCEPT ![t] = At(pc, r, s)]
      /\ s \in {0, calls + 1}
  BY <1>1, AtTyped DEF OpenStream, AskDirectly, Streams
<1>3. /\ thread' \in [Threads -> Thread]
      /\ thread'[t].pc = pc /\ thread'[t].req = r /\ thread'[t].stream = s
      /\ \A u \in Threads : u # t => thread'[u] = thread[u]
  BY <1>2 DEF Typed, At
<1>4. /\ stream' \in [Streams -> Looks]
      /\ \A z \in Streams : z # s => stream'[z] = stream[z]
      /\ s # 0 => stream'[s] = Open
  <2>1. CASE OpenStream(t, r)
    <3>1. stream[calls + 1] = NoStream
      BY <1>1 DEF StreamsHold, Typed
    <3>2. [NoStream EXCEPT !.status = "running"] = Open
      BY DEF NoStream, Open
    <3>3. stream' = [stream EXCEPT ![calls + 1] = Open]
      BY <1>1, <2>1, <3>1, <3>2 DEF OpenStream, Typed
    <3> QED  BY <1>1, <2>1, <3>3 DEF Typed, Looks
  <2>2. CASE ~OpenStream(t, r)
    BY <1>1, <2>2 DEF AskDirectly, Typed
  <2> QED  BY <2>1, <2>2
<1>5. pc \in {"enqueue", "begin"} /\ (pc = "enqueue" <=> s # 0)
  BY DEF Typed
<1> HIDE DEF s, pc
<1>6. Typed'
  BY <1>1, <1>3, <1>4 DEF Typed
<1>7. \A u \in Threads : u # t => (Owns(u)' <=> Owns(u)) /\ Informed(u) /\ Streaming(u)
                                  /\ (Owns(u) => thread[u].stream \in 0..calls)
  BY <1>3 DEF Owns, ThreadsHold, Streaming, Typed
<1>8. \A u \in Threads : Informed(u)'
  BY <1>1, <1>3, <1>5, <1>7 DEF Informed, Given
<1>9. \A u \in Threads : Streaming(u)'
  <2> SUFFICES ASSUME NEW u \in Threads PROVE Streaming(u)'
    OBVIOUS
  <2>1. CASE u # t
    <3>1. Owns(u) => thread[u].stream \in 0..calls /\ thread[u].stream # calls + 1
      BY <1>7, <2>1 DEF Typed
    <3>2. Owns(u) /\ thread[u].stream # 0 => stream'[thread[u].stream] = stream[thread[u].stream]
      BY <1>1, <1>2, <1>4, <3>1, TurnAssumption DEF Typed, Streams
    <3>3. thread'[u] = thread[u] /\ (Owns(u)' <=> Owns(u)) /\ Streaming(u)
      BY <1>3, <1>7, <2>1
    <3>4. \A z \in 1..calls : z \in 1..calls'
      BY <1>1 DEF Typed
    <3> QED  BY <1>1, <3>2, <3>3, <3>4 DEF Streaming
  <2>2. CASE u = t
    <3>1. s # 0 => s \in 1..calls' /\ \A q \in Requests : job[q].stream # s
      BY <1>1, <1>2 DEF JobsHold, Typed
    <3> QED  BY <1>1, <1>3, <1>4, <1>5, <2>2, <3>1 DEF Streaming
  <2> QED  BY <2>1, <2>2
<1>10. \A u, v \in Threads : Apart(u, v)'
  <2> SUFFICES ASSUME NEW u \in Threads, NEW v \in Threads, u # v PROVE Apart(u, v)'
    BY DEF Apart
  <2>1. CASE u # t /\ v # t
    BY <1>3, <1>7, <2>1 DEF Apart, ThreadsHold
  <2>2. CASE u = t
    <3>1. Owns(v) => thread[v].stream # calls + 1
      BY <1>7, <2>2 DEF Typed
    <3> QED  BY <1>2, <1>3, <1>5, <1>7, <2>2, <3>1 DEF Apart
  <2>3. CASE v = t
    <3>1. Owns(u) => thread[u].stream # calls + 1
      BY <1>7, <2>3 DEF Typed
    <3> QED  BY <1>2, <1>3, <1>5, <1>7, <2>3, <3>1 DEF Apart
  <2> QED  BY <2>1, <2>2, <2>3
<1>11. JobsHold'
  <2>1. \A q \in Requests : job[q].stream \in 0..calls /\ job[q].stream # calls + 1
    BY DEF JobsHold, Typed
  <2>2. \A q \in Requests : job[q].status = "queued" =>
           /\ job[q].stream \in Streams /\ job[q].stream # 0
           /\ stream'[job[q].stream] = stream[job[q].stream]
    BY <1>2, <1>4, <2>1, TurnAssumption DEF JobsHold, Typed, Streams
  <2>3. \A n \in 0..calls : n \in 0..calls'
    BY <1>1 DEF Typed
  <2> QED  BY <1>1, <2>1, <2>2, <2>3 DEF JobsHold
<1>12. TurnsHold'
  BY <1>1 DEF TurnsHold
<1>13. StreamsHold'
  <2>1. \A z \in Streams : z > calls' => z > calls /\ z # s
    BY <1>1, <1>2 DEF Typed, Streams
  <2> QED  BY <1>1, <1>2, <1>4, <2>1, Distinct DEF StreamsHold, Streams, Given
<1> QED  BY <1>6, <1>8, <1>9, <1>10, <1>11, <1>12, <1>13 DEF ThreadsHold

(* The job gets its stream, which nothing else has had.                    *)
LEMMA Enqueueing ==
  ASSUME TurnInv, NEW t \in Threads, EnqueueTurn(t)
  PROVE  TurnInv'
<1> USE DEF TurnInv
<1> DEFINE r == thread[t].req
           s == thread[t].stream
<1>1. /\ thread[t].pc = "enqueue" /\ job[r].status = "none"
      /\ job' = [job EXCEPT ![r] = [status |-> "queued", stream |-> s]]
      /\ Moves(t, "drain")
      /\ UNCHANGED <<stream, calls, turn, strayed, excused>>
  BY DEF EnqueueTurn
<1>2. Owns(t) /\ Informed(t) /\ Streaming(t) /\ r \in Requests /\ s # 0 /\ s \in 1..calls
      /\ s \in 0..MaxCalls
  BY <1>1 DEF ThreadsHold, Owns, Informed, Streaming, Typed, Thread
<1>3. /\ job' \in [Requests -> [status : JobStatus, stream : 0..MaxCalls]]
      /\ \A q \in Requests : job'[q] = IF q = r THEN [status |-> "queued", stream |-> s]
                                       ELSE job[q]
  BY <1>1, <1>2 DEF Typed, JobStatus
<1>4. /\ thread' \in [Threads -> Thread]
      /\ thread'[t].pc = "drain"
      /\ \A u \in Threads : u # t => thread'[u] = thread[u]
  BY <1>1, Moved, AtTyped
<1>5. Typed'
  <2>1. reader' \in [stream : 0..MaxCalls, pc : {"off", "poll", "check", "closed", "shown"}]
    BY <1>2 DEF EnqueueTurn, Typed
  <2> QED  BY <1>1, <1>3, <1>4, <2>1 DEF Typed
<1>6. ~Owns(t)' /\ \A u \in Threads : u # t => (Owns(u)' <=> Owns(u))
  BY <1>4 DEF Owns, Handling
<1>7. \A u \in Threads : Informed(u)' /\ Streaming(u)'
  <2> SUFFICES ASSUME NEW u \in Threads PROVE Informed(u)' /\ Streaming(u)'
    OBVIOUS
  <2>1. CASE u = t
    BY <1>4, <1>6, <2>1 DEF Informed, Streaming
  <2>2. CASE u # t
    <3>1. Informed(u) /\ Streaming(u) /\ Apart(u, t) /\ thread'[u] = thread[u]
          /\ (Owns(u)' <=> Owns(u))
      BY <1>4, <1>6, <2>2 DEF ThreadsHold
    <3>2. Informed(u)'  BY <1>1, <3>1 DEF Informed, Given
    <3>3. Owns(u) /\ thread[u].stream # 0 =>
            /\ thread[u].stream # s
            /\ thread[u].pc # "enqueue" => thread[u].req # r
      BY <1>1, <1>2, <2>2, <3>1 DEF Apart, Streaming
    <3>4. Owns(u) => thread[u].req \in Requests  BY <3>1 DEF Informed
    <3>5. Streaming(u)'
      BY <1>1, <1>3, <3>1, <3>3, <3>4 DEF Streaming
    <3> QED  BY <3>2, <3>5
  <2> QED  BY <2>1, <2>2
<1>8. \A u, v \in Threads : Apart(u, v)'
  <2>1. \A u, v \in Threads : Apart(u, v)  BY DEF ThreadsHold
  <2> QED  BY <1>4, <1>6, <2>1 DEF Apart
<1>9. JobsHold'
  <2>1. stream[s] = Open /\ \A q \in Requests : job[q].stream # s
    BY <1>1, <1>2 DEF Streaming
  <2>2. s \in 0..calls  BY <1>2 DEF Typed
  <2> QED  BY <1>1, <1>2, <1>3, <2>1, <2>2 DEF JobsHold
<1>10. TurnsHold'
  BY <1>1 DEF TurnsHold
<1>11. StreamsHold'
  <2>1. \A z \in Streams, q \in Requests : job[q].stream = z => job'[q].stream = z
    BY <1>1, <1>3 DEF JobsHold, Streams
  <2> QED  BY <1>1, <2>1 DEF StreamsHold, Given
<1> QED  BY <1>5, <1>7, <1>8, <1>9, <1>10, <1>11 DEF ThreadsHold

LEMMA Taking ==
  ASSUME TurnInv, NEW t \in Threads, TakeJob(t)
  PROVE  TurnInv'
<1> USE DEF TurnInv
<1> PICK r \in Requests : /\ job[r].status = "queued"
                          /\ job' = [job EXCEPT ![r].status = "leased"]
                          /\ thread' = [thread EXCEPT ![t] = At("begin", r, job[r].stream)]
  BY DEF TakeJob
<1> DEFINE s == job[r].stream
<1>1. UNCHANGED <<stream, calls, turn, strayed, reader, excused>>
  BY DEF TakeJob
<1>2. s # 0 /\ s \in 0..calls /\ s \in 1..calls /\ s \in 0..MaxCalls /\ stream[s] = Open
  BY DEF JobsHold, Typed
<1>3. /\ job' \in [Requests -> [status : JobStatus, stream : 0..MaxCalls]]
      /\ \A q \in Requests : job'[q] = IF q = r THEN [status |-> "leased", stream |-> s]
                                       ELSE job[q]
  <2>1. [job[r] EXCEPT !.status = "leased"] = [status |-> "leased", stream |-> s]
        /\ job' = [job EXCEPT ![r] = [job[r] EXCEPT !.status = "leased"]]
    BY DEF Typed
  <2> QED  BY <1>2, <2>1 DEF Typed, JobStatus
<1>4. /\ thread' \in [Threads -> Thread]
      /\ thread'[t].pc = "begin" /\ thread'[t].req = r /\ thread'[t].stream = s
      /\ \A u \in Threads : u # t => thread'[u] = thread[u]
  <2>1. At("begin", r, s) \in Thread  BY <1>2, AtTyped
  <2> QED  BY <2>1 DEF Typed, At
<1>5. Typed'
  BY <1>1, <1>3, <1>4 DEF Typed
<1>6. \A u \in Threads : u # t =>
        /\ Owns(u)' <=> Owns(u)
        /\ Informed(u) /\ Streaming(u) /\ thread'[u] = thread[u]
        /\ Owns(u) => thread[u].req \in Requests
        /\ Owns(u) /\ thread[u].stream # 0 => thread[u].stream # s
  <2> SUFFICES ASSUME NEW u \in Threads, u # t
               PROVE /\ Owns(u)' <=> Owns(u)
                     /\ Informed(u) /\ Streaming(u) /\ thread'[u] = thread[u]
                     /\ Owns(u) => thread[u].req \in Requests
                     /\ Owns(u) /\ thread[u].stream # 0 => thread[u].stream # s
    OBVIOUS
  <2>1. Informed(u) /\ Streaming(u) /\ thread'[u] = thread[u]
    BY <1>4 DEF ThreadsHold
  <2>2. Owns(u)' <=> Owns(u)  BY <2>1 DEF Owns
  <2>3. Owns(u) => thread[u].req \in Requests  BY <2>1 DEF Informed
  <2>4. Owns(u) /\ thread[u].stream # 0 => thread[u].stream # s
    BY <1>2, <2>1, <2>3 DEF Streaming, JobsHold
  <2> QED  BY <2>1, <2>2, <2>3, <2>4
<1>7. \A u \in Threads : Informed(u)' /\ Streaming(u)'
  <2> SUFFICES ASSUME NEW u \in Threads PROVE Informed(u)' /\ Streaming(u)'
    OBVIOUS
  <2>1. CASE u = t
    <3>1. Informed(t)'  BY <1>4 DEF Informed
    <3>2. Streaming(t)'  BY <1>1, <1>2, <1>3, <1>4 DEF Streaming
    <3> QED  BY <2>1, <3>1, <3>2
  <2>2. CASE u # t
    <3>1. Informed(u)'  BY <1>1, <1>6, <2>2 DEF Informed, Given
    <3>2. Streaming(u)'  BY <1>1, <1>3, <1>6, <2>2 DEF Streaming
    <3> QED  BY <3>1, <3>2
  <2> QED  BY <2>1, <2>2
<1>8. \A u, v \in Threads : Apart(u, v)'
  <2>1. \A u, v \in Threads : Apart(u, v)  BY DEF ThreadsHold
  <2> QED  BY <1>2, <1>4, <1>6, <2>1 DEF Apart
<1>9. JobsHold'
  BY <1>1, <1>2, <1>3 DEF JobsHold
<1>10. TurnsHold'
  BY <1>1 DEF TurnsHold
<1>11. StreamsHold'
  <2>1. \A q \in Requests : job'[q].stream = job[q].stream  BY <1>3
  <2> QED  BY <1>1, <2>1 DEF StreamsHold, Given
<1> QED  BY <1>5, <1>7, <1>8, <1>9, <1>10, <1>11 DEF ThreadsHold

-----------------------------------------------------------------------------
LEMMA TurnGoesOn == TurnInv /\ [TurnNext]_turnVars => TurnInv'
<1> SUFFICES ASSUME TurnInv, [TurnNext]_turnVars PROVE TurnInv'
  OBVIOUS
<1>1. ASSUME NEW t \in Threads, NEW r \in Requests, OpenStream(t, r) \/ AskDirectly(t, r)
      PROVE  TurnInv'
  BY <1>1, Starting
<1>2. ASSUME NEW t \in Threads, ThreadStep(t)
      PROVE  TurnInv'
  BY <1>2, Enqueueing, Taking, ByThemselves, OfOneTurn, OfOwnStream DEF ThreadStep
<1>3. CASE (\E r \in Requests : LeaseRunsOut(r)) \/ ReaderStep \/ ServerDies
  BY <1>3, Around
<1>4. CASE UNCHANGED turnVars
  <2>1. UNCHANGED <<stream, calls, job, turn, strayed, thread, reader, excused>>
    BY <1>4 DEF turnVars
  <2>2. Typed /\ excused' \in BOOLEAN  BY <2>1 DEF TurnInv, Typed
  <2> QED  BY <2>1, <2>2, Unmoved, Kept, Moving
<1> QED  BY <1>1, <1>2, <1>3, <1>4 DEF TurnNext

(* The facts that the theorems below follow from.                          *)
THEOREM TurnInvariant == TurnSpec => []TurnInv
<1> QED  BY TurnBegins, TurnGoesOn, PTL DEF TurnSpec

(* Threads, jobs, turns, streams and pages stay well typed.                *)
THEOREM TurnTypeCorrect == TurnSpec => []TurnTypeOK
BY TurnInvariant, LooksAreRight, PTL

(* A request is answered at most once, however often it is sent.           *)
THEOREM RequestsAreAnsweredOnce == TurnSpec => []OneAnswerPerRequest
BY TurnInvariant, LooksAreRight, PTL

(* What a stream announces is in the conversation: with the turn of its    *)
(* request, or with that of another request whose task the message took up *)
(* or whose thread it replayed.                                            *)
THEOREM AnnouncementsAreStored == TurnSpec => []PublishedIsStored
BY TurnInvariant, LooksAreRight, PTL

(* A stream is completed by one answer, and does not go on after it failed. *)
THEOREM StreamsEndOnce == TurnSpec => []EndsOnce
BY TurnInvariant, LooksAreRight, PTL

-----------------------------------------------------------------------------
(***************************************************************************)
(* The turns as an AnswerLedger.                                           *)
(***************************************************************************)
(* A response that is stored was counted as an answer.                     *)
StoredIsAnswer == \A r \in Requests : turn[r].stored => turn[r].answers = 1

(* The step of the ledger that a step of the threads is, if any.           *)
Told == [Turns!Next]_(Turns!ledgerVars)

SameJobs    == \A r \in Requests : job'[r].stream = job[r].stream
SameAnswers == /\ \A r \in Requests : /\ turn'[r].answers = turn[r].answers
                                      /\ turn'[r].stored = turn[r].stored
               /\ strayed' = strayed

(* Jobs of different requests have different streams, so that Accepted is  *)
(* the inverse of the job's stream.                                        *)
AcceptedRight ==
  \A s \in Streams :
    /\ \A r \in Requests : job[r].stream = s => Accepted[s] = r
    /\ (\A r \in Requests : job[r].stream # s) => Accepted[s] = NoRequest
    /\ Accepted[s] # NoRequest => Accepted[s] \in Requests /\ job[Accepted[s]].stream = s

LEMMA AcceptedIsRight == TurnInv => AcceptedRight
<1> SUFFICES ASSUME TurnInv, NEW s \in Streams
             PROVE  /\ \A r \in Requests : job[r].stream = s => Accepted[s] = r
                    /\ (\A r \in Requests : job[r].stream # s) => Accepted[s] = NoRequest
                    /\ Accepted[s] # NoRequest =>
                         Accepted[s] \in Requests /\ job[Accepted[s]].stream = s
  BY DEF AcceptedRight
<1>1. CASE \E r \in Requests : job[r].stream = s
  <2>1. Accepted[s] = CHOOSE r \in Requests : job[r].stream = s
    BY <1>1 DEF Accepted
  <2>2. Accepted[s] \in Requests /\ job[Accepted[s]].stream = s
    BY <1>1, <2>1
  <2>3. \A r \in Requests : job[r].stream = s => Accepted[s] = r
    BY <2>2 DEF TurnInv, JobsHold, Streams
  <2> QED  BY <1>1, <2>2, <2>3
<1>2. CASE \A r \in Requests : job[r].stream # s
  BY <1>2 DEF Accepted
<1> QED  BY <1>1, <1>2

LEMMA AcceptedStaysRight == TurnInv' => AcceptedRight'
BY AcceptedIsRight, PTL

LEMMA SameJobsSameAccepted ==
  ASSUME TurnInv, TurnInv', SameJobs
  PROVE  Accepted' = Accepted
<1>1. \A s \in Streams : Accepted'[s] = Accepted[s]
  <2> SUFFICES ASSUME NEW s \in Streams PROVE Accepted'[s] = Accepted[s]
    OBVIOUS
  <2>1. CASE \E r \in Requests : job[r].stream = s
    BY <2>1, AcceptedIsRight, AcceptedStaysRight DEF AcceptedRight, SameJobs
  <2>2. CASE \A r \in Requests : job[r].stream # s
    BY <2>2, AcceptedIsRight, AcceptedStaysRight DEF AcceptedRight, SameJobs
  <2> QED  BY <2>1, <2>2
<1>2. Accepted = [s \in Streams |-> Accepted[s]] /\ Accepted' = [s \in Streams |-> Accepted'[s]]
  BY DEF Accepted
<1> QED  BY <1>1, <1>2

LEMMA SameAnswersSameCount ==
  ASSUME SameAnswers
  PROVE  /\ AnswersGiven' = AnswersGiven /\ strayed' = strayed
         /\ StoredIsAnswer => StoredIsAnswer'
BY DEF SameAnswers, AnswersGiven, StoredIsAnswer

(* Steps that no client is told of.                                        *)
LEMMA QuietSteps ==
  ASSUME TurnInv, TurnInv', StoredIsAnswer, SameJobs, SameAnswers, stream' = stream
  PROVE  StoredIsAnswer' /\ Told
BY SameJobsSameAccepted, SameAnswersSameCount DEF Told, Turns!ledgerVars

LEMMA JobEndsQuietly ==
  ASSUME TurnInv, NEW r \in Requests, NEW x, job' = [job EXCEPT ![r].status = x]
  PROVE  SameJobs
<1>1. job[r] = [status |-> job[r].status, stream |-> job[r].stream]
  BY DEF TurnInv, Typed
<1>2. job' = [job EXCEPT ![r] = [job[r] EXCEPT !.status = x]]
  BY DEF TurnInv, Typed
<1>3. [job[r] EXCEPT !.status = x].stream = job[r].stream
  BY <1>1
<1> QED  BY <1>2, <1>3 DEF SameJobs, TurnInv, Typed

LEMMA TurnMovesQuietly ==
  ASSUME TurnInv, NEW r \in Requests, NEW x, turn' = [turn EXCEPT ![r].status = x], strayed' = strayed
  PROVE  SameAnswers
<1>1. turn[r] = [status |-> turn[r].status, stored |-> turn[r].stored,
                 answers |-> turn[r].answers]
  BY DEF TurnInv, Typed
<1>2. turn' = [turn EXCEPT ![r] = [turn[r] EXCEPT !.status = x]]
  BY DEF TurnInv, Typed
<1>3. [turn[r] EXCEPT !.status = x].stored = turn[r].stored
      /\ [turn[r] EXCEPT !.status = x].answers = turn[r].answers
  BY <1>1
<1> QED  BY <1>2, <1>3 DEF SameAnswers, TurnInv, Typed

LEMMA ThreadIsQuiet ==
  ASSUME TurnInv, NEW t \in Threads,
         \/ EnqueueRaises(t) \/ TakeJob(t) \/ BulkheadRefuses(t) \/ QueueEmpty(t)
         \/ FinishJob(t) \/ BeginTurn(t) \/ RunTask(t) \/ FailTurn(t) \/ ReplyDirectly(t)
  PROVE  SameJobs /\ SameAnswers /\ stream' = stream
<1>1. CASE EnqueueRaises(t) \/ QueueEmpty(t) \/ RunTask(t) \/ ReplyDirectly(t)
  BY <1>1 DEF EnqueueRaises, QueueEmpty, RunTask, ReplyDirectly, SameJobs, SameAnswers
<1>2. CASE TakeJob(t) \/ BulkheadRefuses(t)
  <2>1. stream' = stream /\ SameAnswers
    BY <1>2 DEF TakeJob, BulkheadRefuses, SameAnswers
  <2>2. \E r \in Requests : \E x \in {"leased", "dead"} : job' = [job EXCEPT ![r].status = x]
    BY <1>2 DEF TakeJob, BulkheadRefuses
  <2> QED  BY <2>1, <2>2, JobEndsQuietly
<1>3. CASE FinishJob(t)
  <2>1. stream' = stream /\ SameAnswers /\ thread[t].req \in Requests
    BY <1>3 DEF FinishJob, SameAnswers, TurnInv, ThreadsHold, Informed, Owns
  <2>2. \/ job' = job
        \/ job' = [job EXCEPT ![thread[t].req].status =
                      IF thread[t].ok THEN "succeeded" ELSE "dead"]
    BY <1>3 DEF FinishJob
  <2>3. SameJobs
    BY <2>1, <2>2, JobEndsQuietly DEF SameJobs
  <2> QED  BY <2>1, <2>3
<1>4. CASE BeginTurn(t) \/ FailTurn(t)
  <2>1. stream' = stream /\ SameJobs /\ strayed' = strayed
    BY <1>4 DEF BeginTurn, FailTurn, SameJobs
  <2>2. thread[t].req \in Requests
    BY <1>4 DEF BeginTurn, FailTurn, TurnInv, ThreadsHold, Informed, Owns, Handling
  <2>3. \/ turn' = turn
        \/ \E x \in {"processing", "failed"} : turn' = [turn EXCEPT ![thread[t].req].status = x]
    BY <1>4 DEF BeginTurn, FailTurn
  <2>4. SameAnswers
    BY <2>1, <2>2, <2>3, TurnMovesQuietly DEF SameAnswers
  <2> QED  BY <2>1, <2>4
<1> QED  BY <1>1, <1>2, <1>3, <1>4

LEMMA OthersAreQuiet ==
  ASSUME TurnInv,
         \/ \E t \in Threads, r \in Requests : AskDirectly(t, r)
         \/ \E r \in Requests : LeaseRunsOut(r)
         \/ ReaderStep \/ ServerDies \/ UNCHANGED turnVars
  PROVE  SameJobs /\ SameAnswers /\ stream' = stream
<1>1. CASE \E r \in Requests : LeaseRunsOut(r)
  <2>1. stream' = stream /\ SameAnswers
    BY <1>1 DEF LeaseRunsOut, SameAnswers
  <2>2. \E r \in Requests : job' = [job EXCEPT ![r].status = "dead"]
    BY <1>1 DEF LeaseRunsOut
  <2> QED  BY <2>1, <2>2, JobEndsQuietly
<1>2. CASE \/ \E t \in Threads, r \in Requests : AskDirectly(t, r)
           \/ ReaderStep \/ ServerDies \/ UNCHANGED turnVars
  BY <1>2 DEF AskDirectly, ReaderStep, ReadEvents, ReadStatus, Reconnect, ServerDies,
     turnVars, SameJobs, SameAnswers
<1> QED  BY <1>1, <1>2

(* A thread's stream, and the request it was accepted for.                 *)
LEMMA OwnStream ==
  ASSUME TurnInv, StoredIsAnswer, NEW t \in Threads, Owns(t), thread[t].stream # 0
  PROVE  /\ thread[t].stream \in Streams /\ thread[t].req \in Requests
         /\ thread[t].pc \in {"enqueue", "answered", "replay", "raised"} =>
               stream[thread[t].stream] = Open
         /\ thread[t].pc = "settle" => stream[thread[t].stream] = Answered
         /\ thread[t].pc \in {"answered", "replay"} =>
               /\ Accepted[thread[t].stream] = thread[t].req
               /\ turn[thread[t].req].answers = 1 \/ thread[t].req \in strayed
<1>1. Informed(t) /\ Streaming(t)
  BY DEF TurnInv, ThreadsHold
<1>2. thread[t].stream \in Streams /\ thread[t].req \in Requests
  BY <1>1, TurnAssumption DEF Informed, Streaming, Streams, TurnInv, Typed
<1>3. thread[t].pc \in {"answered", "replay"} =>
               /\ Accepted[thread[t].stream] = thread[t].req
               /\ turn[thread[t].req].answers = 1 \/ thread[t].req \in strayed
  BY <1>1, <1>2, AcceptedIsRight DEF AcceptedRight, Informed, Streaming, StoredIsAnswer, Given
<1> QED  BY <1>1, <1>2, <1>3 DEF Streaming

LEMMA StreamLooks ==
  /\ Turns!Running(<<>>) = Open
  /\ Turns!Running(<<"response_ready">>) = Answered
  /\ NoStream = [status |-> "none", log |-> <<>>]
  /\ Done = [status |-> "completed", log |-> <<"response_ready">>]
BY DEF Turns!Running, Open, Answered, NoStream, Done

(* The steps that open, fail, announce or complete a stream.               *)
LEMMA OpenIsTold ==
  ASSUME TurnInv, TurnInv', StoredIsAnswer, NEW t \in Threads, NEW r \in Requests,
         OpenStream(t, r)
  PROVE  StoredIsAnswer' /\ Told
<1>1. SameJobs /\ SameAnswers /\ calls + 1 \in Streams
  BY TurnAssumption DEF OpenStream, SameJobs, SameAnswers, TurnInv, Typed, Streams
<1>2. stream[calls + 1] = NoStream
  BY <1>1, TurnAssumption DEF TurnInv, StreamsHold, Typed, Streams
<1>3. [NoStream EXCEPT !.status = "running"] = Open
  BY DEF NoStream, Open
<1>4. stream' = [stream EXCEPT ![calls + 1] = Open]
  BY <1>1, <1>2, <1>3 DEF OpenStream, TurnInv, Typed
<1>5. /\ Accepted' = Accepted /\ AnswersGiven' = AnswersGiven /\ strayed' = strayed
      /\ StoredIsAnswer'
  BY <1>1, SameJobsSameAccepted, SameAnswersSameCount
<1>6. Turns!Open(calls + 1)
  BY <1>2, <1>4, <1>5, StreamLooks DEF Turns!Open, Turns!Becomes
<1> QED  BY <1>1, <1>5, <1>6 DEF Told, Turns!Next

LEMMA StreamIsTold ==
  ASSUME TurnInv, TurnInv', StoredIsAnswer, NEW t \in Threads,
         EnqueueRefused(t) \/ PublishAnswer(t) \/ SettleStream(t) \/ FailStream(t)
  PROVE  StoredIsAnswer' /\ Told
<1> DEFINE s == thread[t].stream
<1>0. UNCHANGED <<job, turn, strayed>>
  BY DEF EnqueueRefused, PublishAnswer, SettleStream, FailStream
<1>1. SameJobs /\ SameAnswers
  BY <1>0 DEF SameJobs, SameAnswers
<1>2. /\ Accepted' = Accepted /\ AnswersGiven' = AnswersGiven /\ strayed' = strayed
      /\ StoredIsAnswer'
  BY <1>1, SameJobsSameAccepted, SameAnswersSameCount
<1>3. Owns(t) /\ s # 0
  BY DEF EnqueueRefused, PublishAnswer, SettleStream, FailStream, Owns, Handling, TurnInv,
     ThreadsHold, Streaming
<1>4. /\ s \in Streams /\ thread[t].req \in Requests
      /\ thread[t].pc \in {"enqueue", "answered", "replay", "raised"} => stream[s] = Open
      /\ thread[t].pc = "settle" => stream[s] = Answered
      /\ thread[t].pc \in {"answered", "replay"} =>
            /\ Accepted[s] = thread[t].req
            /\ turn[thread[t].req].answers = 1 \/ thread[t].req \in strayed
  BY <1>3, OwnStream
<1>5. CASE PublishAnswer(t)
  <2>1. /\ thread[t].pc \in {"answered", "replay"}
        /\ stream' = [stream EXCEPT ![s].log = Append(@, "response_ready")]
    BY <1>5 DEF PublishAnswer
  <2>2. stream[s] = Open  BY <1>4, <2>1
  <2>3. [stream[s] EXCEPT !.log = Append(@, "response_ready")] = Answered
    <3>1. Append(<<>>, "response_ready") = <<"response_ready">>  OBVIOUS
    <3> QED  BY <2>2, <3>1 DEF Open, Answered
  <2>4. stream' = [stream EXCEPT ![s] = Answered]
    BY <1>4, <2>1, <2>3 DEF TurnInv, Typed
  <2>5. /\ Accepted[s] \in Requests /\ Accepted[s] # NoRequest
        /\ AnswersGiven[Accepted[s]] = 1 \/ Accepted[s] \in strayed
    BY <1>4, <2>1, TurnAssumption DEF AnswersGiven
  <2>6. Turns!Announce(s)
    BY <1>2, <2>2, <2>4, <2>5, StreamLooks DEF Turns!Announce, Turns!Becomes
  <2> HIDE DEF s
  <2> QED  BY <1>2, <1>4, <2>6 DEF Told, Turns!Next
<1>6. CASE SettleStream(t)
  <2>1. thread[t].pc = "settle" /\ stream' = [stream EXCEPT ![s].status = "completed"]
    BY <1>6 DEF SettleStream
  <2>2. stream[s] = Answered  BY <1>4, <2>1
  <2>3. [stream[s] EXCEPT !.status = "completed"] = Done
    BY <2>2 DEF Answered, Done
  <2>4. stream' = [stream EXCEPT ![s] = Done]
    BY <1>4, <2>1, <2>3 DEF TurnInv, Typed
  <2>5. Turns!Complete(s)
    BY <1>2, <2>2, <2>4, StreamLooks DEF Turns!Complete, Turns!Becomes
  <2> HIDE DEF s
  <2> QED  BY <1>2, <1>4, <2>5 DEF Told, Turns!Next
<1>7. CASE stream' = Failed(s)
  <2>1. \E log \in {<<>>, <<"response_ready">>} : stream[s] = Turns!Running(log)
    <3>1. thread[t].pc \in {"enqueue", "answered", "replay", "settle", "raised"}
      BY DEF EnqueueRefused, PublishAnswer, SettleStream, FailStream
    <3> QED  BY <1>4, <3>1, StreamLooks
  <2>2. PICK log \in {<<>>, <<"response_ready">>} : stream[s] = Turns!Running(log)
    BY <2>1
  <2>3. stream[s].status = "running" /\ stream[s].log = log
    BY <2>2 DEF Turns!Running
  <2>4. stream' = [stream EXCEPT ![s] = [status |-> "failed", log |-> Append(log, "stream_failed")]]
    BY <1>7, <2>3 DEF Failed
  <2>5. Turns!Fail(s)
    BY <1>2, <2>2, <2>4 DEF Turns!Fail, Turns!Becomes
  <2> HIDE DEF s
  <2> QED  BY <1>2, <1>4, <2>5 DEF Told, Turns!Next
<1>8. CASE stream' = stream
  BY <1>2, <1>8 DEF Told, Turns!ledgerVars
<1> QED  BY <1>5, <1>6, <1>7, <1>8 DEF EnqueueRefused, FailStream

LEMMA EnqueueIsTold ==
  ASSUME TurnInv, TurnInv', StoredIsAnswer, NEW t \in Threads, EnqueueTurn(t)
  PROVE  StoredIsAnswer' /\ Told
<1> DEFINE s == thread[t].stream
           r == thread[t].req
<1>1. /\ thread[t].pc = "enqueue" /\ job[r].status = "none"
      /\ job' = [job EXCEPT ![r] = [status |-> "queued", stream |-> s]]
      /\ UNCHANGED <<stream, turn, strayed>>
  BY DEF EnqueueTurn
<1>2. Owns(t) /\ Streaming(t) /\ s # 0
  BY <1>1 DEF Owns, TurnInv, ThreadsHold, Streaming
<1>3. s \in Streams /\ r \in Requests /\ stream[s] = Open
  BY <1>1, <1>2, OwnStream
<1>4. \A q \in Requests : job[q].stream # s
  BY <1>1, <1>2 DEF Streaming
<1>5. job[r].stream = 0
  BY <1>1, <1>3 DEF TurnInv, JobsHold
<1>6. \A u \in Streams : Accepted[u] # r
  <2> SUFFICES ASSUME NEW u \in Streams, Accepted[u] = r PROVE FALSE
    OBVIOUS
  <2>1. job[r].stream = u
    BY <1>3, AcceptedIsRight, TurnAssumption DEF AcceptedRight
  <2> QED  BY <1>5, <2>1 DEF Streams
<1>7. Accepted[s] = NoRequest
  BY <1>3, <1>4, AcceptedIsRight DEF AcceptedRight
<1>8. /\ job'[r].stream = s
      /\ \A q \in Requests : q # r => job'[q] = job[q]
  BY <1>1, <1>3 DEF TurnInv, Typed
<1>9. \A u \in Streams : Accepted'[u] = IF u = s THEN r ELSE Accepted[u]
  <2> SUFFICES ASSUME NEW u \in Streams
               PROVE  Accepted'[u] = IF u = s THEN r ELSE Accepted[u]
    OBVIOUS
  <2>1. CASE u = s
    BY <2>1, <1>3, <1>8, AcceptedStaysRight DEF AcceptedRight
  <2>2. CASE u # s /\ \E q \in Requests : job[q].stream = u
    <3>1. PICK q \in Requests : job[q].stream = u  BY <2>2
    <3>2. q # r /\ job'[q].stream = u  BY <3>1, <1>5, <1>8 DEF Streams
    <3> QED  BY <2>2, <3>1, <3>2, AcceptedIsRight, AcceptedStaysRight DEF AcceptedRight
  <2>3. CASE u # s /\ \A q \in Requests : job[q].stream # u
    <3>1. \A q \in Requests : job'[q].stream # u
      BY <2>3, <1>8
    <3> QED  BY <2>3, <3>1, AcceptedIsRight, AcceptedStaysRight DEF AcceptedRight
  <2> QED  BY <2>1, <2>2, <2>3
<1>10. Accepted' = [Accepted EXCEPT ![s] = r]
  <2>1. Accepted = [u \in Streams |-> Accepted[u]] /\ Accepted' = [u \in Streams |-> Accepted'[u]]
    BY DEF Accepted
  <2> QED  BY <1>9, <2>1
<1>11. AnswersGiven' = AnswersGiven /\ strayed' = strayed /\ StoredIsAnswer'
  BY <1>1, SameAnswersSameCount DEF SameAnswers
<1> HIDE DEF s, r
<1>12. Turns!Accept(s, r)
  BY <1>1, <1>3, <1>6, <1>7, <1>10, <1>11, StreamLooks DEF Turns!Accept
<1> QED  BY <1>3, <1>11, <1>12 DEF Told, Turns!Next

LEMMA CompleteMessageIsTold ==
  ASSUME TurnInv, TurnInv', StoredIsAnswer, NEW t \in Threads, CompleteMessageTurn(t)
  PROVE  StoredIsAnswer' /\ Told
<1> DEFINE r == thread[t].req
<1>1. /\ thread[t].pc = "work" /\ UNCHANGED <<stream, job, strayed>>
      /\ turn' = [turn EXCEPT ![r] = [status |-> "completed", stored |-> TRUE,
                                      answers |-> @.answers + 1]]
  BY DEF CompleteMessageTurn
<1>2. r \in Requests /\ turn[r].answers = 0
  BY <1>1 DEF TurnInv, ThreadsHold, Informed, Owns, Handling
<1>3. /\ turn'[r].answers = 1 /\ \A q \in Requests : q # r => turn'[q] = turn[q]
  BY <1>1, <1>2 DEF TurnInv, Typed
<1>4. AnswersGiven' = [AnswersGiven EXCEPT ![r] = 1] /\ AnswersGiven[r] = 0
  BY <1>2, <1>3 DEF AnswersGiven
<1>5. StoredIsAnswer'
  BY <1>3 DEF StoredIsAnswer
<1>6. Accepted' = Accepted
  BY <1>1, SameJobsSameAccepted DEF SameJobs
<1> HIDE DEF r
<1>7. Turns!Answer(r)
  BY <1>1, <1>4, <1>6 DEF Turns!Answer
<1> QED  BY <1>2, <1>5, <1>7 DEF Told, Turns!Next

(* The turn that the task names has one answer afterwards; when it is       *)
(* another one, the request of the thread has its response there.          *)
LEMMA CompleteIsTold ==
  ASSUME TurnInv, TurnInv', StoredIsAnswer, NEW t \in Threads, CompleteTurn(t)
  PROVE  StoredIsAnswer' /\ Told
<1> DEFINE r == thread[t].req
<1>1. PICK q \in Named : /\ turn' = [turn EXCEPT ![q] = Completed(q)]
                         /\ strayed' = strayed \cup ({r} \ {q})
  BY DEF CompleteTurn
<1>2. thread[t].pc \in {"work", "ran"} /\ UNCHANGED <<stream, job>>
  BY DEF CompleteTurn
<1>3. q \in Requests /\ r \in Requests
  <2>1. q \in Requests  BY DEF Named
  <2>2. Informed(t) /\ Owns(t)
    BY <1>2 DEF TurnInv, ThreadsHold, Owns, Handling
  <2> QED  BY <2>1, <2>2 DEF Informed
<1>4. turn[q].answers \in {0, 1}
  <2>1. turn[q].answers \in Nat  BY <1>3 DEF TurnInv, Typed
  <2>2. turn[q].answers <= 1  BY <1>3 DEF TurnInv, TurnsHold
  <2> QED  BY <2>1, <2>2
<1>5. /\ turn'[q].answers = 1 /\ \A p \in Requests : p # q => turn'[p] = turn[p]
  <2>1. Completed(q).answers = 1  BY <1>4 DEF Completed
  <2> QED  BY <1>1, <1>3, <2>1 DEF TurnInv, Typed
<1>6. AnswersGiven' = [AnswersGiven EXCEPT ![q] = 1] /\ AnswersGiven[q] \in {0, 1}
  BY <1>3, <1>4, <1>5 DEF AnswersGiven
<1>7. StoredIsAnswer'
  BY <1>5 DEF StoredIsAnswer
<1>8. Accepted' = Accepted
  BY <1>2, SameJobsSameAccepted DEF SameJobs
<1> HIDE DEF r
<1>9. CASE q # r
  <2>1. strayed' = strayed \cup {r}  BY <1>1, <1>9
  <2>2. Turns!Stray(r, q)
    BY <1>2, <1>6, <1>8, <1>9, <2>1 DEF Turns!Stray
  <2> QED  BY <1>3, <1>7, <2>2 DEF Told, Turns!Next
<1>10. CASE q = r /\ AnswersGiven[q] = 0
  <2>1. strayed' = strayed  BY <1>1, <1>10
  <2>2. Turns!Answer(q)
    BY <1>2, <1>6, <1>8, <1>10, <2>1 DEF Turns!Answer
  <2> QED  BY <1>3, <1>7, <2>2 DEF Told, Turns!Next
<1>11. CASE q = r /\ AnswersGiven[q] = 1
  <2>1. strayed' = strayed  BY <1>1, <1>11
  <2>2. AnswersGiven' = AnswersGiven  BY <1>6, <1>11 DEF AnswersGiven
  <2> QED  BY <1>2, <1>7, <1>8, <2>1, <2>2 DEF Told, Turns!ledgerVars
<1> QED  BY <1>6, <1>9, <1>10, <1>11

LEMMA StepIsTold ==
  TurnInv /\ TurnInv' /\ StoredIsAnswer /\ [TurnNext]_turnVars => StoredIsAnswer' /\ Told
<1> SUFFICES ASSUME TurnInv, TurnInv', StoredIsAnswer, [TurnNext]_turnVars
             PROVE  StoredIsAnswer' /\ Told
  OBVIOUS
<1>1. CASE \E t \in Threads, r \in Requests : OpenStream(t, r)
  BY <1>1, OpenIsTold
<1>2. CASE \E t \in Threads : ThreadStep(t)
  <2>1. PICK t \in Threads : ThreadStep(t)
    BY <1>2
  <2>2. CASE \/ EnqueueRaises(t) \/ TakeJob(t) \/ BulkheadRefuses(t) \/ QueueEmpty(t)
             \/ FinishJob(t) \/ BeginTurn(t) \/ RunTask(t) \/ FailTurn(t) \/ ReplyDirectly(t)
    BY <2>2, ThreadIsQuiet, QuietSteps
  <2>3. CASE EnqueueTurn(t) \/ CompleteMessageTurn(t) \/ CompleteTurn(t)
    BY <2>3, EnqueueIsTold, CompleteMessageIsTold, CompleteIsTold
  <2>4. CASE EnqueueRefused(t) \/ PublishAnswer(t) \/ SettleStream(t) \/ FailStream(t)
    BY <2>4, StreamIsTold
  <2> QED  BY <2>1, <2>2, <2>3, <2>4 DEF ThreadStep
<1>3. CASE \/ \E t \in Threads, r \in Requests : AskDirectly(t, r)
           \/ \E r \in Requests : LeaseRunsOut(r)
           \/ ReaderStep \/ ServerDies \/ UNCHANGED turnVars
  BY <1>3, OthersAreQuiet, QuietSteps
<1> QED  BY <1>1, <1>2, <1>3 DEF TurnNext

(* Endpoints, queue, drain threads and conversation keep the promises of   *)
(* AnswerLedger to every client: one answer per request at most, one       *)
(* stream for the work on it, and on that stream no response that the      *)
(* conversation does not have, with this request or with the one whose     *)
(* task its message came upon.                                             *)
THEOREM TurnsKeepAnswerLedger == TurnSpec => ImplementsAnswers
<1>1. TurnInit => StoredIsAnswer /\ Turns!Init
  <2> SUFFICES ASSUME TurnInit PROVE StoredIsAnswer /\ Turns!Init
    OBVIOUS
  <2>1. StoredIsAnswer /\ AnswersGiven = [r \in Requests |-> 0]
    BY DEF TurnInit, StoredIsAnswer, AnswersGiven, NoTurn
  <2>2. \A s \in Streams : \A r \in Requests : job[r].stream # s
    BY DEF TurnInit, NoJob, Streams
  <2>3. Accepted = [s \in Streams |-> NoRequest]
    BY <2>2 DEF Accepted
  <2> QED  BY <2>1, <2>3 DEF TurnInit, Turns!Init, NoStream
<1>2. TurnInv /\ TurnInv' /\ StoredIsAnswer /\ [TurnNext]_turnVars =>
         StoredIsAnswer' /\ [Turns!Next]_(Turns!ledgerVars)
  BY StepIsTold DEF Told
<1> QED  BY <1>1, <1>2, TurnInvariant, PTL DEF TurnSpec, ImplementsAnswers, Turns!Spec
=============================================================================
