---------------------------- MODULE AnswerLedger ----------------------------
(***************************************************************************)
(* What the chat endpoints promise to the clients that send a message: a   *)
(* request is answered at most once, however often it is sent; one stream  *)
(* at most is opened for the work on it; and a stream says that a response *)
(* is ready only when the conversation has it, with its own request or,    *)
(* for a message that came upon the task of another request, with that     *)
(* one, and ends once.  Nothing is said of jobs, leases, threads, crashes. *)
(***************************************************************************)
EXTENDS Naturals, Sequences

CONSTANTS Requests, Streams, NoRequest

VARIABLES
  answers,   \* answers[r]: answers to request r in the conversation
  accepted,  \* accepted[s]: the request stream s was opened for, once it is accepted
  strayed,   \* requests whose response another request has
  stream     \* stream[s]: its status and the events that end it

ledgerVars == <<answers, accepted, strayed, stream>>

Init ==
  /\ answers = [r \in Requests |-> 0]
  /\ accepted = [s \in Streams |-> NoRequest]
  /\ strayed = {}
  /\ stream = [s \in Streams |-> [status |-> "none", log |-> <<>>]]

Becomes(s, from, to) == stream[s] = from /\ stream' = [stream EXCEPT ![s] = to]

Running(log) == [status |-> "running", log |-> log]

Open(s) ==
  /\ Becomes(s, [status |-> "none", log |-> <<>>], Running(<<>>))
  /\ UNCHANGED <<answers, accepted, strayed>>

Accept(s, r) ==
  /\ stream[s] = Running(<<>>) /\ accepted[s] = NoRequest
  /\ \A u \in Streams : accepted[u] # r
  /\ accepted' = [accepted EXCEPT ![s] = r]
  /\ UNCHANGED <<answers, strayed, stream>>

Answer(r) ==
  /\ answers[r] = 0
  /\ answers' = [answers EXCEPT ![r] = 1]
  /\ UNCHANGED <<accepted, strayed, stream>>

(* The response to r is given to q, unless q has been answered.            *)
Stray(r, q) ==
  /\ q # r
  /\ answers' = [answers EXCEPT ![q] = 1]
  /\ strayed' = strayed \cup {r}
  /\ UNCHANGED <<accepted, stream>>

Announce(s) ==
  /\ accepted[s] # NoRequest
  /\ answers[accepted[s]] = 1 \/ accepted[s] \in strayed
  /\ Becomes(s, Running(<<>>), Running(<<"response_ready">>))
  /\ UNCHANGED <<answers, accepted, strayed>>

Complete(s) ==
  /\ Becomes(s, Running(<<"response_ready">>),
             [status |-> "completed", log |-> <<"response_ready">>])
  /\ UNCHANGED <<answers, accepted, strayed>>

Fail(s) ==
  /\ \E log \in {<<>>, <<"response_ready">>} :
        Becomes(s, Running(log), [status |-> "failed", log |-> Append(log, "stream_failed")])
  /\ UNCHANGED <<answers, accepted, strayed>>

Next ==
  \/ \E s \in Streams : Open(s) \/ Announce(s) \/ Complete(s) \/ Fail(s)
  \/ \E s \in Streams, r \in Requests : Accept(s, r)
  \/ \E r \in Requests : Answer(r)
  \/ \E r, q \in Requests : Stray(r, q)

Spec == Init /\ [][Next]_ledgerVars
=============================================================================
