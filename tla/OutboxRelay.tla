---------------------------- MODULE OutboxRelay ----------------------------
(* The rows of transactional_outbox after their insertion: the relay        *)
(* processes that lease an event, publish it and mark it as published.      *)
(*                                                                          *)
(* Events are numbered by created_at. As in JobQueue, a row carries the     *)
(* ticks left to lease_expires_at, and a method may act on a reading of the *)
(* clock that is up to RelayLag ticks old.                                  *)
EXTENDS Integers, FiniteSets

CONSTANTS
    Relays,
    MaxEvents,   \* bound: events ever inserted
    RelayLease,  \* lease_seconds, in ticks
    RelayLag,    \* how old the clock reading of a method may be, in ticks
    MaxDeaths,   \* bound: processes that die
    MaxLate      \* bound: leases that a relay at work lets expire

VARIABLES
    row,        \* row[e]: status, lease_token and lease_expires_at of event e
    relay,      \* relay[r]: the event that the process has leased, and its token
    delivered,  \* events the sink has received (history)
    deaths, late

relayVars == <<row, relay, delivered, deaths, late>>

ASSUME RelayAssumption ==
    /\ IsFiniteSet(Relays)
    /\ MaxEvents \in Nat /\ RelayLease \in Nat \ {0} /\ RelayLag \in Nat
    /\ RelayLag < RelayLease
    /\ MaxDeaths \in Nat /\ MaxLate \in Nat

Events    == 1..MaxEvents
RelayLags == 0..RelayLag

(* The row of an event that was not inserted yet, or that a reset deleted. *)
Absent(status) == [status |-> status, token |-> 0, left |-> -RelayLag]

Holding(pc, e, token) == [pc |-> pc, event |-> e, token |-> token]
Polling == Holding("poll", 0, 0)
Down    == Holding("down", 0, 0)

RelayInit ==
    /\ row = [e \in Events |-> Absent("none")]
    /\ relay = [r \in Relays |-> Polling]
    /\ delivered = {} /\ deaths = 0 /\ late = 0

(* _insert_outbox. Transactions need not commit in the order of the clock  *)
(* readings that they store as created_at.                                 *)
InsertEvent(e) ==
    /\ row[e].status = "none"
    /\ row' = [row EXCEPT ![e] = Absent("pending")]
    /\ UNCHANGED <<relay, delivered, deaths, late>>

TakenOver_Never(e, lag) == row[e]  \* mutant: an expired lease is not taken over

(* Mutant: the statement does not look at the status of an expired row.    *)
TakenOver_AnyStatus(e, lag) ==
    IF row[e].status \in {"publishing", "published"} /\ row[e].left + lag <= 0
    THEN [status |-> "pending", token |-> row[e].token, left |-> -RelayLag]
    ELSE row[e]

(* The first statement of lease_outbox, for the row of e.                  *)
TakenOver(e, lag) ==
    IF row[e].status = "publishing" /\ row[e].left + lag <= 0
    THEN [status |-> "pending", token |-> row[e].token, left |-> -RelayLag]
    ELSE row[e]

(* lease_outbox: the oldest pending event.                                 *)
LeaseOutbox(r) ==
    /\ relay[r].pc = "poll"
    /\ \E lag \in RelayLags, e \in Events :
          /\ TakenOver(e, lag).status = "pending"
          /\ \A f \in Events : f < e => TakenOver(f, lag).status # "pending"
          /\ row' = [f \in Events |->
                       IF f = e THEN [status |-> "publishing", token |-> row[e].token + 1,
                                      left |-> RelayLease - lag]
                       ELSE TakenOver(f, lag)]
          /\ relay' = [relay EXCEPT ![r] = Holding("leased", e, row[e].token + 1)]
    /\ UNCHANGED <<delivered, deaths, late>>

(* The event is printed, whatever has become of the lease.                 *)
Deliver(r) ==
    /\ relay[r].pc = "leased"
    /\ delivered' = delivered \cup {relay[r].event}
    /\ relay' = [relay EXCEPT ![r] = Holding("printed", @.event, @.token)]
    /\ UNCHANGED <<row, deaths, late>>

Owned(r, lag) ==
    LET e == relay[r].event
    IN  /\ row[e].status = "publishing" /\ row[e].token = relay[r].token
        /\ row[e].left + lag > 0

MarkPublished(r) ==
    /\ relay[r].pc = "printed"
    /\ \E lag \in RelayLags : Owned(r, lag)
    /\ row' = [row EXCEPT ![relay[r].event] =
                 [status |-> "published", token |-> @.token, left |-> -RelayLag]]
    /\ relay' = [relay EXCEPT ![r] = Polling]
    /\ UNCHANGED <<delivered, deaths, late>>

(* StaleLeaseError is not caught: it ends the process.                     *)
MarkRefused(r) ==
    /\ relay[r].pc = "printed"
    /\ \E lag \in RelayLags : ~Owned(r, lag)
    /\ relay' = [relay EXCEPT ![r] = Down]
    /\ UNCHANGED <<row, delivered, deaths, late>>

RelayDies(r) ==
    /\ relay[r] # Down /\ deaths < MaxDeaths
    /\ relay' = [relay EXCEPT ![r] = Down]
    /\ deaths' = deaths + 1
    /\ UNCHANGED <<row, delivered, late>>

RelayRestarts(r) ==
    /\ relay[r] = Down
    /\ relay' = [relay EXCEPT ![r] = Polling]
    /\ UNCHANGED <<row, delivered, deaths, late>>

(* reset_tenant deletes the events of its tenant, here all there are.      *)
DeleteEvents ==
    /\ \E e \in Events : row[e].status \notin {"none", "gone"}
    /\ row' = [e \in Events |-> IF row[e].status = "none" THEN row[e] ELSE Absent("gone")]
    /\ UNCHANGED <<relay, delivered, deaths, late>>

(* Events whose lease runs out now although a relay is at work on them.    *)
Overdue == {e \in Events :
              /\ row[e].status = "publishing" /\ row[e].left = 1
              /\ \E r \in Relays : /\ relay[r].pc \in {"leased", "printed"}
                                   /\ relay[r].event = e /\ relay[r].token = row[e].token}

RelayTick ==
    /\ \E e \in Events : row[e].left > -RelayLag
    /\ late + Cardinality(Overdue) <= MaxLate
    /\ late' = late + Cardinality(Overdue)
    /\ row' = [e \in Events |->
                 [status |-> row[e].status, token |-> row[e].token,
                  left |-> IF row[e].left > -RelayLag THEN row[e].left - 1 ELSE -RelayLag]]
    /\ UNCHANGED <<relay, delivered, deaths>>

RelayStep(r) == LeaseOutbox(r) \/ Deliver(r) \/ MarkPublished(r) \/ MarkRefused(r)
                \/ RelayRestarts(r)

RelayNext ==
    \/ \E e \in Events : InsertEvent(e)
    \/ \E r \in Relays : RelayStep(r) \/ RelayDies(r)
    \/ DeleteEvents \/ RelayTick

(* The script polls for ever, and is started again when it has ended.      *)
RelayFairness ==
    /\ \A r \in Relays : WF_relayVars(RelayStep(r))
    /\ WF_relayVars(RelayTick)

RelaySpec == RelayInit /\ [][RelayNext]_relayVars /\ RelayFairness

-----------------------------------------------------------------------------
(* Properties.                                                             *)

RelayTypeOK ==
    /\ row \in [Events -> [status : {"none", "pending", "publishing", "published", "gone"},
                           token : Nat, left : (-RelayLag)..RelayLease]]
    /\ relay \in [Relays -> [pc : {"poll", "leased", "printed", "down"},
                             event : 0..MaxEvents, token : Nat]]
    /\ delivered \subseteq 0..MaxEvents
    /\ deaths \in 0..MaxDeaths /\ late \in 0..MaxLate

(* What counts as published did reach the sink: no order of leases, late   *)
(* marks and deaths between printing and marking loses an event.           *)
PublishedWasDelivered ==
    \A e \in Events : row[e].status = "published" => e \in delivered

(* Two processes never hold one lease of one event, so that the sink gets  *)
(* an event at most once per lease.                                        *)
OneHolderPerLease ==
    \A r, q \in Relays :
        r # q /\ {relay[r].pc, relay[q].pc} \subseteq {"leased", "printed"}
            => relay[r].event # relay[q].event \/ relay[r].token # relay[q].token

(* An event that is leased is still to be published.                       *)
EventPhase == [e \in Events |-> IF row[e].status = "publishing" THEN "pending"
                                ELSE row[e].status]

Delivery == INSTANCE EventLedger WITH phase <- EventPhase

(* The relays together keep the promises of EventLedger.                   *)
ImplementsDelivery == Delivery!Spec

(* docs/V38_TECHNICAL.md:38 names the protocol: claim, takeover of expired *)
(* claims, confirmation. By it every event reaches the sink, unless its    *)
(* tenant is reset, although processes die with it or overrun their lease. *)
EveryEventIsDelivered ==
    \A e \in Events : row[e].status = "pending" ~> (e \in delivered \/ row[e].status = "gone")
=============================================================================
