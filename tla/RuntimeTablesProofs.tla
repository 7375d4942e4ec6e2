------------------------- MODULE RuntimeTablesProofs -------------------------
(***************************************************************************)
(* Theorems about OutboxRelay, for any number of events and of relay       *)
(* processes, however often they die and however late they are, and then   *)
(* about the two tables of RuntimeTablesMC in one behaviour.               *)
(***************************************************************************)
EXTENDS RuntimeTablesMC, JobQueueProofs

AtWork(r) == relay[r].pc \in {"leased", "printed"}

(* A lease in the hands of a process is a lease its row has granted, and    *)
(* the row only grants larger ones; a deleted row grants none.              *)
HoldersAreGranted ==
    \A r \in Relays : AtWork(r) =>
        /\ relay[r].event \in Events
        /\ row[relay[r].event].status # "gone" => relay[r].token <= row[relay[r].event].token

PrintedWasDelivered ==
    \A r \in Relays : relay[r].pc = "printed" => relay[r].event \in delivered

(* A row grants its first lease after its insertion.                        *)
NoLeaseBefore == \A e \in Events : row[e].status = "none" => row[e].token = 0

RelayInv ==
    /\ RelayTypeOK /\ NoLeaseBefore /\ HoldersAreGranted /\ PrintedWasDelivered
    /\ PublishedWasDelivered /\ OneHolderPerLease

LEMMA RelayBegins == RelayInit => RelayInv
BY RelayAssumption DEF RelayInit, RelayInv, RelayTypeOK, NoLeaseBefore, HoldersAreGranted, PrintedWasDelivered,
    PublishedWasDelivered, OneHolderPerLease, AtWork, Absent, Polling, Holding, Events

(* What the first statement of lease_outbox does to a row.                  *)
LEMMA TakeoverKeeps ==
    ASSUME RelayTypeOK, NEW e \in Events, NEW lag \in RelayLags
    PROVE  /\ TakenOver(e, lag) \in [status : {"none", "pending", "publishing", "published", "gone"},
                                     token : Nat, left : (-RelayLag)..RelayLease]
           /\ TakenOver(e, lag).token = row[e].token
           /\ (TakenOver(e, lag).status = "none") <=> (row[e].status = "none")
           /\ (TakenOver(e, lag).status = "gone") <=> (row[e].status = "gone")
           /\ (TakenOver(e, lag).status = "published") <=> (row[e].status = "published")
<1>1. /\ row[e] \in [status : {"none", "pending", "publishing", "published", "gone"},
                      token : Nat, left : (-RelayLag)..RelayLease]
      /\ -RelayLag \in (-RelayLag)..RelayLease
  BY RelayAssumption DEF RelayTypeOK
<1>2. CASE row[e].status = "publishing" /\ row[e].left + lag <= 0
  BY <1>1, <1>2 DEF TakenOver
<1>3. CASE ~(row[e].status = "publishing" /\ row[e].left + lag <= 0)
  BY <1>1, <1>3 DEF TakenOver
<1> QED
  BY <1>2, <1>3

LEMMA InsertEventStep ==
    ASSUME RelayInv, NEW e \in Events, InsertEvent(e)
    PROVE  RelayInv'
<1> USE DEF RelayInv
<1>1. /\ row'[e].status = "pending" /\ row'[e].token = row[e].token
      /\ \A f \in Events : f # e => row'[f] = row[f]
      /\ row[e].status = "none" /\ UNCHANGED <<relay, delivered, deaths, late>>
  BY DEF InsertEvent, NoLeaseBefore, RelayTypeOK, Absent
<1>2. RelayTypeOK'
  BY <1>1, RelayAssumption DEF InsertEvent, RelayTypeOK, Absent
<1>3. NoLeaseBefore'
  BY <1>1 DEF NoLeaseBefore
<1>4. HoldersAreGranted'
  <2> SUFFICES ASSUME NEW r \in Relays, AtWork(r)
               PROVE  /\ relay[r].event \in Events
                      /\ row'[relay[r].event].status # "gone"
                            => relay[r].token <= row'[relay[r].event].token
    BY <1>1 DEF HoldersAreGranted, AtWork
  <2>1. /\ relay[r].event \in Events
        /\ row[relay[r].event].status # "gone" => relay[r].token <= row[relay[r].event].token
    BY DEF HoldersAreGranted
  <2> QED
    BY <1>1, <2>1
<1>5. PublishedWasDelivered'
  BY <1>1 DEF PublishedWasDelivered
<1> QED
  BY <1>1, <1>2, <1>3, <1>4, <1>5 DEF PrintedWasDelivered, OneHolderPerLease

LEMMA LeaseOutboxStep ==
    ASSUME RelayInv, NEW r \in Relays, LeaseOutbox(r)
    PROVE  RelayInv'
<1> USE DEF RelayInv
<1>1. PICK lag \in RelayLags, e \in Events :
        /\ TakenOver(e, lag).status = "pending"
        /\ row' = [f \in Events |->
                     IF f = e THEN [status |-> "publishing", token |-> row[e].token + 1,
                                    left |-> RelayLease - lag]
                     ELSE TakenOver(f, lag)]
        /\ relay' = [relay EXCEPT ![r] = Holding("leased", e, row[e].token + 1)]
  BY DEF LeaseOutbox
<1>2. UNCHANGED <<delivered, deaths, late>>
  BY DEF LeaseOutbox
<1>3. row[e].token \in Nat /\ row[e].status # "gone"
  BY <1>1, TakeoverKeeps DEF RelayTypeOK
<1>4. /\ relay'[r].pc = "leased" /\ relay'[r].event = e /\ relay'[r].token = row[e].token + 1
      /\ \A q \in Relays : q # r => relay'[q] = relay[q]
  BY <1>1 DEF RelayTypeOK, Holding
<1>5. /\ row'[e].status = "publishing" /\ row'[e].token = row[e].token + 1
      /\ \A f \in Events : f # e => row'[f] = TakenOver(f, lag)
  BY <1>1
<1>6. RelayTypeOK'
  <2>1. [status |-> "publishing", token |-> row[e].token + 1, left |-> RelayLease - lag]
          \in [status : {"none", "pending", "publishing", "published", "gone"},
               token : Nat, left : (-RelayLag)..RelayLease]
    BY <1>3, RelayAssumption DEF RelayLags
  <2>2. row' \in [Events -> [status : {"none", "pending", "publishing", "published", "gone"},
                             token : Nat, left : (-RelayLag)..RelayLease]]
    BY <1>1, <2>1, TakeoverKeeps
  <2>3. Holding("leased", e, row[e].token + 1)
          \in [pc : {"poll", "leased", "printed", "down"}, event : 0..MaxEvents, token : Nat]
    BY <1>3, RelayAssumption DEF Holding, Events
  <2> QED
    BY <1>1, <1>2, <2>2, <2>3 DEF RelayTypeOK
<1>7. HoldersAreGranted'
  <2> SUFFICES ASSUME NEW q \in Relays, AtWork(q)'
               PROVE  /\ relay'[q].event \in Events
                      /\ row'[relay'[q].event].status # "gone"
                            => relay'[q].token <= row'[relay'[q].event].token
    BY DEF HoldersAreGranted
  <2>1. CASE q = r
    BY <2>1, <1>3, <1>4, <1>5
  <2>2. CASE q # r
    <3>1. relay'[q] = relay[q] /\ relay[q].event \in Events /\ relay[q].token \in Nat
      BY <2>2, <1>4 DEF HoldersAreGranted, AtWork, RelayTypeOK
    <3>2. row[relay[q].event].status # "gone" => relay[q].token <= row[relay[q].event].token
      BY <3>1 DEF HoldersAreGranted, AtWork
    <3>3. CASE relay[q].event = e
      BY <3>1, <3>2, <3>3, <1>3, <1>5
    <3>4. CASE relay[q].event # e
      BY <3>1, <3>2, <3>4, <1>5, TakeoverKeeps
    <3> QED
      BY <3>3, <3>4
  <2> QED
    BY <2>1, <2>2
<1>8. PrintedWasDelivered'
  BY <1>2, <1>4 DEF PrintedWasDelivered
<1>9. PublishedWasDelivered'
  BY <1>2, <1>5, TakeoverKeeps DEF PublishedWasDelivered
<1>10. OneHolderPerLease'
  <2>1. \A q \in Relays : q # r /\ relay'[q].pc \in {"leased", "printed"}
                             => relay'[q].event # e \/ relay'[q].token # row[e].token + 1
    <3> SUFFICES ASSUME NEW q \in Relays, q # r, AtWork(q), relay[q].event = e
                 PROVE  relay[q].token # row[e].token + 1
      BY <1>4 DEF AtWork
    <3> QED
      BY <1>3 DEF HoldersAreGranted, RelayTypeOK
  <2> QED
    BY <2>1, <1>4 DEF OneHolderPerLease
<1>11. NoLeaseBefore'
  BY <1>5, TakeoverKeeps DEF NoLeaseBefore
<1> QED
  BY <1>6, <1>7, <1>8, <1>9, <1>10, <1>11

(* A process that moves on with its lease, or that lays it down.            *)
LEMMA DeliverStep ==
    ASSUME RelayInv, NEW r \in Relays, Deliver(r)
    PROVE  RelayInv'
<1> USE DEF RelayInv
<1>1. /\ relay[r].pc = "leased" /\ relay[r].event \in Events /\ relay[r].token \in Nat
      /\ relay[r].event \in 0..MaxEvents
  BY DEF Deliver, HoldersAreGranted, AtWork, RelayTypeOK
<1>2. /\ relay'[r].pc = "printed" /\ relay'[r].event = relay[r].event
      /\ relay'[r].token = relay[r].token
      /\ \A q \in Relays : q # r => relay'[q] = relay[q]
      /\ row' = row /\ delivered' = delivered \cup {relay[r].event}
  BY DEF Deliver, Holding, RelayTypeOK
<1>3. RelayTypeOK'
  BY <1>1 DEF Deliver, Holding, RelayTypeOK
<1>4. HoldersAreGranted'
  BY <1>1, <1>2 DEF HoldersAreGranted, AtWork
<1>5. PrintedWasDelivered'
  BY <1>2 DEF PrintedWasDelivered
<1>6. PublishedWasDelivered'
  BY <1>2 DEF PublishedWasDelivered
<1>7. OneHolderPerLease'
  BY <1>1, <1>2 DEF OneHolderPerLease
<1> QED
  BY <1>2, <1>3, <1>4, <1>5, <1>6, <1>7 DEF NoLeaseBefore

LEMMA LaysDown ==
    ASSUME RelayTypeOK, HoldersAreGranted, PrintedWasDelivered, OneHolderPerLease,
           NEW r \in Relays, NEW rest \in {Polling, Down},
           relay' = [relay EXCEPT ![r] = rest], row' = row, delivered' = delivered
    PROVE  HoldersAreGranted' /\ PrintedWasDelivered' /\ OneHolderPerLease'
<1>1. /\ relay'[r].pc \notin {"leased", "printed"}
      /\ \A q \in Relays : q # r => relay'[q] = relay[q]
  BY DEF RelayTypeOK, Polling, Down, Holding
<1> QED
  BY <1>1 DEF HoldersAreGranted, AtWork, PrintedWasDelivered, OneHolderPerLease

LEMMA MarkPublishedStep ==
    ASSUME RelayInv, NEW r \in Relays, MarkPublished(r)
    PROVE  RelayInv'
<1> USE DEF RelayInv
<1> DEFINE e == relay[r].event
<1>1. /\ relay[r].pc = "printed" /\ e \in Events /\ e \in delivered
  BY DEF MarkPublished, HoldersAreGranted, AtWork, PrintedWasDelivered
<1>2. /\ row' = [row EXCEPT ![e] = [status |-> "published", token |-> @.token,
                                    left |-> -RelayLag]]
      /\ relay' = [relay EXCEPT ![r] = Polling] /\ UNCHANGED <<delivered, deaths, late>>
      /\ row[e].status = "publishing"
  BY DEF MarkPublished, Owned
<1>3. /\ row'[e].status = "published" /\ row'[e].token = row[e].token
      /\ \A f \in Events : f # e => row'[f] = row[f]
  BY <1>1, <1>2 DEF RelayTypeOK
<1>4. /\ relay'[r].pc = "poll" /\ \A q \in Relays : q # r => relay'[q] = relay[q]
  BY <1>2 DEF RelayTypeOK, Polling, Holding
<1>5. RelayTypeOK'
  BY <1>1, <1>2, RelayAssumption DEF RelayTypeOK, Polling, Holding
<1>6. HoldersAreGranted'
  <2> SUFFICES ASSUME NEW q \in Relays, AtWork(q)'
               PROVE  /\ relay'[q].event \in Events
                      /\ row'[relay'[q].event].status # "gone"
                            => relay'[q].token <= row'[relay'[q].event].token
    BY DEF HoldersAreGranted
  <2>1. relay'[q] = relay[q] /\ AtWork(q)
    BY <1>4 DEF AtWork
  <2>2. /\ relay[q].event \in Events
        /\ row[relay[q].event].status # "gone" => relay[q].token <= row[relay[q].event].token
    BY <2>1 DEF HoldersAreGranted
  <2> QED
    BY <1>2, <1>3, <2>1, <2>2
<1>7. PrintedWasDelivered'
  BY <1>2, <1>4 DEF PrintedWasDelivered
<1>8. PublishedWasDelivered'
  BY <1>1, <1>2, <1>3 DEF PublishedWasDelivered
<1>9. OneHolderPerLease'
  BY <1>4 DEF OneHolderPerLease
<1> QED
  BY <1>3, <1>5, <1>6, <1>7, <1>8, <1>9 DEF NoLeaseBefore

LEMMA DownStep ==
    ASSUME RelayInv, NEW r \in Relays, MarkRefused(r) \/ RelayDies(r) \/ RelayRestarts(r)
    PROVE  RelayInv'
<1> USE DEF RelayInv
<1>1. PICK rest \in {Polling, Down} : relay' = [relay EXCEPT ![r] = rest]
  BY DEF MarkRefused, RelayDies, RelayRestarts
<1>2. row' = row /\ delivered' = delivered /\ late' = late /\ deaths' \in 0..MaxDeaths
  BY RelayAssumption DEF MarkRefused, RelayDies, RelayRestarts, RelayTypeOK
<1>3. RelayTypeOK'
  BY <1>1, <1>2, RelayAssumption DEF RelayTypeOK, Polling, Down, Holding
<1>4. PublishedWasDelivered'
  BY <1>2 DEF PublishedWasDelivered
<1> QED
  BY <1>1, <1>2, <1>3, <1>4, LaysDown DEF NoLeaseBefore

LEMMA DeleteEventsStep ==
    ASSUME RelayInv, DeleteEvents
    PROVE  RelayInv'
<1> USE DEF RelayInv
<1>1. /\ row' = [e \in Events |-> IF row[e].status = "none" THEN row[e] ELSE Absent("gone")]
      /\ UNCHANGED <<relay, delivered, deaths, late>>
  BY DEF DeleteEvents
<1>2. RelayTypeOK'
  BY <1>1, RelayAssumption DEF RelayTypeOK, Absent
<1>3. HoldersAreGranted'
  BY <1>1 DEF HoldersAreGranted, AtWork, Absent
<1> QED
  BY <1>1, <1>2, <1>3 DEF NoLeaseBefore, PrintedWasDelivered, PublishedWasDelivered, OneHolderPerLease, Absent

LEMMA TickStep ==
    ASSUME RelayInv, RelayTick
    PROVE  RelayInv'
<1> USE DEF RelayInv
<1>1. /\ row' = [e \in Events |->
                   [status |-> row[e].status, token |-> row[e].token,
                    left |-> IF row[e].left > -RelayLag THEN row[e].left - 1 ELSE -RelayLag]]
      /\ UNCHANGED <<relay, delivered, deaths>>
  BY DEF RelayTick
<1>2. \A e \in Events : row'[e].status = row[e].status /\ row'[e].token = row[e].token
  BY <1>1
<1>3. late' \in 0..MaxLate
  <2>1. IsFiniteSet(Events)
    BY RelayAssumption, FS_Interval DEF Events
  <2>2. Cardinality(Overdue) \in Nat
    BY <2>1, FS_Subset, FS_CardinalityType, Overdue \subseteq Events DEF Overdue
  <2> QED
    BY <2>2, RelayAssumption DEF RelayTick, RelayTypeOK
<1>4. RelayTypeOK'
  BY <1>1, <1>3, RelayAssumption DEF RelayTypeOK
<1> QED
  BY <1>1, <1>2, <1>4 DEF NoLeaseBefore, HoldersAreGranted, AtWork, PrintedWasDelivered,
     PublishedWasDelivered, OneHolderPerLease

LEMMA RelayGoesOn == RelayInv /\ [RelayNext]_relayVars => RelayInv'
<1> SUFFICES ASSUME RelayInv, [RelayNext]_relayVars PROVE RelayInv'
  OBVIOUS
<1>1. CASE \E e \in Events : InsertEvent(e)
  BY <1>1, InsertEventStep
<1>2. CASE \E r \in Relays : RelayStep(r) \/ RelayDies(r)
  <2> PICK r \in Relays : RelayStep(r) \/ RelayDies(r)
    BY <1>2
  <2> QED
    BY LeaseOutboxStep, DeliverStep, MarkPublishedStep, DownStep DEF RelayStep
<1>3. CASE DeleteEvents
  BY <1>3, DeleteEventsStep
<1>4. CASE RelayTick
  BY <1>4, TickStep
<1>5. CASE UNCHANGED relayVars
  BY <1>5 DEF relayVars, RelayInv, RelayTypeOK, NoLeaseBefore, HoldersAreGranted, AtWork, PrintedWasDelivered,
     PublishedWasDelivered, OneHolderPerLease
<1> QED
  BY <1>1, <1>2, <1>3, <1>4, <1>5 DEF RelayNext

(* The inductive invariant of the relay.                                    *)
THEOREM RelayInvariant == RelaySpec => []RelayInv
BY RelayBegins, RelayGoesOn, PTL DEF RelaySpec

(* Every value of the rows and the relay processes has its type, and the    *)
(* bounds on deaths and on late relays are kept.                            *)
THEOREM RelayTypeCorrect == RelaySpec => []RelayTypeOK
BY RelayInvariant, PTL DEF RelayInv

(* mark_outbox_published never marks an event that did not reach the sink:  *)
(* none is lost, in whatever order relays lease, stall, die and mark.       *)
THEOREM NoEventIsLost == RelaySpec => []PublishedWasDelivered
BY RelayInvariant, PTL DEF RelayInv

(* lease_outbox gives a lease of an event to one process only, although     *)
(* leases expire under processes that go on to print.                       *)
THEOREM LeasesHaveOneHolder == RelaySpec => []OneHolderPerLease
BY RelayInvariant, PTL DEF RelayInv

-----------------------------------------------------------------------------
(***************************************************************************)
(* The outbox as an EventLedger.                                           *)
(***************************************************************************)
(* Only events that were inserted are ever leased.                         *)
OnlyInserted == \A r \in Relays : AtWork(r) => row[relay[r].event].status # "none"

(* The step of the ledger that a step of the outbox is, if any.            *)
Recorded ==
  \/ \E e \in Events : Delivery!Insert(e) \/ Delivery!Deliver(e) \/ Delivery!Publish(e)
  \/ Delivery!Clear
  \/ UNCHANGED <<EventPhase, delivered>>

(* A row whose status is kept stands where it stood.                       *)
LEMMA PhaseOfRow ==
  /\ \A e \in Events : EventPhase[e] = IF row[e].status = "publishing" THEN "pending"
                                       ELSE row[e].status
  /\ \A e \in Events : EventPhase'[e] = IF row'[e].status = "publishing" THEN "pending"
                                        ELSE row'[e].status
  /\ EventPhase = [e \in Events |-> EventPhase[e]]
  /\ EventPhase' = [e \in Events |-> EventPhase'[e]]
BY DEF EventPhase

LEMMA RelaysKept ==
  ASSUME OnlyInserted,
         \A e \in Events : row[e].status # "none" => row'[e].status # "none",
         \A r \in Relays : AtWork(r) => relay[r].event \in Events,
         \A r \in Relays : AtWork(r)' => AtWork(r) /\ relay'[r].event = relay[r].event
  PROVE  OnlyInserted'
BY DEF OnlyInserted

LEMMA InsertRecorded ==
  ASSUME RelayInv, OnlyInserted, NEW e \in Events, InsertEvent(e)
  PROVE  OnlyInserted' /\ Recorded
<1>1. /\ row[e].status = "none" /\ row'[e].status = "pending"
      /\ \A f \in Events : f # e => row'[f] = row[f]
      /\ relay' = relay /\ delivered' = delivered
  BY DEF InsertEvent, RelayInv, RelayTypeOK, Absent
<1>2. OnlyInserted'
  BY <1>1, RelaysKept DEF AtWork, RelayInv, HoldersAreGranted
<1>3. EventPhase' = [EventPhase EXCEPT ![e] = "pending"] /\ EventPhase[e] = "none"
  BY <1>1, PhaseOfRow
<1> QED  BY <1>1, <1>2, <1>3 DEF Recorded, Delivery!Insert

LEMMA LeaseRecorded ==
  ASSUME RelayInv, OnlyInserted, NEW r \in Relays, LeaseOutbox(r)
  PROVE  OnlyInserted' /\ Recorded
<1>1. PICK lag \in RelayLags, e \in Events :
        /\ TakenOver(e, lag).status = "pending"
        /\ row' = [f \in Events |->
                     IF f = e THEN [status |-> "publishing", token |-> row[e].token + 1,
                                    left |-> RelayLease - lag]
                     ELSE TakenOver(f, lag)]
        /\ relay' = [relay EXCEPT ![r] = Holding("leased", e, row[e].token + 1)]
        /\ delivered' = delivered
  BY DEF LeaseOutbox
<1>2. /\ relay'[r].event = e /\ row'[e].status = "publishing"
      /\ \A q \in Relays : q # r => relay'[q] = relay[q]
      /\ \A f \in Events : f # e => row'[f] = TakenOver(f, lag)
  BY <1>1 DEF RelayInv, RelayTypeOK, Holding
<1>3. \A f \in Events :
        \/ TakenOver(f, lag).status = row[f].status
        \/ row[f].status = "publishing" /\ TakenOver(f, lag).status = "pending"
  <2> SUFFICES ASSUME NEW f \in Events
               PROVE  \/ TakenOver(f, lag).status = row[f].status
                      \/ row[f].status = "publishing" /\ TakenOver(f, lag).status = "pending"
    OBVIOUS
  <2>1. CASE row[f].status = "publishing" /\ row[f].left + lag <= 0
    BY <2>1 DEF TakenOver
  <2>2. CASE ~(row[f].status = "publishing" /\ row[f].left + lag <= 0)
    BY <2>2 DEF TakenOver
  <2> QED  BY <2>1, <2>2
<1>4. OnlyInserted'
  <2> SUFFICES ASSUME NEW q \in Relays, AtWork(q)'
               PROVE  row'[relay'[q].event].status # "none"
    BY DEF OnlyInserted
  <2>1. CASE q = r  BY <2>1, <1>2
  <2>2. CASE q # r
    <3>1. relay'[q] = relay[q] /\ AtWork(q)  BY <2>2, <1>2 DEF AtWork
    <3>2. relay[q].event \in Events /\ row[relay[q].event].status # "none"
      BY <3>1 DEF RelayInv, HoldersAreGranted, OnlyInserted
    <3> QED  BY <3>1, <3>2, <1>2, <1>3
  <2> QED  BY <2>1, <2>2
<1>5. \A f \in Events : EventPhase'[f] = EventPhase[f]
  <2> SUFFICES ASSUME NEW f \in Events PROVE EventPhase'[f] = EventPhase[f]  OBVIOUS
  <2>1. CASE f = e
    <3>1. row[e].status \in {"pending", "publishing"}  BY <1>1, <1>3
    <3> QED  BY <2>1, <3>1, <1>2, PhaseOfRow
  <2>2. CASE f # e
    BY <2>2, <1>2, <1>3, PhaseOfRow
  <2> QED  BY <2>1, <2>2
<1>6. EventPhase' = EventPhase  BY <1>5, PhaseOfRow
<1> QED  BY <1>1, <1>4, <1>6 DEF Recorded

LEMMA DeliverRecorded ==
  ASSUME RelayInv, OnlyInserted, NEW r \in Relays, Deliver(r)
  PROVE  OnlyInserted' /\ Recorded
<1> DEFINE e == relay[r].event
<1>1. e \in Events /\ row[e].status # "none"
  BY DEF Deliver, RelayInv, HoldersAreGranted, OnlyInserted, AtWork
<1>2. /\ row' = row /\ delivered' = delivered \cup {e}
      /\ relay[r].pc = "leased" /\ relay'[r].event = e
      /\ \A q \in Relays : q # r => relay'[q] = relay[q]
  BY DEF Deliver, RelayInv, RelayTypeOK, Holding
<1>3. OnlyInserted'
  BY <1>1, <1>2 DEF OnlyInserted, AtWork
<1>4. EventPhase' = EventPhase /\ EventPhase[e] # "none"
  BY <1>1, <1>2, PhaseOfRow DEF EventPhase
<1> HIDE DEF e
<1> QED  BY <1>1, <1>2, <1>3, <1>4 DEF Recorded, Delivery!Deliver

LEMMA PublishRecorded ==
  ASSUME RelayInv, OnlyInserted, NEW r \in Relays, MarkPublished(r)
  PROVE  OnlyInserted' /\ Recorded
<1> DEFINE e == relay[r].event
<1>1. e \in Events /\ e \in delivered /\ row[e].status = "publishing"
  BY DEF MarkPublished, Owned, RelayInv, HoldersAreGranted, PrintedWasDelivered, AtWork
<1>2. /\ row' = [row EXCEPT ![e] = [status |-> "published", token |-> @.token,
                                    left |-> -RelayLag]]
      /\ relay' = [relay EXCEPT ![r] = Polling] /\ delivered' = delivered
  BY DEF MarkPublished
<1>3. /\ row'[e].status = "published" /\ \A f \in Events : f # e => row'[f] = row[f]
      /\ relay'[r].pc = "poll" /\ \A q \in Relays : q # r => relay'[q] = relay[q]
  BY <1>1, <1>2 DEF RelayInv, RelayTypeOK, Polling, Holding
<1>4. OnlyInserted'
  BY <1>1, <1>3, RelaysKept DEF AtWork, RelayInv, HoldersAreGranted
<1>5. EventPhase' = [EventPhase EXCEPT ![e] = "published"] /\ EventPhase[e] = "pending"
  BY <1>1, <1>3, PhaseOfRow
<1> HIDE DEF e
<1> QED  BY <1>1, <1>2, <1>4, <1>5 DEF Recorded, Delivery!Publish

(* A relay that ends or starts, a reset, the clock.                        *)
LEMMA AroundRecorded ==
  ASSUME RelayInv, OnlyInserted,
         \/ \E r \in Relays : MarkRefused(r) \/ RelayDies(r) \/ RelayRestarts(r)
         \/ DeleteEvents \/ RelayTick \/ UNCHANGED relayVars
  PROVE  OnlyInserted' /\ Recorded
<1>0. \A r \in Relays : AtWork(r) => relay[r].event \in Events
  BY DEF RelayInv, HoldersAreGranted
<1>1. CASE \E r \in Relays : MarkRefused(r) \/ RelayDies(r) \/ RelayRestarts(r)
  <2>1. PICK r \in Relays : MarkRefused(r) \/ RelayDies(r) \/ RelayRestarts(r)
    BY <1>1
  <2>2. \E rest \in {Polling, Down} : relay' = [relay EXCEPT ![r] = rest]
    BY <2>1 DEF MarkRefused, RelayDies, RelayRestarts
  <2>3. /\ relay'[r].pc \notin {"leased", "printed"}
        /\ \A q \in Relays : q # r => relay'[q] = relay[q]
        /\ row' = row /\ delivered' = delivered
    BY <2>1, <2>2 DEF MarkRefused, RelayDies, RelayRestarts, RelayInv, RelayTypeOK,
       Polling, Down, Holding
  <2>4. OnlyInserted'  BY <1>0, <2>3, RelaysKept DEF AtWork
  <2>5. EventPhase' = EventPhase  BY <2>3 DEF EventPhase
  <2> QED  BY <2>3, <2>4, <2>5 DEF Recorded
<1>2. CASE DeleteEvents
  <2>1. /\ relay' = relay /\ delivered' = delivered
        /\ \A e \in Events : row'[e].status = IF row[e].status = "none" THEN "none" ELSE "gone"
    BY <1>2 DEF DeleteEvents, Absent
  <2>2. OnlyInserted'  BY <1>0, <2>1, RelaysKept DEF AtWork
  <2>3. EventPhase' = [e \in Events |-> IF EventPhase[e] = "none" THEN "none" ELSE "gone"]
    BY <2>1, PhaseOfRow
  <2> QED  BY <2>1, <2>2, <2>3 DEF Recorded, Delivery!Clear
<1>3. CASE RelayTick \/ UNCHANGED relayVars
  <2>1. /\ relay' = relay /\ delivered' = delivered
        /\ \A e \in Events : row'[e].status = row[e].status
    BY <1>3 DEF RelayTick, relayVars
  <2>2. OnlyInserted'  BY <1>0, <2>1, RelaysKept DEF AtWork
  <2>3. EventPhase' = EventPhase  BY <2>1, PhaseOfRow
  <2> QED  BY <2>1, <2>2, <2>3 DEF Recorded
<1> QED  BY <1>1, <1>2, <1>3

LEMMA EventStep == RelayInv /\ OnlyInserted /\ [RelayNext]_relayVars => OnlyInserted' /\ Recorded
<1> SUFFICES ASSUME RelayInv, OnlyInserted, [RelayNext]_relayVars
             PROVE  OnlyInserted' /\ Recorded
  OBVIOUS
<1>1. CASE \E e \in Events : InsertEvent(e)
  BY <1>1, InsertRecorded
<1>2. CASE \E r \in Relays : LeaseOutbox(r) \/ Deliver(r) \/ MarkPublished(r)
  BY <1>2, LeaseRecorded, DeliverRecorded, PublishRecorded
<1>3. CASE \/ \E r \in Relays : MarkRefused(r) \/ RelayDies(r) \/ RelayRestarts(r)
           \/ DeleteEvents \/ RelayTick \/ UNCHANGED relayVars
  BY <1>3, AroundRecorded
<1> QED  BY <1>1, <1>2, <1>3 DEF RelayNext, RelayStep

(* The relays keep the promises of EventLedger: the sink gets what was     *)
(* inserted and nothing else, and mark_outbox_published is a decision that *)
(* no later lease, take-over or death goes back on.                        *)
THEOREM RelaysImplementDelivery == RelaySpec => ImplementsDelivery
<1>1. RelayInit => OnlyInserted /\ Delivery!Init
  BY DEF RelayInit, OnlyInserted, AtWork, Polling, Holding, Absent, Delivery!Init, EventPhase
<1>2. Recorded => [Delivery!Next]_(Delivery!ledgerVars)
  BY DEF Recorded, Delivery!Next, Delivery!ledgerVars
<1> QED  BY <1>1, <1>2, EventStep, RelayInvariant, PTL DEF RelaySpec, ImplementsDelivery, Delivery!Spec

-----------------------------------------------------------------------------
(***************************************************************************)
(* The two tables in one behaviour.                                        *)
(***************************************************************************)
(* Jobs and events share no row: a behaviour of RuntimeTablesMC is one of  *)
(* each table, fairness included, so that every theorem about JobQueue and *)
(* OutboxRelay is one about the composition that the run checks.           *)
THEOREM TablesAreTheirParts == TablesSpec => FairSpec /\ RelaySpec
<1>1. TablesInit => Init /\ RelayInit
  BY DEF TablesInit
<1>2. [TablesNext]_tablesVars => [Next]_vars /\ [RelayNext]_relayVars
  BY DEF TablesNext, tablesVars
<1> QED  BY <1>1, <1>2, PTL DEF TablesSpec, FairSpec, Spec, RelaySpec

(* The two tables of the composition keep the promises of RequestLedger    *)
(* and of EventLedger.                                                     *)
THEOREM TablesKeepTheirLedgers == TablesSpec => ImplementsLedger /\ ImplementsDelivery
BY TablesAreTheirParts, QueueImplementsLedger, RelaysImplementDelivery, PTL DEF FairSpec
=============================================================================
