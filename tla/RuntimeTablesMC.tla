-------------------------- MODULE RuntimeTablesMC --------------------------
(* Two tables of the runtime that processes poll, each with leases of its   *)
(* own: jobs and outbox events. They share no state. A behaviour is one of  *)
(* the table that focus names, while the other stays empty.                 *)
EXTENDS JobQueueMC, OutboxRelay

VARIABLE focus

tablesVars == <<focus, vars, relayVars>>

TablesInit == focus \in {"jobs", "events"} /\ Init /\ RelayInit

TablesNext ==
    /\ UNCHANGED focus
    /\ \/ focus = "jobs" /\ Next /\ UNCHANGED relayVars
       \/ focus = "events" /\ RelayNext /\ UNCHANGED vars

(* No fair step of an empty table is enabled.                               *)
TablesSpec ==
    TablesInit /\ [][TablesNext]_tablesVars /\ Fairness /\ RelayFairness
=============================================================================
