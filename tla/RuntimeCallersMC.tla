-------------------------- MODULE RuntimeCallersMC --------------------------
(* The execution runtime under two kinds of callers, in one run: anyone, in *)
(* any order ExecutionSaga allows; or browser_execute with the mock backend *)
(* and two requests for one plan, so that executions are replayed.          *)
EXTENDS BrowserExecutionMC

NoCallYet == record = Fresh /\ \A p \in Processes : call[p] = Idle

AnyCaller ==
  /\ NoCallYet /\ Next
  /\ UNCHANGED <<record, call, posted, landed, shop>>

CallersNext == AnyCaller \/ CallNext

CallersSpec == CallInit /\ [][CallersNext]_callVars

(* The two kinds are not mixed: the first call finds the runtime unused.   *)
(* Two permits are enough for a replay, as the plan is the same.           *)
CallersApart ==
  /\ NoCallYet /\ call' # call => permits = {} /\ epoch = 0
  /\ ~NoCallYet => Cardinality(permits') <= 2

CallersSymmetry == Permutations(Processes) \cup Permutations(Owners)
=============================================================================
