----------------------------- MODULE PlatformMC -----------------------------
(* Components that share no state, checked in one run: a behaviour is one   *)
(* of the component that focus names, while the others stay where they      *)
(* start, in one of the ways they may.                                      *)
EXTENDS WorkflowRun, ConversationTurns, ToolCalls

VARIABLE focus

platformVars == <<focus, flowVars, turnVars, toolVars>>

PlatformInit ==
    /\ focus \in {"flow", "turn", "tool"}
    /\ FlowInit /\ TurnInit /\ ToolInit
    /\ focus # "tool" => kind = "read" /\ answers = {}

(* Requests are alike, and so are threads: the first call of a behaviour is *)
(* taken to be thread 1 with r1.                                            *)
FirstCall ==
    calls = 0 => \A t \in Threads :
                    thread'[t] = thread[t] \/ (t = 1 /\ thread'[t].req = "r1")

PlatformNext ==
    /\ UNCHANGED focus
    /\ \/ focus = "flow" /\ FlowNext /\ UNCHANGED <<turnVars, toolVars>>
       \/ focus = "turn" /\ TurnNext /\ FirstCall /\ UNCHANGED <<flowVars, toolVars>>
       \/ focus = "tool" /\ ToolNext /\ UNCHANGED <<flowVars, turnVars>>

(* Where a component starts, none of its fair steps is enabled.             *)
PlatformSpec ==
    /\ PlatformInit /\ [][PlatformNext]_platformVars
    /\ FlowFairness /\ TurnFairness /\ ToolFairness

(* Every component is well typed.                                           *)
PlatformTypeOK == FlowTypeOK /\ TurnTypeOK /\ ToolTypeOK
=============================================================================
