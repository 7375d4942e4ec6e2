--------------------------- MODULE ConversationMC ---------------------------
(* Two parts of the conversation database that share no row: the batches of *)
(* a conversation and its tasks with their questions. A behaviour is one of *)
(* the part that focus names, while the other stays where it starts.        *)
EXTENDS BatchExecutionMC, TaskSessions

VARIABLE focus

conversationVars == <<focus, batchVars, taskVars>>

ConversationInit ==
    /\ focus \in {"batch", "tasks"}
    /\ BatchInit /\ TaskInit
    /\ focus = "tasks" => \A i \in Items : item[i].status = "awaiting_approval"

(* The last message of the conversation is done with.                       *)
NoMoreMessages == begun = MaxMessages /\ InHand = {}

ConversationNext ==
    /\ UNCHANGED focus
    /\ \/ focus = "batch" /\ BatchNext /\ UNCHANGED taskVars
       \/ focus = "tasks" /\ TaskNext /\ UNCHANGED batchVars
       \/ focus = "tasks" /\ NoMoreMessages /\ UNCHANGED <<batchVars, taskVars>>

ConversationSpec == ConversationInit /\ [][ConversationNext]_conversationVars

(* Both parts are well typed.                                               *)
ConversationTypeOK == BatchTypeOK /\ TaskTypeOK
=============================================================================
