------------------------------ MODULE RunTable ------------------------------
(***************************************************************************)
(* What the agent-run store promises, whatever database is behind it: a    *)
(* table of agent-run rows in which a conversation never has two rows that *)
(* are `queued` or `running` at once.                                      *)
(*                                                                         *)
(* Each operation of the store is one atomic step.  The SQLite provider    *)
(* (src/src/lib/database/sqlite/agent-run.mixin.ts) is exactly this: every *)
(* operation is one guarded statement and the unique partial index on      *)
(* conversationId refuses a second active row.  The MongoDB provider       *)
(* reaches the same promise by a multi-step lock protocol; AgentRunStore   *)
(* models that protocol and is shown to implement this module.             *)
(***************************************************************************)
CONSTANTS
    Runs,       \* row ids; every id is used for at most one row
    Convs,      \* conversation ids
    ConvOf      \* the conversation a run belongs to (fixed when it is created)

VARIABLE row    \* row[r]: the status of run r, "absent" before it is created

ACTIVE_STATUSES == {"queued", "running"}

\* The statuses no store operation ever leaves, "deleted" (the row is gone) included.
TerminalStatuses == {"succeeded", "failed", "canceled"}

Status == ACTIVE_STATUSES \cup TerminalStatuses
            \cup {"absent", "scheduled", "requires_action", "deleted"}

Active(r) == row[r] \in ACTIVE_STATUSES

\* The unique partial index: no other active row has r's conversation.
SlotFree(r) == \A q \in Runs \ {r} : ConvOf[q] = ConvOf[r] => ~Active(q)

Set(r, s) == row' = [row EXCEPT ![r] = s]

-----------------------------------------------------------------------------
Init == row = [r \in Runs |-> "absent"]

\* INSERT of a row; a scheduled row is not active and takes no slot.
CreateAgentRun(r) ==
    /\ row[r] = "absent"
    /\ \E s \in ACTIVE_STATUSES \cup {"scheduled"} :
          /\ s \in ACTIVE_STATUSES => SlotFree(r)
          /\ Set(r, s)

ClaimAgentRun(r) == row[r] = "queued" /\ Set(r, "running")

\* A run that has not started is canceled outright; a running one is only
\* stamped with the request, which the worker acts on (module AgentRunExecution).
RequestAgentRunCancel(r) == row[r] \in {"queued", "scheduled"} /\ Set(r, "canceled")

FinalizeAgentRun(r) ==
    /\ row[r] \in {"running", "requires_action"}
    /\ \E s \in TerminalStatuses \cup {"requires_action"} : Set(r, s)

RequeueAgentRunForResume(r) ==
    /\ row[r] = "requires_action"
    /\ SlotFree(r)
    /\ Set(r, "queued")

PromoteScheduledAgentRun(r) ==
    /\ row[r] = "scheduled"
    /\ SlotFree(r)
    /\ Set(r, "queued")

ExpireWaitingAgentRun(r) == row[r] \in {"queued", "scheduled"} /\ Set(r, "failed")

\* DELETE by id: a refused or released row, or a retained row past its time.
DeleteAgentRun(r) == row[r] \notin {"absent", "deleted"} /\ Set(r, "deleted")

Next ==
    \E r \in Runs :
        \/ CreateAgentRun(r)
        \/ ClaimAgentRun(r)
        \/ RequestAgentRunCancel(r)
        \/ FinalizeAgentRun(r)
        \/ RequeueAgentRunForResume(r)
        \/ PromoteScheduledAgentRun(r)
        \/ ExpireWaitingAgentRun(r)
        \/ DeleteAgentRun(r)

Spec == Init /\ [][Next]_row

=============================================================================
