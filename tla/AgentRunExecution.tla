------------------------- MODULE AgentRunExecution -------------------------
(***************************************************************************)
(* One background agent run from its queue job to its outcome              *)
(* (src/src/lib/services/agents/agentRunService.ts runAgentJobInTenant,    *)
(* cancelAgentRun, queueAgentRunResume, drainLocalAgentRuns and            *)
(* agentRunReconciler.ts): workers on several nodes that claim it, the     *)
(* turn each one executes, callers that cancel or resume it, and the       *)
(* reconciler that ends it when its worker is lost.                        *)
(*                                                                         *)
(* Each database call is one step.  The turn (agentService.ts) runs beside *)
(* its worker: it looks at its cancellation cell once, and later writes    *)
(* the conversation.  The run row holds the conversation's slot while it   *)
(* is `queued` or `running` (module AgentRunStore), so a turn that writes  *)
(* while the row is neither writes beside whatever took the slot.          *)
(***************************************************************************)
EXTENDS Naturals, FiniteSets

CONSTANTS
    Workers,        \* nodes that take jobs of the run queue
    Resumers,       \* concurrent continuations of a paused turn
    NoWorker,       \* the row's workerId is null
    MaxPauses,      \* bound: how often the turn pauses for a person
    MaxJobs,        \* bound: jobs waiting in the queue
    MaxLosses,      \* bound: jobs the queue loses, and nodes that die
    Interruptions   \* what may end the row while its worker still executes the turn

ASSUME ExecutionAssumption ==
    /\ NoWorker \notin Workers
    /\ MaxPauses \in Nat /\ MaxJobs \in Nat \ {0} /\ MaxLosses \in Nat
    /\ Interruptions \subseteq {"stall", "timeout", "drain", "cancelPaused"}

VARIABLES
    status, gen, owner,     \* the row: status, queueGeneration, workerId
    stale,                  \* is heartbeatAt older than runHeartbeatStaleMs
    cancelAt,               \* is cancelRequestedAt set
    jobs,                   \* jobs of the run waiting in the queue
    keys,                   \* generations whose dedup key the queue has seen
    pc,                     \* pc[w]: where worker w is
    turn,                   \* turn[w]: where the turn it started is
    cell,                   \* cell[w]: the turn's AgentRunCancellationCell
    byCaller,               \* cancelRequestedByCaller
    drain,                  \* drain[w]: how far w's shutdown drain is
    canceler,               \* what cancelAgentRun read
    resumer,                \* resumer[s]: the generation and pause a resume read
    inline,                 \* does a caller continue the paused turn in its own request
    sweep,                  \* has the reconciler listed the run as stale
    pauses,                 \* history: how often the run paused
    losses                  \* jobs and nodes lost so far

row == <<status, gen, owner, stale, cancelAt>>
worker == <<pc, turn, cell, byCaller, drain>>
queue == <<jobs, keys>>
others == <<canceler, resumer, inline, sweep>>
history == <<pauses, losses>>
vars == <<row, worker, queue, others, history>>

Terminal == {"succeeded", "failed", "canceled"}
Status == Terminal \cup {"queued", "running", "requires_action"}

\* "check": claimed, its preconditions not checked yet; "race": waiting for the turn,
\* the ceiling or a cancel; "tail": canceled by the caller, waiting for the turn to
\* come back; a final status: about to write it.
PCs == {"idle", "claim", "check", "race", "tail", "requires_action"} \cup Terminal

\* "call": inside model and tool calls; "answer", "pause": past its look at the cell,
\* about to write the conversation; "answered", "paused", "failed", "dropped": over.
Turns == {"none", "call", "answer", "pause", "answered", "paused", "failed", "dropped"}

InFlight(w) == turn[w] \in {"call", "answer", "pause"}

NotResuming == [gen |-> 0, pause |-> 0]

TypeOK ==
    /\ status \in Status
    /\ gen \in Nat
    /\ owner \in Workers \cup {NoWorker}
    /\ stale \in BOOLEAN /\ cancelAt \in BOOLEAN
    /\ jobs \in 0..MaxJobs /\ keys \subseteq Nat
    /\ pc \in [Workers -> PCs]
    /\ turn \in [Workers -> Turns]
    /\ cell \in [Workers -> {"live", "cancelled", "abandoned"}]
    /\ byCaller \in [Workers -> BOOLEAN]
    /\ drain \in [Workers -> {"no", "ended", "done"}]
    /\ canceler \in {"none", "active", "paused"}
    /\ resumer \in [Resumers -> [gen : Nat, pause : Nat]]
    /\ inline \in BOOLEAN /\ sweep \in BOOLEAN
    /\ pauses \in Nat /\ losses \in Nat

-----------------------------------------------------------------------------
(***************************************************************************)
(* The row and the queue                                                   *)
(***************************************************************************)

\* (a bug) the outcome is written without the compare-and-set
FinalizeByIdOnly(s) ==
    /\ status' = s
    /\ pauses' = IF s = "requires_action" THEN pauses + 1 ELSE pauses

\* finalizeAgentRun: a compare-and-set on running or requires_action, nothing else.
FinalizeAgentRun(s) ==
    IF status \in {"running", "requires_action"}
    THEN /\ status' = s
         /\ pauses' = IF s = "requires_action" THEN pauses + 1 ELSE pauses
    ELSE UNCHANGED <<status, pauses>>

\* (a bug) jobs carry no dedup key
PublishWithoutKey(g) == keys' = keys \cup {g} /\ jobs' = jobs + 1

\* publishAgentRunJob: the queue drops a job whose dedup key it has seen.
Publish(g) ==
    /\ keys' = keys \cup {g}
    /\ jobs' = IF g \in keys \/ jobs = MaxJobs THEN jobs ELSE jobs + 1

Init ==
    /\ status = "queued" /\ gen = 1 /\ owner = NoWorker
    /\ stale = FALSE /\ cancelAt = FALSE
    /\ jobs = 1 /\ keys = {1}
    /\ pc = [w \in Workers |-> "idle"]
    /\ turn = [w \in Workers |-> "none"]
    /\ cell = [w \in Workers |-> "live"]
    /\ byCaller = [w \in Workers |-> FALSE]
    /\ drain = [w \in Workers |-> "no"]
    /\ canceler = "none"
    /\ resumer = [s \in Resumers |-> NotResuming]
    /\ inline = FALSE /\ sweep = FALSE
    /\ pauses = 0 /\ losses = 0

-----------------------------------------------------------------------------
(***************************************************************************)
(* The worker: runAgentJobInTenant                                         *)
(***************************************************************************)
Goto(w, where) == pc' = [pc EXCEPT ![w] = where]

\* The queue hands a job to a worker whose consumer is not paused.
DeliverJob(w) ==
    /\ jobs > 0
    /\ pc[w] = "idle" /\ ~InFlight(w) /\ drain[w] = "no"
    /\ jobs' = jobs - 1
    /\ Goto(w, "claim")
    /\ UNCHANGED <<row, turn, cell, byCaller, drain, keys, others, history>>

\* (a bug) the claim also takes over a running row
ClaimAnyActive(w) ==
    /\ pc[w] = "claim"
    /\ IF status \in {"queued", "running"}
       THEN /\ status' = "running" /\ owner' = w /\ stale' = FALSE
            /\ Goto(w, "check")
       ELSE Goto(w, "idle") /\ UNCHANGED <<status, owner, stale>>
    /\ UNCHANGED <<gen, cancelAt, turn, cell, byCaller, drain, queue, others, history>>

\* claimAgentRun: a compare-and-set on queued; a duplicate delivery ends here.
ClaimAgentRun(w) ==
    /\ pc[w] = "claim"
    /\ IF status = "queued"
       THEN /\ status' = "running" /\ owner' = w /\ stale' = FALSE
            /\ Goto(w, "check")
       ELSE Goto(w, "idle") /\ UNCHANGED <<status, owner, stale>>
    /\ UNCHANGED <<gen, cancelAt, turn, cell, byCaller, drain, queue, others, history>>

\* The service, the agent and the owner are checked; then the turn starts.  A check
\* that throws leaves the row running with nobody behind it.
StartTurn(w) ==
    /\ pc[w] = "check"
    /\ \/ Goto(w, "failed") /\ UNCHANGED <<turn, cell, byCaller>>
       \/ Goto(w, "idle") /\ UNCHANGED <<turn, cell, byCaller>>
       \/ /\ Goto(w, "race")
          /\ turn' = [turn EXCEPT ![w] = "call"]
          /\ cell' = [cell EXCEPT ![w] = "live"]
          /\ byCaller' = [byCaller EXCEPT ![w] = FALSE]
    /\ UNCHANGED <<row, drain, queue, others, history>>

Supersede(w) == cell' = [cell EXCEPT ![w] = IF @ = "live" THEN "cancelled" ELSE @]

\* The heartbeat is written only to a row that is running under this worker; when it
\* is not, the turn is stopped.
Heartbeat(w) ==
    /\ pc[w] \in {"race", "tail"}
    /\ IF status = "running" /\ owner = w
       THEN stale' = FALSE /\ UNCHANGED cell
       ELSE Supersede(w) /\ UNCHANGED stale
    /\ UNCHANGED <<status, gen, owner, cancelAt, pc, turn, byCaller, drain, queue, others, history>>

CancelPoll(w) ==
    /\ pc[w] = "race"
    /\ cancelAt
    /\ cell[w] = "live"
    /\ Supersede(w)
    /\ byCaller' = [byCaller EXCEPT ![w] = TRUE]
    /\ UNCHANGED <<row, pc, turn, drain, queue, others, history>>

\* The race ends with a cancel: the sentinel is there, or the turn came back to a tripped
\* cell.  A drain trips the cell but not the sentinel.
Tripped(w) == cell[w] = "cancelled" \/ (cell[w] # "live" /\ ~InFlight(w))

\* (a bug) a caller's cancel ends the run at once
CancelWithoutTail(w) ==
    /\ pc[w] = "race"
    /\ Tripped(w)
    /\ Goto(w, "canceled")
    /\ UNCHANGED <<row, turn, cell, byCaller, drain, queue, others, history>>

\* A cancel of the caller's keeps the slot until the turn's tail has landed.
CancelObserved(w) ==
    /\ pc[w] = "race"
    /\ Tripped(w)
    /\ Goto(w, IF byCaller[w] THEN "tail" ELSE "canceled")
    /\ UNCHANGED <<row, turn, cell, byCaller, drain, queue, others, history>>

TailLanded(w) ==
    /\ pc[w] = "tail"
    /\ ~InFlight(w)
    /\ Goto(w, "canceled")
    /\ UNCHANGED <<row, turn, cell, byCaller, drain, queue, others, history>>

\* (a bug) the ceiling no longer bounds the wait for a canceled turn's tail
DeadlineOfRaceOnly(w) ==
    /\ "timeout" \in Interruptions
    /\ pc[w] = "race"
    /\ Goto(w, "failed")
    /\ cell' = [cell EXCEPT ![w] = "abandoned"]
    /\ UNCHANGED <<row, turn, byCaller, drain, queue, others, history>>

\* The run's ceiling: the turn is given up, wherever it is.
Deadline(w) ==
    /\ "timeout" \in Interruptions
    /\ pc[w] \in {"race", "tail"}
    /\ Goto(w, IF pc[w] = "tail" THEN "canceled" ELSE "failed")
    /\ cell' = [cell EXCEPT ![w] = "abandoned"]
    /\ UNCHANGED <<row, turn, byCaller, drain, queue, others, history>>

TurnReturned(w) ==
    /\ pc[w] = "race"
    /\ cell[w] = "live"
    /\ \/ turn[w] = "answered" /\ Goto(w, "succeeded")
       \/ turn[w] = "paused" /\ Goto(w, "requires_action")
       \/ turn[w] = "failed" /\ Goto(w, "failed")
    /\ UNCHANGED <<row, turn, cell, byCaller, drain, queue, others, history>>

\* The outcome is written, or was already decided elsewhere.
Finalize(w) ==
    /\ pc[w] \in Terminal \cup {"requires_action"}
    /\ FinalizeAgentRun(pc[w])
    /\ Goto(w, "idle")
    /\ UNCHANGED <<gen, owner, stale, cancelAt, turn, cell, byCaller, drain, queue, others, losses>>

-----------------------------------------------------------------------------
(***************************************************************************)
(* The turn: executeAgentChatLocal, executeAgentResumeLocal                *)
(***************************************************************************)

\* The SDK call came back.  The cell is looked at here, once, and what follows
\* (collecting the outputs, opening the pause) waits on other services.
TurnLooksAtCell(w) ==
    /\ turn[w] = "call"
    /\ \/ cell[w] = "live" /\ turn' = [turn EXCEPT ![w] = "answer"]
       \/ cell[w] = "live" /\ pauses < MaxPauses /\ turn' = [turn EXCEPT ![w] = "pause"]
       \/ cell[w] # "live" /\ turn' = [turn EXCEPT ![w] = "dropped"]
       \/ turn' = [turn EXCEPT ![w] = "failed"]
    /\ UNCHANGED <<row, pc, cell, byCaller, drain, queue, others, history>>

\* updateAgentConversation
TurnWrites(w) ==
    /\ turn[w] \in {"answer", "pause"}
    /\ turn' = [turn EXCEPT ![w] = IF @ = "answer" THEN "answered" ELSE "paused"]
    /\ UNCHANGED <<row, pc, cell, byCaller, drain, queue, others, history>>

-----------------------------------------------------------------------------
(***************************************************************************)
(* Callers: cancelAgentRun and queueAgentRunResume                         *)
(***************************************************************************)
CancelReads ==
    /\ canceler = "none"
    /\ \/ status \in {"queued", "running"} /\ canceler' = "active"
       \/ /\ "cancelPaused" \in Interruptions
          /\ status = "requires_action" /\ canceler' = "paused"
    /\ UNCHANGED <<row, worker, queue, resumer, inline, sweep, history>>

\* requestAgentRunCancel: canceled outright when nothing executes it, else stamped.
RequestAgentRunCancel ==
    /\ canceler = "active"
    /\ canceler' = "none"
    /\ status' = IF status = "queued" THEN "canceled" ELSE status
    /\ cancelAt' = (cancelAt \/ status = "running")
    /\ UNCHANGED <<gen, owner, stale, worker, queue, resumer, inline, sweep, history>>

\* cancelPausedRun
CancelPausedRun ==
    /\ canceler = "paused"
    /\ canceler' = "none"
    /\ FinalizeAgentRun("canceled")
    /\ UNCHANGED <<gen, owner, stale, cancelAt, worker, queue, resumer, inline, sweep, losses>>

\* Every action of the pause is answered: the paused run is read, its generation with it.
ResumeReads(s) ==
    /\ resumer[s] = NotResuming
    /\ status = "requires_action"
    /\ resumer' = [resumer EXCEPT ![s] = [gen |-> gen, pause |-> pauses]]
    /\ UNCHANGED <<row, worker, queue, canceler, inline, sweep, history>>

\* requeueAgentRunForResume and the publish that follows it.  A run that is no longer
\* paused, or whose conversation's slot an inline continuation holds, is not requeued.
ResumeWrites(s) ==
    /\ resumer[s] # NotResuming
    /\ resumer' = [resumer EXCEPT ![s] = NotResuming]
    /\ IF status = "requires_action" /\ ~inline
       THEN /\ status' = "queued" /\ gen' = resumer[s].gen + 1
            /\ owner' = NoWorker /\ cancelAt' = FALSE
            /\ Publish(resumer[s].gen + 1)
       ELSE UNCHANGED <<status, gen, owner, cancelAt, queue>>
    /\ UNCHANGED <<stale, worker, canceler, inline, sweep, history>>

\* Or the caller that answered continues the turn itself: it holds the slot from
\* before the answer is recorded until settlePausedAgentRuns has settled the run.
InlineContinues ==
    /\ status = "requires_action" /\ ~inline
    /\ inline' = TRUE
    /\ UNCHANGED <<row, worker, queue, canceler, resumer, sweep, history>>

InlineSettles ==
    /\ inline
    /\ inline' = FALSE
    /\ \/ status = "requires_action" /\ FinalizeAgentRun("succeeded")
       \/ status = "requires_action" /\ pauses < MaxPauses /\ FinalizeAgentRun("requires_action")
       \/ UNCHANGED <<status, pauses>>
    /\ UNCHANGED <<gen, owner, stale, cancelAt, worker, queue, canceler, resumer, sweep, losses>>

-----------------------------------------------------------------------------
(***************************************************************************)
(* The reconciler                                                          *)
(***************************************************************************)
SweepLists ==
    /\ ~sweep
    /\ status = "running" /\ stale
    /\ sweep' = TRUE
    /\ UNCHANGED <<row, worker, queue, canceler, resumer, inline, history>>

\* worker_lost
SweepFails ==
    /\ sweep
    /\ sweep' = FALSE
    /\ FinalizeAgentRun("failed")
    /\ UNCHANGED <<gen, owner, stale, cancelAt, worker, queue, canceler, resumer, inline, losses>>

\* A queued row no worker picked up is published again, under a key of its own.
Republish ==
    /\ status = "queued"
    /\ jobs < MaxJobs
    /\ jobs' = jobs + 1
    /\ UNCHANGED <<row, worker, keys, others, history>>

-----------------------------------------------------------------------------
(***************************************************************************)
(* Shutdown, loss and time                                                 *)
(***************************************************************************)

\* drainLocalAgentRuns fails the row first and trips the cells after all rows.
DrainEndsRow(w) ==
    /\ "drain" \in Interruptions
    /\ drain[w] = "no"
    /\ pc[w] \notin {"idle", "claim", "check"}
    /\ drain' = [drain EXCEPT ![w] = "ended"]
    /\ FinalizeAgentRun("failed")
    /\ UNCHANGED <<gen, owner, stale, cancelAt, pc, turn, cell, byCaller, queue, others, losses>>

\* The cell is tripped before `abort`, which then does nothing: the worker waits on for its
\* turn or the ceiling.  A sentinel that is there already is taken first (one event loop).
DrainAbandonsTurn(w) ==
    /\ drain[w] = "ended"
    /\ ~(pc[w] = "race" /\ cell[w] = "cancelled")
    /\ drain' = [drain EXCEPT ![w] = "done"]
    /\ cell' = [cell EXCEPT ![w] = "abandoned"]
    /\ UNCHANGED <<row, pc, turn, byCaller, queue, others, history>>

\* The process dies with its worker and its turn.
NodeDies(w) ==
    /\ losses < MaxLosses
    /\ pc[w] # "idle" \/ InFlight(w)
    /\ losses' = losses + 1
    /\ Goto(w, "idle")
    /\ turn' = [turn EXCEPT ![w] = "none"]
    /\ drain' = [drain EXCEPT ![w] = "no"]
    /\ UNCHANGED <<row, cell, byCaller, queue, others, pauses>>

JobLost ==
    /\ losses < MaxLosses /\ jobs > 0
    /\ losses' = losses + 1
    /\ jobs' = jobs - 1
    /\ UNCHANGED <<row, worker, keys, others, pauses>>

\* No heartbeat for runHeartbeatStaleMs: the owner is dead, or its node or the
\* database stalled for that long.
HeartbeatGoesStale ==
    /\ status = "running" /\ ~stale
    /\ pc[owner] = "idle" \/ "stall" \in Interruptions
    /\ stale' = TRUE
    /\ UNCHANGED <<status, gen, owner, cancelAt, worker, queue, others, history>>

-----------------------------------------------------------------------------
\* The steps the code takes by itself, on its own timers.
WorkerStep(w) ==
    \/ ClaimAgentRun(w) \/ StartTurn(w) \/ CancelPoll(w) \/ CancelObserved(w) \/ TailLanded(w)
    \/ TurnReturned(w) \/ Finalize(w) \/ DrainAbandonsTurn(w)

Next ==
    \/ \E w \in Workers :
        \/ DeliverJob(w) \/ WorkerStep(w) \/ Heartbeat(w) \/ Deadline(w)
        \/ TurnLooksAtCell(w) \/ TurnWrites(w)
        \/ DrainEndsRow(w) \/ NodeDies(w)
    \/ CancelReads \/ RequestAgentRunCancel \/ CancelPausedRun
    \/ \E s \in Resumers : ResumeReads(s) \/ ResumeWrites(s)
    \/ InlineContinues \/ InlineSettles
    \/ SweepLists \/ SweepFails \/ Republish \/ JobLost \/ HeartbeatGoesStale

Spec == Init /\ [][Next]_vars

\* Timers fire, the queue delivers and the reconciler ticks.  Nothing is assumed of
\* the turn's model and tool calls, of callers or of the people a pause waits for.
Fairness ==
    /\ \A w \in Workers : WF_vars(WorkerStep(w)) /\ WF_vars(Heartbeat(w)) /\ WF_vars(Deadline(w))
    /\ WF_vars(\E w \in Workers : DeliverJob(w))
    /\ WF_vars(SweepLists) /\ WF_vars(SweepFails) /\ WF_vars(Republish)
    /\ WF_vars(HeartbeatGoesStale)

FairSpec == Spec /\ Fairness

-----------------------------------------------------------------------------
(***************************************************************************)
(* Properties                                                              *)
(***************************************************************************)

\* The run's turn is never executed twice at once, by two workers or by a worker and
\* the request of a caller, whatever the queue redelivers and whoever resumes the run:
\* what the claim's compare-and-set and the inline continuation's slot are for.
OneTurnAtATime ==
    \A w \in Workers :
        InFlight(w) => /\ ~inline
                       /\ \A v \in Workers : InFlight(v) => v = w

\* An outcome, once recorded, stays: a late worker, sweep, cancel or resume finds its
\* compare-and-set failing.
OutcomeIsFinal == [][(status \in Terminal) => (status' = status)]_vars

\* The row gives the conversation's slot up only when no turn of it is in flight: a
\* caller's cancel waits for the turn's tail, so no second turn starts under it.  Four
\* things cut in on purpose: the ceiling, the drain of the turn's own node, the sweep of a
\* stale row and the cancel of a run that was read as paused.
CutsIn(w) == cell[w] = "abandoned" \/ drain'[w] # drain[w] \/ SweepFails \/ CancelPausedRun

SlotOutlivesTurn ==
    [][(status = "running" /\ status' # "running")
        => \A w \in Workers : InFlight(w) => CutsIn(w)]_vars

\* A run that is queued or running always comes to an outcome or a pause, although
\* jobs get lost, nodes die and model calls hang.
RunSettles == (status \in {"queued", "running"}) ~> (status \in Terminal \cup {"requires_action"})

\* A turn writes the conversation only while its run holds the slot: "a late-arriving
\* result here must never overwrite that decision by persisting anyway".
WritesUnderItsSlot ==
    [][\A w \in Workers : TurnWrites(w) => status = "running" /\ owner = w]_vars

\* What is left of it when the ceiling, the drain, the sweep or the cancel of a paused run
\* cut in: a late turn writes after the run's outcome only, never while the run waits for a
\* person or in the queue, or is executed by another worker.
LateWriteAfterOutcome ==
    [][\A w \in Workers : TurnWrites(w) => \/ status = "running" /\ owner = w
                                           \/ status \in Terminal]_vars

\* cancelPausedRun ends a paused run and nothing else: "Null when the run was not
\* paused any more".
CancelPausedEndsPausedOnly ==
    [][CancelPausedRun /\ status' # status => status = "requires_action"]_vars

\* The stale sweep ends running runs and nothing else: a run that paused meanwhile
\* lost no worker.
SweepEndsRunningOnly == [][SweepFails /\ status' # status => status = "running"]_vars

\* A resume continues the pause whose actions were answered, not a later one.
ResumeContinuesItsPause ==
    [][\A s \in Resumers : ResumeWrites(s) /\ status' # status => resumer[s].pause = pauses]_vars

\* A cancel accepted for a running run ends it.
AcceptedCancelEnds == (status = "running" /\ cancelAt) ~> (status \in Terminal)

=============================================================================
