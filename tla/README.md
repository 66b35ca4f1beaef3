# Verification of the agent-run core

This directory specifies the part of the console that executes agent runs in the
background: how a run is admitted, how one conversation is kept to one active run,
how workers, callers and the reconciler share a run, how a paused turn is answered and
continued, how deferred runs are handed out and triggers fire, how an outcome is reported,
and how a call that is routed to another node keeps its live callbacks. The modules are
TLA+; TLC checks them on small instances and TLAPS proves the most important
properties for every size. Source paths are relative to the repository
(`src/lib/...` of the console).

## 1. Inventory

### The system's parts

| Part | State it keeps | Operations | Talks to |
|---|---|---|---|
| Agent-run store, MongoDB (`database/mongodb/agent-run.mixin.ts`) | `agent_runs` rows, `agent_run_locks` documents (conversation slots, Idempotency-Keys) | create, claim, cancel, finalize, requeue, promote, expire, delete, heartbeat, callback bookkeeping | called by every part below |
| Agent-run store, SQLite (`database/sqlite/agent-run.mixin.ts`) | the same rows, a unique partial index | the same, one guarded statement each | same |
| Admission (`agentRunService.ts` `startAgentRun`) | none of its own; the row, the key's lock | key lookup and replay, insert, caps, quota, publish, undo | store, queue, quota |
| Execution (`runAgentJobInTenant`, `agentService.ts`) | the worker's race, the turn, its cancellation cell, the local-run table | claim, check, turn, heartbeat, cancel poll, ceiling, finalize, drain | store, queue, model and tool calls |
| Pending actions (`agentActionResolution.ts`, `agentPendingActions.ts`, `queueAgentRunResume`) | `agent_pending_actions` rows, the stored `pausedSnapshot`, the conversation's `runtimeStatus` | open a pause, answer, undo, re-open, expire, withdraw, resume in the background or in the caller's request | store, queue, model calls |
| Deferred runs (`dispatchDeferredRuns`, the claim guard) | none; the rows and the minute's dedup keys | count and admit, hand out within the running cap, claim | store, queue |
| Triggers (`agentTriggerScheduler.ts`, `agentTriggers.ts`) | `nextFireAt` and `lastFire` of a trigger, `scheduler_claims` | tick, claim a slot, move on, fire, record, edit, clean up | admission, store |
| Reconciler (`agentRunReconciler.ts`) | none; a tick on every node | sweep stale runs, republish, promote, dispatch, expire, sweep timed-out actions, redeliver callbacks, retention | store, queue |
| Callbacks (`fireAgentRunCallback`, `deliverAgentRunCallbackJob`, `client-agent-runs.ts`) | `callbackStatus`, `callbackEventId`, `callbackAttempts`, callback jobs | hold back, fire, deliver, retry, settle, redeliver | receiver's HTTP endpoint |
| Job queue (`core/queue`) | jobs, dedup keys | publish, deliver, retry, stall | workers |
| Cluster relay (`core/cluster/streamRelay.ts`, `serviceRouter.ts`) | followed execution, buffered frames, ready and end waits | invoke, replay, cancel, finish | Redis pub/sub, queue |
| Node registry and assignment, runtime pool, lifecycle, resilience, cache | heartbeats, rows, pooled clients, breaker state | register, assign, evict, shut down, trip | everything |
| Webhooks, session events, quota, crawler, RAG, guardrails, providers, auth, dashboard | see `PROJECT.json` | | |

`PROJECT.json` lists every part with its status and the reason where it is not modelled.

### What is hard

Nothing in the run core happens in one place. A run row is written by the request that
creates it, a worker on any node, a request that cancels it, a person's answer that
resumes it, a shutdown drain and a reconciler on every node, and each decides on a read
it made earlier. On MongoDB there are no transactions: the conversation's slot is a
second document, written in a second call, and a process may die in between. Jobs are
delivered twice, late or not at all. A cap, a due slot and an open request are looked at in
one call and acted on in another, on several nodes at once. The turn itself cannot be killed: it looks at a cell
once and writes later. `PROJECT.json` lists these hazards one by one, at the line where
each bites, with the property that covers it.

What makes each part correct:

- **store**: a conversation has at most one active run, whoever dies wherever; every
  operation looks like one atomic step of a table.
- **execution**: a turn is never executed twice at once, an outcome is never overwritten,
  the slot is kept until the turn is over, and no run is left without an end.
- **admission**: a burst cannot exceed the cap, an Idempotency-Key has one run, and a
  caller that retries is served in the end, whatever the first request left behind.
- **deferred runs**: no burst gets past the cap on waiting runs, and a waiting run starts
  although its job may be skipped, dropped or lost.
- **pending actions**: an answer is applied by one stored turn, a pause that is answered in
  full goes on, and a run does not wait for a pause that is gone.
- **triggers**: a slot starts one run at most, on however many nodes, and no dead node
  leaves a trigger on its slot.
- **callbacks**: "delivered" means received; a caller that was answered is not called back
  as well; every outcome is reported.
- **relay**: the callbacks hear one execution, all of it, before the result; an abort stops
  the job.

## 2. Modules

| Module | Models | Proofs in |
|---|---|---|
| `RunTable` | the contract of the store: one atomic step per operation (the SQLite provider is this) | |
| `AgentRunStore` | the MongoDB provider's lock protocol, one step per database call; refines `RunTable` | `AgentRunStoreProofs` |
| `AgentRunExecution` | one run from its job to its outcome: workers, turns, callers, reconciler, drain | `AgentRunExecutionProofs` |
| `AgentRunAdmission` | `startAgentRun` over the idempotency locks, and promotion | `AgentRunAdmissionProofs` |
| `AgentRunCallback` | the callback of one run | `AgentRunCallbackProofs` |
| `StreamRelay` | both ends of the relay of one routed call | `StreamRelayProofs` |
| `AgentRunDispatch` | runs of the class `deferred`: their admission, the dispatcher, the claim guard | `AgentRunDispatchProofs` |
| `PendingActions` | the pauses of one conversation and everyone who ends them, over `RunTable` | `PendingActionsProofs` |
| `TriggerScheduler` | one trigger, the nodes' ticks, its fires and edits; refines `SlotDispatch` | `TriggerSchedulerProofs` |
| `SlotDispatch` | what a replicated scheduler promises of its slots | |
| `MCAgentRunStore`, `MCAgentRunAdmission`, `MCPendingActions`, `MCTriggerScheduler` | the constant functions of their instances | |

Definitions marked `(a bug)` are mutated forms of an action; no `Next` uses them. They
document which mistake in the code each property catches.

### AgentRunStore

`row` is `agent_runs.status`, `lock` the conversation's document in `agent_run_locks`
(absent, unbound, or bound to a run), `aged` whether it is older than
`ORPHAN_LOCK_GRACE_MS`. A caller `p` is at database call `pc[p]` of operation `op[p]` on
`run[p]`; `seen` and `fresh` are the `runId` and `createdAt` it read, which its
compare-and-set compares. `acquireAgentRunLock` is `InsertLock`, `ReadLock`, `ReadHolder`,
`ReclaimLock`, `LoseReclaim`; the row write under the lock is `WriteRow` / `WriteRowFails`,
`bindAgentRunLock` is `BindLock` / `BindFails`; operations that end a run write the row
(`FinalizeRun`, `CancelRun`, `ExpireRun`, `DeleteRun`) and then `ReleaseLock`. `CanFail` adds
the death of a caller between any two calls, failing writes and a failing read of the holder;
`CanPause` adds `requires_action`; `PartialIndex` is the index that Cosmos DB rejects.

Abstracted: the records carry no Idempotency-Key (that lock is in `AgentRunAdmission`); the
refused insert of a lock and the read of it are one step (a lock that disappears between
them sends the caller back to the insert in the code, which is another order of the same
steps); row fields other than the status.

### AgentRunExecution

The row (`status`, `queueGeneration` as `gen`, `workerId` as `owner`, `heartbeatAt` as
`stale`, `cancelRequestedAt` as `cancelAt`), the queue (`jobs`, the dedup `keys`), and per
worker `w`: where `runAgentJobInTenant` is (`pc`), where its turn is (`turn`), the turn's
cancellation `cell`, `cancelRequestedByCaller` as `byCaller`, and the shutdown `drain`. The
turn runs beside its worker: `TurnLooksAtCell` is the one check after the SDK call,
`TurnWrites` is `updateAgentConversation` after further awaits. A cancel ends the race when its
sentinel is there or the turn comes back to a tripped cell (`Tripped`); a drain trips the cell before
it aborts, so no sentinel follows and the worker waits for its turn or the ceiling. `canceler`, `resumer`,
`inline` and `sweep` hold what `cancelAgentRun`, `queueAgentRunResume`, a continuation in the
caller's request and the reconciler have read and not yet acted on.

### AgentRunAdmission

Each request is one call of `startAgentRun` with at most one row. `pc` follows the code:
`lookup`, `lockKey`, `reclaim`, `repoll`, `insert`, `bind`, `cap`, `quota`, `publish`, and `delete`,
`release` when it is refused. `keyLock` is the key's lock document, `aged` whether it has been unbound for
longer than `ORPHAN_LOCK_GRACE_MS`: `LockKey` inserts or reads it, `ReclaimKey` is the compare-and-set on
an old unbound one, `BindKey` binds it to the row or, when that throws, deletes the unbound document and
leaves the row, `ReleaseKey` frees it after the row of a refused request was deleted.

What goes wrong is counted and bounded. `Cut` stops a call before any of its database calls, a dead
process or a call that throws where nothing is undone (the swallowed failure of the release is the cut
before it); `MaxCuts` bounds it. A slip of a key is a bind that fails or an unbound lock that passes its
60 seconds under a call which is between its lock and its bind (`Outlast`); `MaxSlips` bounds it. Without
a slip a lock ages only when no call that could still use it is at work (`Hurried`), since those calls
need a few milliseconds between their two or three database calls. `Retry` is a caller that was told that
its key is taken.

`FindRoom` and `Promote` are the count and the promotion of a reconciler's sweep;
`Sweeps` are those that may run at once, since the sweep at a node's boot takes no lock
(`agentRunReconciler.ts:446`), a tick's lock ends after five minutes and the null cache grants it to
everybody. The
caps of tenant and project are one cap. `RepollKey` gives up only when no request with the
key is between its lock and its insert, or the key has had a slip: the wait (`IDEMPOTENCY_REPOLL_ATTEMPTS` times its
delay) is taken to be longer than that gap.

### AgentRunDispatch

`row` is the status of a deferred run, numbered in the order of its `createdAt`; `submit` is where
its `startAgentRun` is, `tally` the answer of the first of the two queries of
`countAgentRunsByStatus` (`FirstCount`, then `CountWaiting` with the quota). `jobs` is the deferred
queue and `used` the dedup keys of the current minute, which `MinutePasses` clears.
`dispatchDeferredRuns` is `ListDue` and one `Publish` per listed run, called (`CallDispatcher`) at the end
of the actions that call it and on a reconciler's tick. `Guard` is the delivery of a job with the
worker's count, `ClaimRun` its compare-and-set, `EndTurn` the outcome or the pause with the call
of the dispatcher. `Resume`, `EndWaiting`, `Promote` and `SweepStale` are the others who write a
deferred row.

Abstracted: every run has a conversation of its own (busy conversations are `AgentRunStore`'s
subject); the dispatcher's count and list are one step, and a delivery with its guard; the outcome is
one status; a call of the dispatcher that finds all of `Calls` busy counts as lost.
`ImplementsRunTable` maps the rows to `RunTable` with a conversation per run, the one outcome to
`canceled`.

### PendingActions

`act` is a request's status, `snapshot` the requests of the stored `pausedSnapshot`, `runtime` and
`owner` the conversation's `runtimeStatus` and `runtimeTurnId`, `row` the run rows, written by `RunTable`'s
steps only. An actor `p` is at `me[p].pc` with what it has read: an answer (`BeginAnswer`, `Reserve`,
`RecordAnswer`, `WriteCopies`, `ListOpen`, `FindOwner`, `QueueResume`, with `Conflict`, `UndoAnswer` and
`ReopenAnswer` when it is refused), the timeout sweep (`SweepLists`, `HandleOne`, `HandledAll`,
`SweepListsOpen`), a new message (`BeginMessage`, `Look`, `MarkRunning`, `HandleOne`, ...) and a cancel
(`BeginCancel` reads the paused run, `CancelPausedRun` ends what it read, running or paused); the last
three drop the pause by `DropPausedSnapshot`, and sweep and message then list the paused runs once
(`ListPausedRuns`) and end them one by one (`EndListedRun`). `turn[r]` is the continuation that run `r`
executes: `Load`, then `StoreTurn`, which opens the next pause or ends, or `FailTurn`; `Superseded` when the
row was ended under it. `ImplementsRunTable` says that these steps, put together by the actors, still are
steps of that table. `spent` records what a stored turn has applied.

`MaxFaults` bounds what fails: a model call or a call that stores the turn (`FailTurn`), the swallowed
failures of saving the state and of the session's status (`StoreTurn`), a worker that dies between any two
of the calls that store its turn (`LoseWorker`), a call that throws after an answer was recorded and before
the continuation is queued, such as `assertAgentsEnabled` (`CallThrows`), a sweep cut short, a finalize that
throws. `lapses` keeps what nobody in the code makes up for, and the properties name it:

| Lapse | What happened |
|---|---|
| `unqueued` | answers are recorded, the continuation was not queued, and nobody took the answer back |
| `lost` | the continuation's worker died, or found it refused, before the session said running |
| `unended` | the call that ends a paused run failed after its pause was dropped |
| `overtaken` | a run that was read as paused was ended as `running`, under its turn |
| `unsaved` | a turn's message is stored and its state, with or without the next pause, is not |
| `unmarked` | a stored turn's end is not in the session |

`overtaken` is not a corner of the model. With two answers in the background and one cancel: the first
answer queues the paused run, whose worker loads the pause; the cancel, which had read the run as paused,
ends it; the second answer queues a new run, which loads the same pause; now the first turn stores its reply,
and the second applies answers that are spent. It needs no fault.

Where nothing fails the calls that store a turn are one step. The turn holds the conversation's slot, so
that an answer which comes in between only meets a conflict or waits, a message or an inline answer is not
admitted, and a cancel finds a running run or is late. Where something fails they are four:
`StoresUpTo` says how far they got.

Abstracted: what an answer says; requests of sub-agents; reminders. A request answers once. An
action times out (`ExpiryPasses`) only once its pause is stored.

### TriggerScheduler and SlotDispatch

One trigger, minutes as time. A node's tick is `ListDue`, `Plan`, `ClaimSlot`, `MoveOn`,
`FireTrigger`, `RecordFire`, each a database call, on the copy and the clock reading the tick
began with; `Skip` moves past missed slots. `ReadTrigger` and `SaveTrigger` are
`updateAgentTrigger`, which computes `nextFireAt` from what it read. `takes` and `starts` count the won
claims and the started runs of a slot. A schedule is its set of slots, which is all that
`nextCronFire` and `latestCronSlot` are asked about.

`ClaimOutlivesSlot` (grace plus the longest tick at most the claim's life) is an assumption on the
operator's settings: `CLAIM_TTL_MS` is 24 hours, `AGENT_TRIGGER_MISFIRE_GRACE_MS` one hour by default, and
`config.ts:686` does not bound it. The idempotency keys of started runs are kept for the modelled
horizon, as their rows are.

### AgentRunCallback

`cb` is the row's callback bookkeeping. `Fire` is the executor's decision on the row its
transition returned; `Record`, `Touch` and `Enqueue` are the steps of
`fireAgentRunCallback` and `redeliverAgentRunCallback`; `Deliver` and `StoreResult` are
`deliverAgentRunCallbackJob` before and after the post. `WaitEnds`, `ReadHold`, `SettleHold`
and `Handover` are `waitForAgentRun` and `settleWaitedRunCallback`; `Sweep` is
`listAgentRunsWithUndeliveredCallbacks` and what the reconciler does with it on a tick. `BootSweep` is the same at a
node's boot, which takes callbacks up at once, one that a live call on another node holds back as well;
`lifted` records that. `SettleFails` is a settling that throws: it is logged, the caller is answered
and the row stays `waiting`. `Faults` names what may go wrong (a node, a job, a write, a boot), `MaxFaults`
bounds how often. The three final
statuses are one outcome; the receiver accepts or refuses a post.

### StreamRelay

Frames of one execution keep their order (one connection), so `sent[r]` and `heard[r]` count
them; frames of two executions and the result overtake each other freely. `OnFrame` is the
caller's frame handler, `Finish` and `Timeout` the two ends of `invokeRemote`, `LoseLock` and
`Die` a stalled job that runs on and one whose node dies. `PublishFails` loses one frame and
`CancelFails` a cancel, both of which the code logs; `gaps` and `cancelLost` remember them and `MaxFaults` bounds
them. The grace periods of
`CallerRelay.finish` are taken to be longer than the way of the completed execution's frames.

## 3. Runs

Passing:

| Run | Checks | Instance |
|---|---|---|
| `store_index` | `ImplementsRunTable` | 2 callers, 2 runs of 1 conversation, index, deaths, failures and pauses; 856,000 states |
| `store_locks` | `OneActiveRunPerConversation`, `ActiveRunHoldsSlot`, `ImplementsRunTable` | 2 callers, 3 runs of 1 conversation up to symmetry, no index, nothing pauses or dies; 154,000 states |
| `exec_all` | `OneTurnAtATime`, `OutcomeIsFinal`, `SlotOutlivesTurn`, `LateWriteAfterOutcome`, `RunSettles` | 2 workers, 1 resumer, 1 inline continuation, 1 pause, 2 jobs, 1 loss, every interruption; 260,000 states |
| `admit` | `AdmittedWithinCap`, `StartedNearCap`, `OneRunPerKey`, `RetryIsServed` | 4 requests (2 alike, 1 scheduled), 1 sweep, cap 1, 1 cut, 1 slip; 352,000 states |
| `callback_safe` | `DeliveredMeansReceived`, `AnsweredOutcomeNotCalledBack` | 1 waiting call, 2 generations, 2 jobs, refusals, 1 dead node, lost job or failed write; 1.8 million states |
| `callback_live` | `AnsweredOutcomeNotCalledBack`, `OutcomeReported` | 1 waiting call, no pause, 2 faults of any kind, boot sweeps too; 46,000 states |
| `relay` | `OneRunReplayed`, `EveryChunkBeforeResult`, `CancelStopsTheJob` | 2 executions, 1 chunk, mute relay, timeout, 1 failed publish; 359,000 states |
| `dispatch` | `WaitingWithinCap`, `DeferredRunStarts` | 2 runs, the younger one scheduled and pausing once, 2 workers, 1 call of the dispatcher beside 1 reconciler, caps of 1, 1 fault; 610,000 states |
| `pending` | `AppliedOnce`, `ImplementsRunTable`, `AnsweredPauseContinues` | a pause of 2 requests, 1 inline and 1 background answer, 1 sweep that denies, 1 fault; 272,000 states |
| `pending_withdraw` | `PausedRunEnds` | 2 pauses of 1 request (1 client tool), 1 sweep that cancels, 1 new message, 1 cancel, 1 fault; 192,000 states |
| `trigger` | `SlotRunsOnce`, `ImplementsSlotDispatch`, `TriggerMovesOn` | 2 nodes, a cron of 2 slots or a one-shot, 1 edit, 1 crash, switch or Run now, 5 minutes; 301,000 states |

Each component's `TypeOK` is checked once along with them.

Why the bounds suffice. The hazards are races of two actors around one row, plus one
observer: two callers reclaim one lock, two workers meet one job, two requests share a key.
By the locks alone the store
needs three runs: one that ended and whose lock is released late or reclaimed, one that took
the slot, and one that gets in beside it (with two, a blind release or reclaim harms nobody).
With the index every second active row is refused where it is written, and pauses and deaths
make two runs enough to reach each way of losing a lock. One pause gives the run a second
generation, which is what a stale job, a stale resume and a stale callback can confuse; two
requests that are alike, one that is not and one that is scheduled meet a cap of one and a
sweep in every order. One cut-off call is enough to leave a lock without a run, a row without its bind, or a key bound
to a deleted run, and one slip to let a second request in. Two requests of a
pause are what "the last answer" needs, three actors that end the wait meet each other in every
order, and `pending_withdraw` goes on to a second pause, so that one of them can act late on the next. One
fault (a call, a turn or a worker) can hit any of their steps. Two slots, a claim that lives two minutes and a clock of five let a slot be missed, caught
up with, claimed, cleaned up and looked at again. Two deferred runs with caps of one make every
second one wait, be skipped by the guard and be handed out again. Runs and callers
of `store_locks` are interchangeable (one conversation, no run or caller named by any
formula), so their symmetry is sound. For the safety properties the proofs (section 5) remove
the bound altogether.

Deadlock is not checked: every model uses up a finite pool (run ids, requests, faults) and a
run, a call or a relay that is over really does nothing more. That nothing gets stuck before
is what `RunSettles`, `RetryIsServed`, `OutcomeReported`, `CancelStopsTheJob`, `DeferredRunStarts`,
`AnsweredPauseContinues`, `PausedRunEnds` and `TriggerMovesOn` say.

**Fairness.** `exec_all` assumes the steps the code takes by itself: a worker's own code, its
heartbeat, cancel-poll and ceiling timers, a queue that delivers, and the reconciler's tick,
which is on every node. Nothing is assumed of model or tool calls, of callers, or of the people a
pause waits for, so a hanging model call is allowed and the ceiling must end it. `admit` assumes
that a call which is not cut off goes on, that a caller whose key was taken retries, and that an
unbound lock grows old. `callback_live`
assumes the senders, the callback workers, the waiting call's timeout and the reconciler;
not that a receiver accepts. `relay` assumes that pub/sub delivers to who listens, that the
queue hands out the job, and that a handler whose signal is aborted comes back; no handler
ends by itself. `dispatch` assumes that the reconciler's tick and its sweep recur, that
each worker goes on (the ceiling ends its turn at the latest) and that minutes pass; not that the
dispatcher is ever called otherwise, and nothing of callers. `pending` and `pending_withdraw` assume
that a request that has begun goes on and that the rows' continuations are claimed and end (by
their ceiling); nobody has to answer, send or cancel. `trigger` assumes that the timers of the
nodes fire and their calls return. All of it is weak fairness.

Not passing, and why:

| Run | Property | The line | What happens |
|---|---|---|---|
| `pending_reopen` | `SpentStaysAnswered` | `agentActionResolution.ts:781`: "Puts every answered action of the current pause back to `pending`" | `reopenAnsweredActions` lists every resolved action of the conversation; a refused continuation of the second pause re-opens the answers of the first, which a stored turn has used |

Further counterexamples, each with a configuration of its own, kept for whoever changes the
code there. None of these instances passes; four of the statements (`OneActiveRunPerConversation`,
`AnsweredOutcomeNotCalledBack`, `OutcomeReported`, `PausedRunEnds`) do pass in the more restricted
instances above, and the table says what these configurations add that breaks them:

| Configuration | Property | What happens |
|---|---|---|
| `store_locks_pause.cfg` | `OneActiveRunPerConversation` | without the index: a pause writes the row and releases the lock in a second call; the same run is resumed in between, so the late release (which matches `runId`) deletes the lock of the active run (`agent-run.mixin.ts:111-113`: the guarantee "must not depend on" the index) |
| `store_conflict.cfg` | `ConflictMeansSlotTaken` | a reclaim lost to a release answers "conflict" although the slot is free |
| `exec_lost_cancel.cfg` | `AcceptedCancelEnds` | a cancel stamped as the turn pauses is cleared by the resume (`docs/guide/agent-background-execution.md:165`) |
| `exec_late_write.cfg` | `WritesUnderItsSlot` | the turn is past its look at the cell when the ceiling frees the slot (`agentService.ts:6194-6198` says a late result "must never overwrite that decision") |
| `exec_cancel_paused.cfg` | `CancelPausedEndsPausedOnly` | the run is resumed between the read and the finalize, which also accepts `running` (`agentRunService.ts:1484-1485`) |
| `exec_sweep_paused.cfg` | `SweepEndsRunningOnly` | the run pauses between the listing and the sweep's finalize (`agentRunReconciler.ts:170`) |
| `exec_stale_resume.cfg` | `ResumeContinuesItsPause` | the second of two continuations arrives after the run has paused again |
| `admit_alike.cfg` | `IdenticalRequestsDoNotConflict` | the first of two identical requests is refused after it took the key; the second finds the key taken, then no row (`docs/guide/agent-background-execution.md:146`) |
| `admit_replay.cfg` | `ReplayedRunStays` | a replayed run is deleted by the first request's refusal |
| `admit_promote.cfg` | `PromotionWithinCap` | requests are admitted between the reconciler's count and its promotion |
| `callback_paused_answer.cfg` | `AnsweredStateNotCalledBack` | a caller answered with a pause is called back with it when the run moves on (`docs/guide/agent-background-execution.md:180`) |
| `callback_two_calls.cfg` | `AnsweredOutcomeNotCalledBack` | two calls wait on one run; the first to end settles the hold of both |
| `callback_disconnect.cfg` | `DisconnectedCallerIsCalledBack` | a disconnect as the run ends counts as answered (`docs/guide/agent-background-execution.md:180`) |
| `callback_lost_outcome.cfg` | `OutcomeReported` | a node dies between the outcome and its callback; the row still says `delivered`, of the pause's event (`docs/guide/agent-background-execution.md:188`) |
| `dispatch_cap.cfg` | `RunningWithinCap` | two workers pass the guard before either claims: an older run is promoted or resumed while another's worker is between its count and its claim (`agentRunService.ts:1889`: the cap "holds even when two nodes got a job each") |
| `dispatch_refused.cfg` | `RefusedIsNotExecuted` | a deferred row is `queued`, and handed out, before its cap and quota are looked at; its request is refused and its row deleted while it executes |
| `pending_undo_race.cfg` | `AppliedStaysAnswered` | an answer that met a busy conversation is taken back while the continuation that keeps it busy applies it |
| `pending_lost_reply.cfg` | `MessagesKept` | the copies of an answer are written into the messages as they were read; a reply stored in between is lost |
| `pending_limbo.cfg` | `AnsweredPauseAlwaysContinues` | the timeout resolves the last request, meets a busy conversation and leaves; nobody continues the pause (nor does anybody when `queueAgentRunResume` throws, `agentRunService.ts:1354`, after the answer was recorded) |
| `pending_early_answer.cfg` | `PausedRunEnds` | the answer looks for the paused run before its worker has marked it so, and queues a run of its own; the first one stays `requires_action` for good |
| `trigger_catch_up.cfg` | `LatestSlotOnly` | a slow node fires the slot it planned after another has caught up with a later one (`agentTriggerScheduler.ts:13-15`, `docs/guide/configuration.md:388`) |
| `trigger_off_schedule.cfg` | `FiresItsSchedule` | an edit saves another schedule and the same `nextFireAt` while a node has planned; the node's compare-and-set still matches and moves the trigger to a slot of the old schedule |
| `relay_stale_end.cfg` | `EveryChunkAlways` | the `end` of another execution ends the wait (`streamRelay.ts:24-30`) |
| `relay_cancel_timeout.cfg` | `NoCancelIsLost` | the relay is closed by a timeout before the worker subscribed, so the abort is not repeated |

`EveryChunkBeforeResult`, `CancelStopsTheJob`, `SlotOutlivesTurn`, `LateWriteAfterOutcome`,
`StartedNearCap` and `callback_safe`'s one caller are the parts of these statements that do hold. For several
of them section 5 proves under which condition the statement holds as it stands, that is, what the
counterexample cannot do without.

## 4. Which mistakes the properties catch

Every property of a passing run is violated by at least one mutated form of the code, listed
under `mutants` in `PROJECT.json`: a reclaim without compare-and-set, a release by `_id` only, a
finalize by id only, a claim that also takes a running row, a cancel that does not wait for the
turn's tail, a count that leaves the own row out, a key lock that is never reclaimed, a callback result stored
whatever the row waits on, a relay that replays every execution, a stored turn that keeps the pause it
continued, a continuation queued beside an active run, a conflict that keeps the answer, a withdrawal that ends no run, a slot key made of the
tick's time, a claim that lives as long as its slot, only the winner moving a trigger on, a dedup
key without its minute.

## 5. Proofs

Assumptions are the named `ASSUME`s of the modules: the types of the constants, that the
markers (`NoLock`, `Unbound`, `None`, ...) are no runs, that the sets of requests and of deferred
runs are finite, that the requests of two pauses differ, and `ClaimOutlivesSlot`. No set is bounded
otherwise. Some theorems carry a condition of their own (`ASSUME ... PROVE`); it is named with each
below. These are not claims about every deployment: each pairs with a counterexample of section 3 and
says which actor or interruption that one needs.

**Store.** `TypeCorrect`. `StoreImplementsRunTable` and `OneActiveRun` hold when `Guarded`: the
index exists, or nothing pauses and nobody dies. With the index the refinement is a
statement about `WriteRow`, whose guard is the index. Without it one needs `LockInv`, proved
inductive (`LockInvariant`): a caller between taking and binding a lock is its only owner; an
unbound lock has an owner; an active run is named by its lock or its writer is about to bind it;
and a caller that judged a holder ended still is right, since an ended run stays ended. That
last fact is exactly what a pause breaks, and why `store_locks_pause.cfg` fails.
`ActiveRunsHoldSlots` is the part of it that `store_locks` checks.

**Execution.** `ExecutionTypeCorrect`, `OneTurn`, `OutcomeStays`, `SlotKept`, with no restriction on
the number of workers, resumers, pauses or losses and with every interruption allowed. `OneTurn`
is not inductive; `TurnInv` adds that a worker with a turn in flight is the row's owner or the row is
over for good, that an inline continuation excludes a queued or running row, and that a worker about
to record a pause has a paused turn. `SlotKept` rests on `SlotInv`, which says why a
worker that is about to write an outcome has no turn in flight unless the ceiling or its drain
gave it up. `LateWritesAfterOutcome`, from `TurnInv`: a turn that writes outside its slot writes
after the run's outcome, never while the run is queued, waits for a person or is another worker's.

Three conditional theorems. `SweepEndsRunning`, when no heartbeat stalls under a live worker
(`"stall" \notin Interruptions`), by `LostInv`: a stale running row then has an owner that is idle and
without a turn, so nobody is left who could pause it between the sweep's listing and its write; the
second clause, that a turn left behind by its worker belongs to a run that is over, is what makes it
inductive. `CancelEndsPaused`, without background resumes (`Resumers = {}`), by `ReadPausedInv`: what was
read as paused is paused or over. An inline continuation alone does not break it, since it leaves the row
paused until its end. `QuietTurnsWriteUnderTheirSlot`, when `Interruptions = {}`, by `QuietInv`
and `LostInv`: from the claim to the end of the turn the row is running under its worker; duplicate
and lost jobs, dead nodes and callers' cancels are all allowed. `ResumeContinuesItsPause` has no such
theorem: one resumer and one inline continuation are enough to break it.

**Admission.** `AdmissionTypeCorrect`; `OneRunForAKey` by `KeyInv`, which counts: the claims on a key are its live
runs and the calls between their lock and their insert; they are at most one and one more for each slip, and at
most one for each slip while the lock can be taken or was left by a run that is gone. The exception that makes it
inductive is a call cut off between its insert and its bind: its lock can be reclaimed beside a live row, but
everyone who comes to that lock by then has looked for the row and found it. `NoSecondRun`: without slips
(`MaxSlips = 0`) a key has one run, whatever is cut off and whatever releases are lost. `CapHolds` by `CapInv`. The cap
argument is not "count then insert": every admitted run counted after its own insert, so when the
last one counted, all the admitted ones were among the rows it saw. `PromotionOvershoot` by `NearInv`:
the runs that were let start and the sweeps that found room add up to at most the cap, the number of
sweeps and the number of calls cut off. The sum is needed: each promotion moves one from the second set to the first, and whoever
counts puts the first below the cap again.

**Deferred runs.** `DispatchTypeCorrect`; `WaitingCapHolds`. The argument of `CapHolds` fails here: a
count is two queries, others are accepted between them, and no accepted run need have seen all
the others. `YoungestInv` says that some inserted run is as young as every admitted one and had no
more than the cap of elders (itself included) still waiting as inserted; `TallyInv`, that the first
query of a run saw at least what is left of its elders of that status. A promotion between the two
queries is seen by neither, which is why the property counts the runs that wait as they were
inserted. `DispatchImplementsRunTable`: whoever writes a deferred row does it as the store allows, so no
job left in the queue brings back a run that was refused or ended; `HasRow` (a row is absent only
before its insert, deleted only by its own refused request) is what the insert and the refusal need.
It has its theorem and no run: beside `DeferredRunStarts` the refinement would double the run's time.
`RunningOvershoot`, for finitely many workers, by `RunningInv`: the running runs and the workers past
the guard are fewer than the cap and the workers together. With one worker that is the cap
(`OneWorkerKeepsTheCap`); with two, `dispatch_cap.cfg` reaches one above it, so the bound is met.

**Pending actions.** `TypeCorrect`; `AnswersAppliedOnce` by `AppliedInv`: a turn is that of a running
run, the conversation has one active run (`RunTable`'s slot), and what the stored pause asks for
has not been applied. Storing a turn drops or replaces the pause, so a late
continuation finds nothing to load; that goes for every number of answers, sweeps, messages, cancels and
faults, until a run is overtaken or a stored turn's state is not saved, and the property excepts these two. `PendingImplementsRunTable`: every step of an answer, a sweep, a
message, a cancel or a worker is a step of `RunTable` or leaves the rows alone. The one clause it needs
is `NoRowYet`, that a request has no row before it reserves; it rests on `MayGo`, which says where an
actor may go from where it is. `InlineAnswersStayAnswered`, when no answer is given in the background
(`Background = {}`), by `NobodyUndoes`: of the two places that take an answer back, one is then reached
by nobody and the other only by the request that holds the conversation's slot, when its own turn is over.
Once a run was overtaken two turns may be under way, and the theorem says no more.

**Triggers.** `TypeCorrect`; `SlotsRunOnce` and `SchedulerImplementsDispatch` by `IInv`: a tick is no
older than `MaxStall` and claims no slot outside its grace, so a slot that was taken is still claimed
or too old for anybody to plan. For the one-shot that is saved again after its fire the
idempotency key is the last resort (`KeyOfRun`). `UneditedFiresItsSchedule`, when nobody saves the
trigger (`Editors = {}`), by `ScheduleInv`: a tick's copy of the timing is then the trigger's, its due time one
of the slots, and what it moves on to a later one. `OneNodeFiresLatestOnly`, on one node without edits, by
`OrderInv`: what was started lies before `nextFireAt` and before the slot of a tick that fires; a tick that
dies before it moved the trigger on has started nothing. Both conditions are needed: TLC breaks the
statement with two nodes, and on one node with an edit of a one-shot.

**Callbacks.** `CallbackTypeCorrect`; `DeliveredIsReceived` by `DeliveryInv` (a job that reports
success has its event among the received ones); `AnswerIsEnough`, for one waiting call, by
`HoldInv` (while the caller has not settled its hold, no event of the outcome is on its way, until a
boot sweep lifts it). It allows what it cannot exclude: a settling that failed, a hold that was lifted.

**Relay.** `RelayTypeCorrect` with `FrameInv` (what the counters say about an execution's step);
`OneRunHeard` by `ReplayInv` (nothing is replayed of an execution that is not followed, and of the
followed one exactly what was heard, but for failed publishes). `EveryChunkFirst` by `OrderInv`: an execution that settled has sent its
`end` unless it never opened its relay (`FlushInv`), the call returns the result of such an execution
(`ResultInv`), and the caller's `ended` comes from an execution whose `end` it heard after all its other frames (`EndedInv`).
With a job that runs once (`MaxRuns = 1`) that execution is the returned one, and the header comment
holds for every chunk that could be published (`EveryChunkOfOneRun`).

Only model-checked: the liveness properties `RunSettles`, `RetryIsServed`, `OutcomeReported`, `CancelStopsTheJob`,
`DeferredRunStarts`, `AnsweredPauseContinues`, `PausedRunEnds` and `TriggerMovesOn`: fairness is outside
this prover. Every invariant, action property and refinement of a passing run has its theorem.

## 6. Not modelled, and the plan

The order in which the model is to grow; the hazards of these parts are already listed.

1. Inline execution and detach (`executeInlineRun`), the hand-over of a plain call to a
   background run.
2. `JobQueue`: the memory provider's dedup keys (`memoryQueueProvider.ts:167`) and the BullMQ
   provider, as an abstract queue that `AgentRunExecution` and `AgentRunDispatch` rely on.
3. The crawler's and the alerts' schedulers as further refinements of `SlotDispatch`.
4. `CircuitBreaker` and retry (`core/resilience.ts:205-246`).
5. Node registry and instance assignment; runtime pool and shutdown order; webhook
   deliveries; session events.
6. Requests of sub-agents and reminders in `PendingActions`; webhook and connector triggers.
7. Proof: `AgentRunAdmission` and `AgentRunCallback` over an abstract table of keys and callback
   states, as `PendingActions` and `AgentRunDispatch` are over `RunTable`.

Left out for good: model, tool, vector and storage providers (adapters to external
services), guardrails and evaluation (classification of text), auth and licensing (decision
tables over a request), the dashboard and the API's request parsing.
