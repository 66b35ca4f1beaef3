-------------------------- MODULE AgentRunDispatch --------------------------
(***************************************************************************)
(* Runs of the class `deferred`                                            *)
(* (src/src/lib/services/agents/agentRunService.ts): admitted under a cap  *)
(* on the waiting ones, handed out by dispatchDeferredRuns within a cap on *)
(* the running ones, and claimed by a worker that counts once more.        *)
(*                                                                         *)
(* One tenant, every run on a conversation of its own.  Runs are numbers   *)
(* in the order of their createdAt.  The dispatcher is called after an     *)
(* insert, after a turn, after an answer, and on every tick of a node's    *)
(* reconciler; a call counts, lists and publishes in calls of its own.     *)
(***************************************************************************)
EXTENDS Naturals, FiniteSets

CONSTANTS
    Runs,           \* numbers
    Scheduled,      \* the runs with a start time ahead
    Workers,        \* workers of the deferred queue, on any node
    Calls,          \* calls of the dispatcher by requests and workers at one time
    Reconcilers,    \* the nodes' reconcilers
    MaxRunning,     \* AGENT_DEFERRED_MAX_RUNNING_PER_TENANT
    MaxQueued,      \* AGENT_DEFERRED_MAX_QUEUED_PER_TENANT
    MaxJobs,        \* bounds the jobs of a run in the queue
    MaxFaults,      \* bounds dead nodes, lost jobs and failed calls
    Pausing,        \* the runs that may pause, once each; bounds the pauses
    None

Dispatchers == Calls \cup Reconcilers

ASSUME DispatchAssumption ==
    /\ Runs \subseteq Nat /\ IsFiniteSet(Runs) /\ Scheduled \subseteq Runs /\ Pausing \subseteq Runs
    /\ MaxRunning \in Nat \ {0} /\ MaxQueued \in Nat \ {0} /\ MaxJobs \in Nat \ {0}
    /\ MaxFaults \in Nat
    /\ None \notin Runs /\ Calls \cap Reconcilers = {}

VARIABLES
    row,        \* row[r]: the run's status
    submit,     \* submit[r]: where the startAgentRun of r is
    tally,      \* tally[r]: what the first of its two counts said
    jobs,       \* jobs[r]: the jobs of r in the queue
    used,       \* the runs whose dedup key of this minute is known to the queue
    worker,     \* worker[w]: where worker w is, and the run of its job
    call,       \* call[d]: where dispatcher d is, the runs it listed
    faults,
    paused      \* the runs that have paused

vars == <<row, submit, tally, jobs, used, worker, call, faults, paused>>

Statuses == {"none", "scheduled", "queued", "running", "requires_action", "ended", "deleted"}
InStatus(s) == {r \in Runs : row[r] = s}
Running == InStatus("running")
Due == InStatus("queued")

IdleWorker == [pc |-> "idle", run |-> None]
IdleCall == [pc |-> "idle", todo |-> {}]

TypeOK ==
    /\ row \in [Runs -> Statuses]
    /\ submit \in [Runs -> {"insert", "count", "addScheduled", "addQueued", "accepted", "refused"}]
    /\ tally \in [Runs -> Nat]
    /\ jobs \in [Runs -> 0..MaxJobs] /\ used \subseteq Runs
    /\ worker \in [Workers -> [pc : {"idle", "claim", "turn"}, run : Runs \cup {None}]]
    /\ call \in [Dispatchers -> [pc : {"idle", "count", "publish"}, todo : SUBSET Runs]]
    /\ faults \in 0..MaxFaults /\ paused \subseteq Pausing

Init ==
    /\ row = [r \in Runs |-> "none"] /\ submit = [r \in Runs |-> "insert"]
    /\ tally = [r \in Runs |-> 0]
    /\ jobs = [r \in Runs |-> 0] /\ used = {}
    /\ worker = [w \in Workers |-> IdleWorker] /\ call = [d \in Dispatchers |-> IdleCall]
    /\ faults = 0 /\ paused = {}

\* A step that goes wrong.
Fault == faults < MaxFaults /\ faults' = faults + 1

-----------------------------------------------------------------------------
(***************************************************************************)
(* dispatchDeferredRuns                                                    *)
(***************************************************************************)

\* A request or a worker calls the dispatcher; what goes wrong in it is logged, no more.
\* A call beyond those of Calls counts as one that went wrong.
CallDispatcher ==
    \/ \E d \in Calls : call[d].pc = "idle" /\ call' = [call EXCEPT ![d].pc = "count"]
    \/ (\A d \in Calls : call[d].pc # "idle") /\ UNCHANGED call

\* listQueuedDeferredAgentRuns: "the oldest due queued deferred rows"
OldestDue(k) == {r \in Due : Cardinality({q \in Due : q < r}) < k}

\* "slots = cap - running deferred", and the rows for them; in a call, or on the tick of a
\* reconciler.
ListDue(d) ==
    LET n == Cardinality(Running)
        listed == IF n >= MaxRunning THEN {} ELSE OldestDue(MaxRunning - n)
    IN  /\ call[d].pc = "count" \/ (d \in Reconcilers /\ call[d].pc = "idle" /\ listed # {})
        /\ call' = [call EXCEPT ![d] = IF listed = {} THEN IdleCall
                                       ELSE [pc |-> "publish", todo |-> listed]]
        /\ UNCHANGED <<row, submit, tally, jobs, used, worker, faults, paused>>

\* (a bug) a job without a dedup key
PublishWithoutKey(r) == jobs' = [jobs EXCEPT ![r] = @ + 1] /\ UNCHANGED used

\* publishAgentRunJob: the queue drops a job whose key it knows, and the key carries the
\* minute.
PublishJob(r) ==
    IF r \in used THEN UNCHANGED <<jobs, used>>
    ELSE /\ jobs[r] < MaxJobs
         /\ jobs' = [jobs EXCEPT ![r] = @ + 1]
         /\ used' = used \cup {r}

\* One run of the list after the other; a publish that fails is logged.
Publish(d) ==
    /\ call[d].pc = "publish"
    /\ \E r \in call[d].todo :
        /\ \A q \in call[d].todo : r <= q
        /\ \/ PublishJob(r) /\ UNCHANGED faults
           \/ Fault /\ UNCHANGED <<jobs, used>>
        /\ call' = [call EXCEPT ![d] = IF call[d].todo = {r} THEN IdleCall
                                       ELSE [pc |-> "publish", todo |-> call[d].todo \ {r}]]
    /\ UNCHANGED <<row, submit, tally, worker, paused>>

\* A dispatcher's node dies, or one of its counts or lists throws.
CallFails(d) ==
    /\ call[d].pc # "idle" /\ Fault
    /\ call' = [call EXCEPT ![d] = IdleCall]
    /\ UNCHANGED <<row, submit, tally, jobs, used, worker, paused>>

\* (a bug) the key is the same in every minute: the queue knows it for an hour
KeyWithoutMinute == FALSE /\ UNCHANGED vars

\* The next minute has begun: the queue knows no key of it.
MinutePasses ==
    /\ used # {} /\ used' = {}
    /\ UNCHANGED <<row, submit, tally, jobs, worker, call, faults, paused>>

-----------------------------------------------------------------------------
(***************************************************************************)
(* startAgentRun of run r, for the class deferred.  Rows are inserted in   *)
(* the order of their numbers.                                             *)
(***************************************************************************)

Inserted(r) == IF r \in Scheduled THEN "scheduled" ELSE "queued"

InsertRun(r) ==
    /\ submit[r] = "insert" /\ \A q \in Runs : q < r => submit[q] # "insert"
    /\ row' = [row EXCEPT ![r] = Inserted(r)]
    /\ submit' = [submit EXCEPT ![r] = "count"]
    /\ UNCHANGED <<tally, jobs, used, worker, call, faults, paused>>

\* countAgentRunsByStatus asks for the queued and for the scheduled runs at once, in two
\* queries that the database answers in either order.
FirstCount(r) ==
    /\ submit[r] = "count"
    /\ \/ /\ tally' = [tally EXCEPT ![r] = Cardinality(InStatus("queued"))]
          /\ submit' = [submit EXCEPT ![r] = "addScheduled"]
       \/ /\ tally' = [tally EXCEPT ![r] = Cardinality(InStatus("scheduled"))]
          /\ submit' = [submit EXCEPT ![r] = "addQueued"]
    /\ UNCHANGED <<row, jobs, used, worker, call, faults, paused>>

\* deleteAgentRun and the refusal
Refuse(r) ==
    /\ row' = [row EXCEPT ![r] = "deleted"]
    /\ submit' = [submit EXCEPT ![r] = "refused"]

\* admitQueued refuses the run, or it is accepted and, unless it is scheduled, the
\* dispatcher called.
CheckQuota(r) ==
    \/ Refuse(r) /\ UNCHANGED call
    \/ /\ submit' = [submit EXCEPT ![r] = "accepted"]
       /\ IF r \in Scheduled THEN UNCHANGED call ELSE CallDispatcher
       /\ UNCHANGED row

\* The answer of the second query.
Second(r) == Cardinality(InStatus(IF submit[r] = "addScheduled" THEN "scheduled" ELSE "queued"))

\* (a bug) the row that tips the cap over is let through
CountsOthers(r) ==
    /\ submit[r] \in {"addScheduled", "addQueued"}
    /\ IF tally[r] + Second(r) - 1 > MaxQueued THEN Refuse(r) /\ UNCHANGED call ELSE CheckQuota(r)
    /\ tally' = [tally EXCEPT ![r] = 0]
    /\ UNCHANGED <<jobs, used, worker, faults, paused>>

\* The waiting runs are counted after the insert; a run counts itself.
CountWaiting(r) ==
    /\ submit[r] \in {"addScheduled", "addQueued"}
    /\ IF tally[r] + Second(r) > MaxQueued THEN Refuse(r) /\ UNCHANGED call ELSE CheckQuota(r)
    /\ tally' = [tally EXCEPT ![r] = 0]
    /\ UNCHANGED <<jobs, used, worker, faults, paused>>

-----------------------------------------------------------------------------
(***************************************************************************)
(* The worker w (runAgentJobInTenant)                                      *)
(***************************************************************************)

\* The queue delivers a job, and the "deferred claim guard" counts: a job it skips has
\* completed.
Guard(w) ==
    /\ worker[w].pc = "idle"
    /\ \E r \in Runs :
        /\ jobs[r] > 0
        /\ jobs' = [jobs EXCEPT ![r] = @ - 1]
        /\ worker' = IF Cardinality(Running) >= MaxRunning THEN worker
                     ELSE [worker EXCEPT ![w] = [pc |-> "claim", run |-> r]]
    /\ UNCHANGED <<row, submit, tally, used, call, faults, paused>>

ClaimRun(w) ==
    LET r == worker[w].run
    IN  /\ worker[w].pc = "claim"
        /\ IF row[r] = "queued"
           THEN row' = [row EXCEPT ![r] = "running"] /\ worker' = [worker EXCEPT ![w].pc = "turn"]
           ELSE worker' = [worker EXCEPT ![w] = IdleWorker] /\ UNCHANGED row
        /\ UNCHANGED <<submit, tally, jobs, used, call, faults, paused>>

\* finalize, or the pause; then afterDeferred: "a slot of the class is free again".
EndTurn(w) ==
    LET r == worker[w].run
    IN  /\ worker[w].pc = "turn"
        /\ \/ row' = [row EXCEPT ![r] = IF @ = "running" THEN "ended" ELSE @] /\ UNCHANGED paused
           \/ /\ r \in Pausing \ paused /\ paused' = paused \cup {r}
              /\ row' = [row EXCEPT ![r] = IF @ = "running" THEN "requires_action" ELSE @]
        /\ worker' = [worker EXCEPT ![w] = IdleWorker]
        /\ CallDispatcher
        /\ UNCHANGED <<submit, tally, jobs, used, faults>>

\* The worker's node dies: its job is not delivered again.
WorkerDies(w) ==
    /\ worker[w].pc # "idle" /\ Fault
    /\ worker' = [worker EXCEPT ![w] = IdleWorker]
    /\ UNCHANGED <<row, submit, tally, jobs, used, call, paused>>

JobLost(r) ==
    /\ jobs[r] > 0 /\ Fault
    /\ jobs' = [jobs EXCEPT ![r] = @ - 1]
    /\ UNCHANGED <<row, submit, tally, used, worker, call, paused>>

-----------------------------------------------------------------------------
(***************************************************************************)
(* The others who change a deferred row                                    *)
(***************************************************************************)

\* queueAgentRunResume: a paused run is queued again, as old as it is, without a count.
Resume(r) ==
    /\ row[r] = "requires_action"
    /\ row' = [row EXCEPT ![r] = "queued"]
    /\ CallDispatcher
    /\ UNCHANGED <<submit, tally, jobs, used, worker, faults, paused>>

\* A waiting run is cancelled, or has waited too long (expireWaitingAgentRun); a paused
\* one is cancelled.
EndWaiting(r) ==
    /\ submit[r] = "accepted" /\ row[r] \in {"scheduled", "queued", "requires_action"}
    /\ row' = [row EXCEPT ![r] = "ended"]
    /\ UNCHANGED <<submit, tally, jobs, used, worker, call, faults, paused>>

\* The reconciler promotes a run whose time has come.
Promote(r) ==
    /\ row[r] = "scheduled"
    /\ row' = [row EXCEPT ![r] = "queued"]
    /\ UNCHANGED <<submit, tally, jobs, used, worker, call, faults, paused>>

\* The reconciler fails a run whose worker is gone.
SweepStale(r) ==
    /\ row[r] = "running" /\ \A w \in Workers : worker[w] # [pc |-> "turn", run |-> r]
    /\ row' = [row EXCEPT ![r] = "ended"]
    /\ UNCHANGED <<submit, tally, jobs, used, worker, call, faults, paused>>

-----------------------------------------------------------------------------
DispatcherStep(d) == ListDue(d) \/ Publish(d)
SubmitStep(r) == InsertRun(r) \/ FirstCount(r) \/ CountWaiting(r)
WorkerStep(w) == Guard(w) \/ ClaimRun(w) \/ EndTurn(w)

Next ==
    \/ \E d \in Dispatchers : DispatcherStep(d) \/ CallFails(d)
    \/ \E w \in Workers : WorkerStep(w) \/ WorkerDies(w)
    \/ \E r \in Runs : SubmitStep(r) \/ JobLost(r) \/ Resume(r) \/ EndWaiting(r) \/ Promote(r)
                       \/ SweepStale(r)
    \/ MinutePasses

Spec == Init /\ [][Next]_vars

\* Timers fire, calls return, the queue delivers and turns end (by their ceiling at the
\* latest).  Nobody has to answer a pause, cancel, or send a request.
Fairness ==
    /\ \A n \in Reconcilers : WF_vars(DispatcherStep(n))
    /\ \A w \in Workers : WF_vars(WorkerStep(w))
    /\ WF_vars(\E r \in Runs : SweepStale(r))
    /\ WF_vars(MinutePasses)

FairSpec == Spec /\ Fairness

-----------------------------------------------------------------------------
(***************************************************************************)
(* Properties                                                              *)
(***************************************************************************)

\* The runs that passed the count and wait as they were inserted are never more than the
\* cap, however many requests come at once.  A resume queues a run without a count, and a
\* promotion between its two queries hides a run from a count.
AsInserted(r) == row[r] = Inserted(r) /\ r \notin paused
Admitted(r) == AsInserted(r) /\ submit[r] = "accepted"
WaitingWithinCap == Cardinality({r \in Runs : Admitted(r)}) <= MaxQueued

\* A deferred run that is queued does not wait for ever: although a job the claim guard
\* skipped is gone, the dispatcher's call after a turn may be lost, and the queue drops a
\* job of the same minute, the run starts or ends.
DeferredRunStarts == \A r \in Runs : row[r] = "queued" ~> row[r] # "queued"

\* Requests, workers, dispatchers and reconcilers change the rows only by steps of the
\* store: a run that was refused, cancelled or swept while its job was on the way or its
\* turn went on does not come back.  Which outcome a run has is not told apart here;
\* `canceled` is one that each of the steps may record.
TableStatus(s) == CASE s = "none" -> "absent" [] s = "ended" -> "canceled" [] OTHER -> s
Table == INSTANCE RunTable WITH Convs <- Runs, ConvOf <- [r \in Runs |-> r],
                                row <- [r \in Runs |-> TableStatus(row[r])]
ImplementsRunTable == Table!Spec

\* Each worker that passed the guard before the others claimed adds one run to the cap, no
\* more.
RunningNearCap == Cardinality(Running) < MaxRunning + Cardinality(Workers)

\* "The class's running cap holds even when two nodes got a job each."
RunningWithinCap == Cardinality(Running) <= MaxRunning

\* A run whose request was refused is not executed.
RefusedIsNotExecuted ==
    \A w \in Workers : worker[w].pc = "turn" => submit[worker[w].run] # "refused"

=============================================================================
