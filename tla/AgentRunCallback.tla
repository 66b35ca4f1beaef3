-------------------------- MODULE AgentRunCallback --------------------------
(***************************************************************************)
(* The per-run callback of one queued run                                  *)
(* (src/src/lib/services/agents/agentRunService.ts fireAgentRunCallback,   *)
(* settleWaitedRunCallback, redeliverAgentRunCallback,                     *)
(* deliverAgentRunCallbackJob, the waiting call of                         *)
(* src/src/server/api/plugins/client-agent-runs.ts, and the reconciler's   *)
(* redelivery).                                                            *)
(*                                                                         *)
(* The transition of the row is atomic and answers with the row it left;   *)
(* recording the event on the row, queueing its delivery, the delivery and *)
(* its result are steps of their own, of whoever made the transition, of   *)
(* the call that waits, of the reconciler and of the callback workers.     *)
(* Succeeded, failed and canceled are one outcome here: a run has one.     *)
(***************************************************************************)
EXTENDS Naturals, FiniteSets

CONSTANTS
    Callers,        \* the runs API calls that wait for this run
    MaxGen,         \* bound: executions of the run (queueGeneration)
    CanPause,       \* does the turn ever pause for a person
    MaxAttempts,    \* CALLBACK_ATTEMPTS = AGENT_RUN_CALLBACK_MAX_ATTEMPTS
    JobIds,         \* bound: callback jobs at a time
    CanRefuse,      \* may the receiver refuse a post
    CanLag,         \* may a sender or the queue be slower than runRequeueAfterMs
    Faults,         \* what may go wrong
    MaxFaults,      \* bound: how often
    Reconciler,     \* the tick of the reconciler
    Boot,           \* its sweep when a node boots
    None            \* callbackEventId is null

ASSUME CallbackAssumption ==
    /\ MaxGen \in Nat \ {0} /\ MaxAttempts \in Nat \ {0} /\ MaxFaults \in Nat
    /\ CanPause \in BOOLEAN /\ CanRefuse \in BOOLEAN /\ CanLag \in BOOLEAN
    /\ Faults \subseteq {"node", "job", "write", "boot"}

\* agentRunCallbackEventId: the run is fixed, so its event and its generation
Events == {"requires_action", "outcome"} \X (1..MaxGen)

ASSUME NamesAssumption ==
    /\ None \notin Events
    /\ Callers \cap Events = {} /\ {Reconciler, Boot} \cap (Callers \cup Events) = {}

\* Whoever sends an event: the transition that caused it, the call that waited, the reconciler.
Senders == Events \cup Callers \cup {Reconciler, Boot}

VARIABLES
    status, gen,    \* the row: is the run active, paused or ended; queueGeneration
    cb,             \* the row: callbackStatus, callbackEventId, callbackAttempts
    call,           \* call[c]: where the waiting call is, and the run it was answered with
    left,           \* the callers that disconnected before their answer
    send,           \* send[s]: an event on its way to the callback queue
    jobs,           \* jobs[j]: a job of the callback queue
    received,       \* events the receiver accepted
    lifted,         \* has a boot sweep taken up a callback that a call held back
    faults

vars == <<status, gen, cb, call, left, send, jobs, received, lifted, faults>>

Statuses == {"active", "requires_action", "outcome"}
CallbackStatus == {"waiting", "pending", "delivered", "failed", "answered"}
CallSteps == {"waiting", "read", "write", "handover", "done", "unsettled", "dead"}

Idle == [step |-> "idle"]
Free == [step |-> "free"]
Sending ==
    [step : {"record", "enqueue"}, event : Events, attempts : {MaxAttempts}]
        \cup [step : {"touch"}, event : Events, seen : {"pending", "failed"}, count : Nat]
        \cup [step : {"enqueue"}, event : Events, attempts : {1}]
Jobs ==
    [step : {"ready"}, event : Events, attempts : Nat]
        \cup [step : {"sent"}, event : Events, attempts : Nat, ok : BOOLEAN, count : Nat]

TypeOK ==
    /\ status \in Statuses /\ gen \in 1..MaxGen
    /\ cb \in [status : CallbackStatus, event : Events \cup {None}, attempts : Nat]
    /\ call \in [Callers -> [step : CallSteps, status : Statuses, gen : 1..MaxGen]]
    /\ left \subseteq Callers
    /\ send \in [Senders -> Sending \cup {Idle}]
    /\ jobs \in [JobIds -> Jobs \cup {Free}]
    /\ received \subseteq Events /\ lifted \in BOOLEAN
    /\ faults \in 0..MaxFaults

Alive(c) == call[c].step \notin {"done", "unsettled", "dead"}

Outcome == <<"outcome", gen>>

-----------------------------------------------------------------------------
Init ==
    /\ status = "active" /\ gen = 1
    /\ cb = [status |-> IF Callers = {} THEN "pending" ELSE "waiting",
             event |-> None, attempts |-> 0]
    /\ call = [c \in Callers |-> [step |-> "waiting", status |-> "active", gen |-> 1]]
    /\ left = {}
    /\ send = [s \in Senders |-> Idle]
    /\ jobs = [j \in JobIds |-> Free]
    /\ received = {} /\ lifted = FALSE
    /\ faults = 0

\* A node that dies, a job that is lost, a write that fails: nobody notices.
Fault(what) == what \in Faults /\ faults < MaxFaults /\ faults' = faults + 1

(***************************************************************************)
(* The run                                                                 *)
(***************************************************************************)

\* The first steps of fireAgentRunCallback, on the row the transition answered with:
\* nothing while a caller waits.
Fire(e) ==
    send' = IF cb.status = "waiting" THEN send
            ELSE [send EXCEPT ![e] = [step |-> "record", event |-> e,
                                      attempts |-> MaxAttempts]]

Pause ==
    /\ CanPause
    /\ status = "active"
    /\ status' = "requires_action"
    /\ Fire(<<"requires_action", gen>>)
    /\ UNCHANGED <<gen, cb, call, left, jobs, received, lifted, faults>>

\* requeueAgentRunForResume
Resume ==
    /\ status = "requires_action" /\ gen < MaxGen
    /\ status' = "active" /\ gen' = gen + 1
    /\ UNCHANGED <<cb, call, left, send, jobs, received, lifted, faults>>

\* finalizeAgentRun by the executor, and of a paused run by a cancel, an expiry or an answer
End ==
    /\ status \in {"active", "requires_action"}
    /\ status' = "outcome"
    /\ Fire(Outcome)
    /\ UNCHANGED <<gen, cb, call, left, jobs, received, lifted, faults>>

(***************************************************************************)
(* Sending an event                                                        *)
(***************************************************************************)

\* fireAgentRunCallback: updateAgentRunCallback, without a guard
Record(s) ==
    /\ send[s].step = "record"
    /\ \/ cb' = [status |-> "pending", event |-> send[s].event, attempts |-> 0]
          /\ UNCHANGED faults
       \/ Fault("write") /\ UNCHANGED cb
    /\ send' = [send EXCEPT ![s].step = "enqueue"]
    /\ UNCHANGED <<status, gen, call, left, jobs, received, lifted>>

\* updateAgentRunCallback with onlyIfEventId
UpdateIfEvent(e, new) == cb' = IF cb.event \in {e, None} THEN new ELSE cb

\* redeliverAgentRunCallback: touches the row first, with what it read
Touch(s) ==
    /\ send[s].step = "touch"
    /\ \/ /\ UpdateIfEvent(send[s].event, [status |-> send[s].seen, event |-> send[s].event,
                                           attempts |-> send[s].count])
          /\ UNCHANGED faults
       \/ Fault("write") /\ UNCHANGED cb
    /\ send' = [send EXCEPT ![s] = [step |-> "enqueue", event |-> @.event, attempts |-> 1]]
    /\ UNCHANGED <<status, gen, call, left, jobs, received, lifted>>

\* enqueueAgentRunCallback; a publish that fails is only logged
Enqueue(s) ==
    /\ send[s].step = "enqueue"
    /\ \/ \E j \in JobIds :
            /\ jobs[j] = Free
            /\ jobs' = [jobs EXCEPT ![j] = [step |-> "ready", event |-> send[s].event,
                                            attempts |-> send[s].attempts]]
            /\ UNCHANGED faults
       \/ Fault("job") /\ UNCHANGED jobs
    /\ send' = [send EXCEPT ![s] = Idle]
    /\ UNCHANGED <<status, gen, cb, call, left, received, lifted>>

\* The node dies before the event is queued.
SenderDies(s) ==
    /\ send[s] # Idle
    /\ Fault("node")
    /\ send' = [send EXCEPT ![s] = Idle]
    /\ UNCHANGED <<status, gen, cb, call, left, jobs, received, lifted>>

(***************************************************************************)
(* The callback queue                                                      *)
(***************************************************************************)

\* deliverAgentRunCallbackJob up to sendSignedWebhook
Deliver(j) ==
    /\ jobs[j].step = "ready"
    /\ LET e == jobs[j].event
           sameEvent == cb.event \in {e, None}
       IN \E ok \in (IF CanRefuse THEN BOOLEAN ELSE {TRUE}) :
            /\ jobs' = [jobs EXCEPT ![j] =
                            [step |-> "sent", event |-> e, attempts |-> @.attempts, ok |-> ok,
                             count |-> (IF sameEvent THEN cb.attempts ELSE 0) + 1]]
            /\ received' = IF ok THEN received \cup {e} ELSE received
    /\ UNCHANGED <<status, gen, cb, call, left, send, lifted, faults>>

\* (a bug) a job that used up its attempts is retried
RetryWithoutEnd(job) ==
    IF ~job.ok
    THEN [step |-> "ready", event |-> job.event, attempts |-> job.attempts - 1]
    ELSE Free

\* A delivery that failed is thrown, so the queue retries while it has attempts.
AfterResult(job) ==
    IF ~job.ok /\ job.attempts > 1
    THEN [step |-> "ready", event |-> job.event, attempts |-> job.attempts - 1]
    ELSE Free

\* (a bug) the result is stored whatever event the row waits on
StoreAnyResult(j) ==
    /\ jobs[j].step = "sent"
    /\ cb' = [cb EXCEPT !.status = IF jobs[j].ok THEN "delivered" ELSE "failed",
                        !.attempts = jobs[j].count]
    /\ jobs' = [jobs EXCEPT ![j] = AfterResult(jobs[j])]
    /\ UNCHANGED <<status, gen, call, left, send, received, lifted, faults>>

\* deliverAgentRunCallbackJob after sendSignedWebhook
StoreResult(j) ==
    /\ jobs[j].step = "sent"
    /\ \/ /\ UpdateIfEvent(jobs[j].event,
                [cb EXCEPT !.status = IF jobs[j].ok THEN "delivered" ELSE "failed",
                           !.attempts = jobs[j].count])
          /\ UNCHANGED faults
       \/ Fault("write") /\ UNCHANGED cb
    /\ jobs' = [jobs EXCEPT ![j] = AfterResult(jobs[j])]
    /\ UNCHANGED <<status, gen, call, left, send, received, lifted>>

\* The queue loses a job, or its worker dies with it.
LoseJob(j) ==
    /\ jobs[j] # Free
    /\ Fault("job")
    /\ jobs' = [jobs EXCEPT ![j] = Free]
    /\ UNCHANGED <<status, gen, cb, call, left, send, received, lifted>>

(***************************************************************************)
(* The calls that wait                                                     *)
(***************************************************************************)

Disconnect(c) ==
    /\ call[c].step = "waiting" /\ c \notin left
    /\ left' = left \cup {c}
    /\ UNCHANGED <<status, gen, cb, call, send, jobs, received, lifted, faults>>

\* waitForAgentRun: it answers with the row it read, a stopped run at once and an active
\* one at its timeout; woken by a disconnect it answers with the active row it had.
WaitEnds(c) ==
    /\ call[c].step = "waiting"
    /\ \E seen \in {status} \cup (IF c \in left THEN {"active"} ELSE {}) :
        call' = [call EXCEPT ![c] = [step |-> "read", status |-> seen, gen |-> gen]]
    /\ UNCHANGED <<status, gen, cb, left, send, jobs, received, lifted, faults>>

\* settleWaitedRunCallback only logs a call that throws: the caller is answered all the
\* same, and the row stays held.
SettleFails(c) == Fault("write") /\ call' = [call EXCEPT ![c].step = "unsettled"]

\* settleWaitedRunCallback: is the callback still held back?
ReadHold(c) ==
    /\ call[c].step = "read"
    /\ \/ /\ call' = [call EXCEPT ![c].step = IF cb.status = "waiting" THEN "write" ELSE "done"]
          /\ UNCHANGED faults
       \/ SettleFails(c)
    /\ UNCHANGED <<status, gen, cb, left, send, jobs, received, lifted>>

\* (a bug) the duty is handed back without looking at what the caller was answered with
HandBack(c) ==
    /\ call[c].step = "write"
    /\ cb' = [cb EXCEPT !.status = "pending"]
    /\ call' = [call EXCEPT ![c].step = "handover"]
    /\ UNCHANGED <<status, gen, left, send, jobs, received, lifted, faults>>

\* The outcome a caller received owes no callback; anything else hands the duty back.  The
\* attempts are written back as they were read, and a row that is held has none.
SettleHold(c) ==
    /\ call[c].step = "write"
    /\ \/ /\ LET outcome == call[c].status = "outcome"
             IN  /\ cb' = [cb EXCEPT !.status = IF outcome THEN "answered" ELSE "pending",
                                    !.attempts = 0]
                 /\ call' = [call EXCEPT ![c].step = IF outcome THEN "done" ELSE "handover"]
          /\ UNCHANGED faults
       \/ SettleFails(c) /\ UNCHANGED cb
    /\ UNCHANGED <<status, gen, left, send, jobs, received, lifted>>

\* The state that redeliverAgentRunCallback reads.
Redelivery == [step |-> "touch", event |-> <<status, gen>>,
               seen |-> IF cb.status = "failed" THEN "failed" ELSE "pending",
               count |-> cb.attempts]

\* The run moved on between the answer and the hand-over: its event was held back.
Handover(c) ==
    /\ call[c].step = "handover"
    /\ \/ /\ send' = IF status # call[c].status /\ status # "active"
                     THEN [send EXCEPT ![c] = Redelivery] ELSE send
          /\ UNCHANGED faults
       \/ Fault("write") /\ UNCHANGED send
    /\ call' = [call EXCEPT ![c].step = "done"]
    /\ UNCHANGED <<status, gen, cb, left, jobs, received, lifted>>

CallDies(c) ==
    /\ Alive(c)
    /\ Fault("node")
    /\ call' = [call EXCEPT ![c].step = "dead"]
    /\ UNCHANGED <<status, gen, cb, left, send, jobs, received, lifted>>

-----------------------------------------------------------------------------
\* "quiet for longer than the queue's own retries take"
Quiet == (\A s \in Senders : send[s] = Idle) /\ (\A j \in JobIds : jobs[j] = Free)

\* (a bug) a hold whose caller died with its node is not looked for
SweepPending ==
    /\ send[Reconciler] = Idle
    /\ status # "active"
    /\ cb.status \in {"pending", "failed"}
    /\ cb.attempts < MaxAttempts
    /\ Quiet \/ CanLag
    /\ send' = [send EXCEPT ![Reconciler] = Redelivery]
    /\ UNCHANGED <<status, gen, cb, call, left, jobs, received, lifted, faults>>

\* listAgentRunsWithUndeliveredCallbacks.  A hold counts as lost once its run stopped
\* longer ago than any call takes to notice.
Sweep ==
    /\ send[Reconciler] = Idle
    /\ status # "active"
    /\ \/ cb.status \in {"pending", "failed"}
       \/ cb.status = "waiting" /\ \A c \in Callers : ~Alive(c)
    /\ cb.attempts < MaxAttempts
    /\ Quiet \/ CanLag
    /\ send' = [send EXCEPT ![Reconciler] = Redelivery]
    /\ UNCHANGED <<status, gen, cb, call, left, jobs, received, lifted, faults>>

\* "At boot an in-memory queue lost every job, so nothing is in flight": the boot sweep of
\* any node takes every callback up at once, one that a call elsewhere holds back, or whose
\* job the shared queue still has, too.
BootSweep ==
    /\ send[Boot] = Idle
    /\ status # "active"
    /\ cb.status \in {"pending", "failed", "waiting"}
    /\ cb.attempts < MaxAttempts
    /\ Fault("boot")
    /\ send' = [send EXCEPT ![Boot] = Redelivery]
    /\ lifted' = (lifted \/ cb.status = "waiting")
    /\ UNCHANGED <<status, gen, cb, call, left, jobs, received>>

Next ==
    \/ Pause \/ Resume \/ End \/ Sweep \/ BootSweep
    \/ \E s \in Senders : Record(s) \/ Touch(s) \/ Enqueue(s) \/ SenderDies(s)
    \/ \E j \in JobIds : Deliver(j) \/ StoreResult(j) \/ LoseJob(j)
    \/ \E c \in Callers :
        Disconnect(c) \/ WaitEnds(c) \/ ReadHold(c) \/ SettleHold(c) \/ Handover(c) \/ CallDies(c)

Spec == Init /\ [][Next]_vars

\* The run ends (module AgentRunExecution), a call notices, the queue and the reconciler work.
FairSpec ==
    /\ Spec
    /\ WF_vars(End) /\ WF_vars(Sweep)
    /\ \A s \in Senders : WF_vars(Record(s)) /\ WF_vars(Touch(s)) /\ WF_vars(Enqueue(s))
    /\ \A j \in JobIds : WF_vars(Deliver(j)) /\ WF_vars(StoreResult(j))
    /\ \A c \in Callers :
        /\ WF_vars(WaitEnds(c)) /\ WF_vars(ReadHold(c))
        /\ WF_vars(SettleHold(c)) /\ WF_vars(Handover(c))

-----------------------------------------------------------------------------
(***************************************************************************)
(* Properties                                                              *)
(***************************************************************************)

\* The row never claims a delivery that did not happen: when it says `delivered` for an
\* event, the receiver accepted that event, whichever late job stored its result last.
DeliveredMeansReceived ==
    cb.status = "delivered" /\ cb.event # None => cb.event \in received

Answered(c, e) ==
    /\ call[c].step \in {"done", "unsettled"} /\ c \notin left
    /\ <<call[c].status, call[c].gen>> = e

\* A caller that got the outcome in its answer is not called back with it, unless the hold
\* could not be settled, or a node that booted took it for lost.
AnsweredOutcomeNotCalledBack ==
    \A c \in Callers :
        Answered(c, Outcome) /\ Outcome \in received => call[c].step = "unsettled" \/ lifted

\* "A runs API call that waits for its run gets no per-run callback for the state it was
\* answered with (finished, or paused for a person)."
AnsweredStateNotCalledBack ==
    \A c \in Callers, e \in Events : Answered(c, e) => e \notin received

Refused == cb.status = "failed" /\ cb.event \in {Outcome, None} /\ cb.attempts >= MaxAttempts

\* Every run that ends is reported: its receiver got the outcome or refused it as often
\* as it is tried, or a call answered with it.
OutcomeReported ==
    status = "outcome" ~> (Outcome \in received \/ Refused \/ cb.status = "answered")

\* "Later states are called back: the outcome of a run whose caller disconnected before
\* the answer."
DisconnectedCallerIsCalledBack ==
    (status = "outcome" /\ Callers \subseteq left) ~> (Outcome \in received \/ Refused)

=============================================================================
