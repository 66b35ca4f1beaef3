---------------------------- MODULE StreamRelay ----------------------------
(***************************************************************************)
(* The live callbacks and the cancel of one routed call                    *)
(* (src/src/lib/core/cluster/streamRelay.ts, called by serviceRouter.ts):  *)
(* the caller listens on a pub/sub channel and waits for the job's result  *)
(* from the queue; each execution of the job publishes its frames on that  *)
(* channel and listens for the cancel on another one.                      *)
(*                                                                         *)
(* An execution r publishes `ready`, its chunks and `end` over one         *)
(* connection, which keeps their order; frames of two executions, and the  *)
(* result, overtake each other.  So the frames of r are numbered as r      *)
(* sends them: 1..sent[r] were sent and 1..heard[r] reached the caller,    *)
(* but for gaps[r], whose publish failed.  The acknowledgement of a cancel *)
(* is only logged and is left out.                                         *)
(***************************************************************************)
EXTENDS Naturals

CONSTANTS
    MaxRuns,    \* executions of the job: BullMQ runs a stalled job again this often, plus one
    Chunks,     \* bound: callback fires of one execution
    CanTimeout, \* may the caller's invoke time out
    CanMute,    \* may an execution fail to open its end of the relay
    MaxFaults,  \* bound: publishes that fail
    None

Runs == 1..MaxRuns

ASSUME RelayAssumption ==
    /\ MaxRuns \in Nat \ {0} /\ Chunks \in Nat /\ MaxFaults \in Nat
    /\ CanTimeout \in BOOLEAN /\ CanMute \in BOOLEAN
    /\ None \notin Runs

VARIABLES
    caller,     \* where invokeRemote is: "wait" for the job, "finish" the relay, "closed"
    result,     \* the execution whose result the caller has
    returned,   \* did the call return that result (or did it fail)
    aborted,    \* the caller's signal
    cancels,    \* a cancel on its way to the executions that listen when it is published
    cancelLost, \* history: a publish of the cancel failed
    followed,   \* followedRun
    ready,      \* workerReady: the followed execution said `ready`
    ended,      \* an `end` was heard
    replayed,   \* replayed[r]: the chunks of r handed to the caller's callbacks
    started,    \* executions started so far
    holder,     \* the execution that holds the job's lock
    job,        \* is the job "waiting", "active" or "over"
    step,       \* step[r]: where execution r is
    signal,     \* signal[r]: r's local AbortController
    inbox,      \* inbox[r]: a cancel on its way to r
    sent, fin,  \* sent[r]: frames r published; fin[r]: the last one is `end`
    heard,      \* heard[r]: frames of r that are no longer on their way to the caller
    gaps,       \* gaps[r]: those among them whose publish failed
    faults      \* publishes that failed so far

callerVars == <<caller, result, returned, aborted, followed, ready, ended, replayed>>
jobVars == <<started, holder, job>>
runVars == <<step, signal, sent, fin>>
faultVars == <<gaps, cancelLost, faults>>
vars == <<callerVars, jobVars, runVars, cancels, inbox, heard, faultVars>>

Frames == 1..(Chunks + 2)

TypeOK ==
    /\ caller \in {"wait", "finish", "closed"}
    /\ result \in Runs \cup {None} /\ followed \in Runs \cup {None}
    /\ returned \in BOOLEAN /\ aborted \in BOOLEAN /\ cancels \in BOOLEAN
    /\ ready \in BOOLEAN /\ ended \in BOOLEAN
    /\ replayed \in [Runs -> SUBSET Frames] /\ gaps \in [Runs -> SUBSET Frames]
    /\ cancelLost \in BOOLEAN /\ faults \in 0..MaxFaults
    /\ started \in 0..MaxRuns /\ holder \in Runs \cup {None}
    /\ job \in {"waiting", "active", "over"}
    /\ step \in [Runs -> {"none", "open", "running", "mute", "flush", "over"}]
    /\ signal \in [Runs -> BOOLEAN] /\ inbox \in [Runs -> BOOLEAN] /\ fin \in [Runs -> BOOLEAN]
    /\ sent \in [Runs -> 0..(Chunks + 2)] /\ heard \in [Runs -> 0..(Chunks + 2)]

Init ==
    /\ caller = "wait" /\ result = None /\ returned = FALSE
    /\ aborted = FALSE /\ cancels = FALSE
    /\ followed = None /\ ready = FALSE /\ ended = FALSE
    /\ replayed = [r \in Runs |-> {}] /\ gaps = [r \in Runs |-> {}]
    /\ cancelLost = FALSE /\ faults = 0
    /\ started = 0 /\ holder = None /\ job = "waiting"
    /\ step = [r \in Runs |-> "none"]
    /\ signal = [r \in Runs |-> FALSE] /\ inbox = [r \in Runs |-> FALSE]
    /\ sent = [r \in Runs |-> 0] /\ fin = [r \in Runs |-> FALSE]
    /\ heard = [r \in Runs |-> 0]

-----------------------------------------------------------------------------
(***************************************************************************)
(* The executions                                                          *)
(***************************************************************************)

\* The queue hands the job to a worker, a stalled one again.
Start(r) ==
    /\ job = "waiting" /\ r = started + 1
    /\ started' = r /\ holder' = r /\ job' = "active"
    /\ step' = [step EXCEPT ![r] = "open"]
    /\ UNCHANGED <<callerVars, signal, sent, fin, cancels, inbox, heard, faultVars>>

\* openWorkerRelay: listens for the cancel, then says `ready`
OpenRelay(r) ==
    /\ step[r] = "open"
    /\ step' = [step EXCEPT ![r] = "running"]
    /\ sent' = [sent EXCEPT ![r] = 1]
    /\ UNCHANGED <<callerVars, jobVars, signal, fin, cancels, inbox, heard, faultVars>>

\* openWorkerRelay answers null: the handler runs without callbacks and without a signal
OpenFails(r) ==
    /\ CanMute
    /\ step[r] = "open"
    /\ step' = [step EXCEPT ![r] = "mute"]
    /\ UNCHANGED <<callerVars, jobVars, signal, sent, fin, cancels, inbox, heard, faultVars>>

Emit(r) ==
    /\ step[r] = "running"
    /\ sent[r] <= Chunks
    /\ sent' = [sent EXCEPT ![r] = @ + 1]
    /\ UNCHANGED <<callerVars, jobVars, step, signal, fin, cancels, inbox, heard, faultVars>>

HearCancel(r) ==
    /\ inbox[r]
    /\ inbox' = [inbox EXCEPT ![r] = FALSE]
    /\ signal' = [signal EXCEPT ![r] = @ \/ step[r] = "running"]
    /\ UNCHANGED <<callerVars, jobVars, step, sent, fin, cancels, heard, faultVars>>

\* (a bug) closing the relay twice sends `end` twice
SettleAgain(r) ==
    /\ step[r] \in {"running", "flush"}
    /\ sent' = [sent EXCEPT ![r] = @ + 1] /\ fin' = [fin EXCEPT ![r] = TRUE]
    /\ step' = [step EXCEPT ![r] = "flush"]
    /\ UNCHANGED <<callerVars, jobVars, signal, cancels, inbox, heard, faultVars>>

\* The handler settled, by itself or because its signal aborted: WorkerRelay.close sends `end`.
Settle(r) ==
    /\ step[r] \in {"running", "mute"}
    /\ IF step[r] = "running"
       THEN sent' = [sent EXCEPT ![r] = @ + 1] /\ fin' = [fin EXCEPT ![r] = TRUE]
       ELSE UNCHANGED <<sent, fin>>
    /\ step' = [step EXCEPT ![r] = "flush"]
    /\ UNCHANGED <<callerVars, jobVars, signal, cancels, inbox, heard, faultVars>>

\* The job completes, or fails without a retry (attempts: 1), for the one who holds its lock.
Complete(r) ==
    /\ step[r] = "flush"
    /\ step' = [step EXCEPT ![r] = "over"]
    /\ IF holder # r
       THEN UNCHANGED <<job, holder, caller, result>>
       ELSE /\ job' = "over" /\ holder' = None
            /\ \/ caller = "wait" /\ caller' = "finish" /\ result' = r
               \/ caller = "wait" /\ caller' = "closed" /\ UNCHANGED result
               \/ caller # "wait" /\ UNCHANGED <<caller, result>>
    /\ UNCHANGED <<returned, aborted, followed, ready, ended, replayed, started,
                   signal, sent, fin, cancels, inbox, heard, faultVars>>

\* A stalled job runs again, or fails when it did too often.
Requeue ==
    IF started < MaxRuns
    THEN job' = "waiting" /\ UNCHANGED caller
    ELSE job' = "over" /\ caller' = (IF caller = "wait" THEN "closed" ELSE caller)

\* The execution loses its lock and goes on without it.
LoseLock(r) ==
    /\ holder = r
    /\ holder' = None
    /\ Requeue
    /\ UNCHANGED <<result, returned, aborted, followed, ready, ended, replayed, started,
                   runVars, cancels, inbox, heard, faultVars>>

\* The execution's node dies; frames that it had not flushed are lost.
Die(r) ==
    /\ step[r] \in {"open", "running", "mute", "flush"}
    /\ step' = [step EXCEPT ![r] = "over"]
    /\ \E n \in heard[r]..sent[r] :
        /\ sent' = [sent EXCEPT ![r] = n]
        /\ fin' = [fin EXCEPT ![r] = @ /\ n = sent[r]]
    /\ IF holder = r THEN holder' = None /\ Requeue ELSE UNCHANGED <<holder, job, caller>>
    /\ UNCHANGED <<result, returned, aborted, followed, ready, ended, replayed, started,
                   signal, cancels, inbox, heard, faultVars>>

-----------------------------------------------------------------------------
(***************************************************************************)
(* The caller                                                              *)
(***************************************************************************)

Abort ==
    /\ caller # "closed" /\ ~aborted
    /\ aborted' = TRUE /\ cancels' = TRUE
    /\ UNCHANGED <<caller, result, returned, followed, ready, ended, replayed, jobVars,
                   runVars, inbox, heard, faultVars>>

\* A published cancel reaches who listens now.
PublishCancel ==
    /\ cancels
    /\ cancels' = FALSE
    /\ inbox' = [r \in Runs |-> inbox[r] \/ step[r] = "running"]
    /\ UNCHANGED <<callerVars, jobVars, runVars, heard, faultVars>>

\* The publish of a cancel fails: the caller logs it.
CancelFails ==
    /\ faults < MaxFaults
    /\ cancels
    /\ cancels' = FALSE
    /\ faults' = faults + 1 /\ cancelLost' = TRUE
    /\ UNCHANGED <<callerVars, jobVars, runVars, inbox, heard, gaps>>

IsReady(r, k) == k = 1
IsEnd(r, k) == fin[r] /\ k = sent[r] /\ k # 1

\* (a bug) the frames of every execution are replayed
OnFrameOfAny(r, k) ==
    /\ followed' = IF followed = None THEN r ELSE followed
    /\ cancels' = (cancels \/ (IsReady(r, k) /\ aborted))
    /\ ready' = (ready \/ (IsReady(r, k) /\ followed' = r))
    /\ ended' = (ended \/ IsEnd(r, k))
    /\ replayed' = IF ~IsReady(r, k) /\ ~IsEnd(r, k)
                   THEN [replayed EXCEPT ![r] = @ \cup {k}] ELSE replayed

\* (a bug) the cancel is not repeated when an execution announces itself
OnFrameWithoutRepeat(r, k) ==
    /\ followed' = IF followed = None THEN r ELSE followed
    /\ ready' = (ready \/ (IsReady(r, k) /\ followed' = r))
    /\ ended' = (ended \/ IsEnd(r, k))
    /\ replayed' = IF ~IsReady(r, k) /\ ~IsEnd(r, k) /\ followed' = r
                   THEN [replayed EXCEPT ![r] = @ \cup {k}] ELSE replayed
    /\ UNCHANGED cancels

\* onFrame: follows the first execution it hears from, repeats the cancel at every
\* `ready`, and takes the `end` of any of them.
OnFrame(r, k) ==
    /\ followed' = IF followed = None THEN r ELSE followed
    /\ cancels' = (cancels \/ (IsReady(r, k) /\ aborted))
    /\ ready' = (ready \/ (IsReady(r, k) /\ followed' = r))
    /\ ended' = (ended \/ IsEnd(r, k))
    /\ replayed' = IF ~IsReady(r, k) /\ ~IsEnd(r, k) /\ followed' = r
                   THEN [replayed EXCEPT ![r] = @ \cup {k}] ELSE replayed

\* The next frame of r; a closed relay drops it.
Receive(r) ==
    /\ heard[r] < sent[r]
    /\ heard' = [heard EXCEPT ![r] = @ + 1]
    /\ IF caller = "closed"
       THEN UNCHANGED <<followed, ready, ended, replayed, cancels>>
       ELSE OnFrame(r, heard[r] + 1)
    /\ UNCHANGED <<caller, result, returned, aborted, jobVars, runVars, inbox,
                   faultVars>>

\* A publish fails: the worker logs it and sends the next frame.
PublishFails(r) ==
    /\ faults < MaxFaults
    /\ heard[r] < sent[r]
    /\ faults' = faults + 1
    /\ heard' = [heard EXCEPT ![r] = @ + 1]
    /\ gaps' = [gaps EXCEPT ![r] = @ \cup {heard[r] + 1}]
    /\ UNCHANGED <<callerVars, jobVars, runVars, cancels, inbox, cancelLost>>

\* (a bug) the call returns as soon as it has the result
FinishAtOnce ==
    /\ caller = "finish"
    /\ caller' = "closed" /\ returned' = TRUE
    /\ UNCHANGED <<result, aborted, followed, ready, ended, replayed, jobVars, runVars,
                   cancels, inbox, heard, faultVars>>

\* CallerRelay.finish: waits for `ready` and `end`, each for a grace period that is longer
\* than the way of the frames of the execution that completed.
Finish ==
    /\ caller = "finish"
    /\ (ready /\ ended) \/ heard[result] = sent[result]
    /\ caller' = "closed" /\ returned' = TRUE
    /\ UNCHANGED <<result, aborted, followed, ready, ended, replayed, jobVars, runVars,
                   cancels, inbox, heard, faultVars>>

\* job.waitUntilFinished gives up; CallerRelay.close.
Timeout ==
    /\ CanTimeout
    /\ caller = "wait"
    /\ caller' = "closed"
    /\ UNCHANGED <<result, returned, aborted, followed, ready, ended, replayed, jobVars, runVars,
                   cancels, inbox, heard, faultVars>>

-----------------------------------------------------------------------------
Next ==
    \/ Abort \/ PublishCancel \/ CancelFails \/ Finish \/ Timeout
    \/ \E r \in Runs :
        \/ Start(r) \/ OpenRelay(r) \/ OpenFails(r) \/ Emit(r) \/ HearCancel(r) \/ Settle(r)
        \/ Complete(r) \/ LoseLock(r) \/ Die(r) \/ Receive(r)
        \/ PublishFails(r)

Spec == Init /\ [][Next]_vars

\* The transport delivers, the queue hands out the job, and a handler whose signal aborted
\* comes to its end; nothing makes a handler end by itself.
FairSpec ==
    /\ Spec
    /\ WF_vars(PublishCancel) /\ WF_vars(Finish)
    /\ \A r \in Runs :
        /\ WF_vars(Start(r)) /\ WF_vars(OpenRelay(r)) /\ WF_vars(Complete(r))
        /\ WF_vars(Receive(r)) /\ WF_vars(HearCancel(r))
        /\ WF_vars(signal[r] /\ Settle(r))

-----------------------------------------------------------------------------
(***************************************************************************)
(* Properties                                                              *)
(***************************************************************************)

\* The chunks among the first n frames of r, but for those whose publish failed.
ChunksUpTo(r, n) == {k \in 2..n : ~IsEnd(r, k)} \ gaps[r]

\* "A re-run's text and tool events never land in callbacks that already received part of
\* the first run's": the callbacks hear one execution, from its first chunk on, without a
\* gap but for the frames whose publish failed.
OneRunReplayed ==
    \A r \in Runs : replayed[r] # {} =>
        /\ followed = r
        /\ caller # "closed" => replayed[r] = ChunksUpTo(r, heard[r])

EndHeard(r) == fin[r] /\ heard[r] = sent[r] /\ sent[r] \notin gaps[r]

\* "Every chunk is replayed before the caller sees the final result": the result of the
\* execution that the caller follows is returned only after all of its chunks that could
\* be published, unless the `end` of another execution was taken for its own.
EveryChunkBeforeResult ==
    (returned /\ result = followed /\ \A r \in Runs \ {result} : ~EndHeard(r))
    => replayed[result] = ChunksUpTo(result, sent[result])

\* "A cancel published before the worker subscribed is not lost": a call that was aborted
\* stops the execution of its job, however the cancel, `ready` and a re-run overlap, unless
\* the call gave up before, or the publish of the cancel or of that `ready` failed.
CancelStopsTheJob ==
    \A r \in Runs : (aborted /\ holder = r /\ step[r] = "running")
                        ~> \/ holder # r \/ step[r] # "running"
                           \/ caller = "closed" \/ cancelLost \/ 1 \in gaps[r]

\* The same two as the header comment states them, without the exceptions.
EveryChunkAlways ==
    returned /\ result = followed => replayed[result] = ChunksUpTo(result, sent[result])

NoCancelIsLost ==
    \A r \in Runs : (aborted /\ holder = r /\ step[r] = "running")
                        ~> (holder # r \/ step[r] # "running")

=============================================================================
