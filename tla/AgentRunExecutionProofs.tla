---------------------- MODULE AgentRunExecutionProofs ----------------------
(***************************************************************************)
(* Proofs about AgentRunExecution, for every set of workers and of         *)
(* concurrent resumes, every bound and every set of interruptions.         *)
(*                                                                         *)
(* OneTurnAtATime is not inductive: it says nothing of a worker that has   *)
(* claimed the row but not started, or whose turn outlived the row.        *)
(* TurnInv adds them: a worker is engaged from its claim until both it and *)
(* its turn are over, at most one is, and the row is then `running` or has *)
(* its outcome, so that nobody else can claim or continue the run.         *)
(***************************************************************************)
EXTENDS AgentRunExecution, TLAPS

Engaged(w) == pc[w] \notin {"idle", "claim"} \/ InFlight(w)

EngagedInv ==
    \A w \in Workers :
        Engaged(w) =>
            /\ status \in {"running"} \cup Terminal
            /\ ~inline
            /\ \A v \in Workers : Engaged(v) => v = w

InlineInv == inline => status \in {"requires_action"} \cup Terminal

\* A worker that is about to pause the run has a turn that is over.
PauseInv == \A w \in Workers : pc[w] = "requires_action" => turn[w] = "paused"

TurnInv == EngagedInv /\ InlineInv /\ PauseInv

\* The steps of one worker and its turn.
StepOf(w) ==
    \/ DeliverJob(w) \/ WorkerStep(w) \/ Heartbeat(w) \/ Deadline(w)
    \/ TurnLooksAtCell(w) \/ TurnWrites(w) \/ DrainEndsRow(w) \/ NodeDies(w)

-----------------------------------------------------------------------------
(***************************************************************************)
(* Types                                                                   *)
(***************************************************************************)
LEMMA TypeInit == Init => TypeOK
<1> SUFFICES ASSUME Init PROVE TypeOK
    OBVIOUS
<1>1. jobs \in 0..MaxJobs /\ keys \subseteq Nat
    BY ExecutionAssumption DEF Init
<1>2. resumer \in [Resumers -> [gen : Nat, pause : Nat]]
    BY DEF Init, NotResuming
<1> QED
    BY <1>1, <1>2 DEF Init, TypeOK, Status, Terminal, PCs, Turns

LEMMA TypeStep == TypeOK /\ [Next]_vars => TypeOK'
<1> SUFFICES ASSUME TypeOK, [Next]_vars PROVE TypeOK'
    OBVIOUS
<1> USE ExecutionAssumption DEF TypeOK, Status, Terminal, PCs, Turns,
        row, worker, queue, others, history, Goto
<1>1. ASSUME NEW w \in Workers, DeliverJob(w) PROVE TypeOK'
    BY <1>1 DEF DeliverJob
<1>2. ASSUME NEW w \in Workers, ClaimAgentRun(w) PROVE TypeOK'
    BY <1>2 DEF ClaimAgentRun
<1>3. ASSUME NEW w \in Workers, StartTurn(w) PROVE TypeOK'
  <2>1. pc' \in [Workers -> PCs] /\ turn' \in [Workers -> Turns]
    BY <1>3 DEF StartTurn
  <2>2. cell' \in [Workers -> {"live", "cancelled", "abandoned"}]
        /\ byCaller' \in [Workers -> BOOLEAN]
    BY <1>3 DEF StartTurn
  <2> QED
    BY <1>3, <2>1, <2>2 DEF StartTurn
<1>4. ASSUME NEW w \in Workers, CancelPoll(w) PROVE TypeOK'
    BY <1>4 DEF CancelPoll, Supersede
<1>5. ASSUME NEW w \in Workers, CancelObserved(w) PROVE TypeOK'
    BY <1>5 DEF CancelObserved
<1>6. ASSUME NEW w \in Workers, TailLanded(w) PROVE TypeOK'
    BY <1>6 DEF TailLanded
<1>7. ASSUME NEW w \in Workers, TurnReturned(w) PROVE TypeOK'
    BY <1>7 DEF TurnReturned
<1>8. ASSUME NEW w \in Workers, Finalize(w) PROVE TypeOK'
    BY <1>8 DEF Finalize, FinalizeAgentRun
<1>9. ASSUME NEW w \in Workers, DrainAbandonsTurn(w) PROVE TypeOK'
    BY <1>9 DEF DrainAbandonsTurn
<1>10. ASSUME NEW w \in Workers, Heartbeat(w) PROVE TypeOK'
    BY <1>10 DEF Heartbeat, Supersede
<1>11. ASSUME NEW w \in Workers, Deadline(w) PROVE TypeOK'
    BY <1>11 DEF Deadline
<1>12. ASSUME NEW w \in Workers, TurnLooksAtCell(w) PROVE TypeOK'
    BY <1>12 DEF TurnLooksAtCell
<1>13. ASSUME NEW w \in Workers, TurnWrites(w) PROVE TypeOK'
    BY <1>13 DEF TurnWrites
<1>14. ASSUME NEW w \in Workers, DrainEndsRow(w) PROVE TypeOK'
    BY <1>14 DEF DrainEndsRow, FinalizeAgentRun
<1>15. ASSUME NEW w \in Workers, NodeDies(w) PROVE TypeOK'
    BY <1>15 DEF NodeDies
<1>16. ASSUME CancelReads PROVE TypeOK'
    BY <1>16 DEF CancelReads
<1>17. ASSUME RequestAgentRunCancel PROVE TypeOK'
    BY <1>17 DEF RequestAgentRunCancel
<1>18. ASSUME CancelPausedRun PROVE TypeOK'
    BY <1>18 DEF CancelPausedRun, FinalizeAgentRun
<1>19. ASSUME NEW s \in Resumers, ResumeReads(s) PROVE TypeOK'
    BY <1>19 DEF ResumeReads
<1>20. ASSUME NEW s \in Resumers, ResumeWrites(s) PROVE TypeOK'
    <2> DEFINE g == resumer[s].gen + 1
    <2>1. g \in Nat
        OBVIOUS
    <2>2. resumer' \in [Resumers -> [gen : Nat, pause : Nat]]
        BY <1>20 DEF ResumeWrites, NotResuming
    <2>3. keys' \subseteq Nat /\ jobs' \in 0..MaxJobs
        <3>1. Publish(g) \/ UNCHANGED queue
            BY <1>20 DEF ResumeWrites
        <3> HIDE DEF g
        <3>2. keys' \subseteq Nat
            BY <2>1, <3>1 DEF Publish
        <3>3. jobs' \in 0..MaxJobs
            BY <2>1, <3>1 DEF Publish
        <3> QED
            BY <3>2, <3>3
    <2>4. status' \in Status /\ gen' \in Nat /\ owner' \in Workers \cup {NoWorker} /\ cancelAt' \in BOOLEAN
        BY <1>20, <2>1 DEF ResumeWrites
    <2> QED
        BY <1>20, <2>2, <2>3, <2>4 DEF ResumeWrites
<1>21. ASSUME InlineContinues PROVE TypeOK'
    BY <1>21 DEF InlineContinues
<1>22. ASSUME InlineSettles PROVE TypeOK'
    <2>1. status' \in Status /\ pauses' \in Nat
        BY <1>22 DEF InlineSettles, FinalizeAgentRun
    <2> QED
        BY <1>22, <2>1 DEF InlineSettles
<1>23. ASSUME SweepLists PROVE TypeOK'
    BY <1>23 DEF SweepLists
<1>24. ASSUME SweepFails PROVE TypeOK'
    BY <1>24 DEF SweepFails, FinalizeAgentRun
<1>25. ASSUME Republish PROVE TypeOK'
    BY <1>25 DEF Republish
<1>26. ASSUME JobLost PROVE TypeOK'
    BY <1>26 DEF JobLost
<1>27. ASSUME HeartbeatGoesStale PROVE TypeOK'
    BY <1>27 DEF HeartbeatGoesStale
<1>28. CASE UNCHANGED vars
    BY <1>28 DEF vars
<1> QED
    BY <1>1, <1>2, <1>3, <1>4, <1>5, <1>6, <1>7, <1>8, <1>9, <1>10, <1>11, <1>12, <1>13,
       <1>14, <1>15, <1>16, <1>17, <1>18, <1>19, <1>20, <1>21, <1>22, <1>23, <1>24,
       <1>25, <1>26, <1>27, <1>28 DEF Next, WorkerStep

\* The row, the queue and every actor stay within their types at every step of a run's
\* execution; in particular the queue never holds more than MaxJobs jobs of the run.
THEOREM ExecutionTypeCorrect == Spec => []TypeOK
BY TypeInit, TypeStep, PTL DEF Spec

-----------------------------------------------------------------------------
(***************************************************************************)
(* One turn at a time                                                      *)
(***************************************************************************)
LEMMA TurnInvInit == Init => TurnInv
BY DEF Init, TurnInv, EngagedInv, InlineInv, PauseInv, Engaged, InFlight

LEMMA TurnInvStep == TypeOK /\ TurnInv /\ [Next]_vars => TurnInv'
<1> SUFFICES ASSUME TypeOK, TurnInv, [Next]_vars PROVE TurnInv'
    OBVIOUS
<1> USE DEF TypeOK, TurnInv, EngagedInv, InlineInv, PauseInv, Engaged, InFlight, Terminal,
        row, worker, queue, others, history, Goto
<1>1. ASSUME NEW w \in Workers, DeliverJob(w) PROVE TurnInv'
    BY <1>1 DEF DeliverJob
<1>2. ASSUME NEW w \in Workers, ClaimAgentRun(w) PROVE TurnInv'
    BY <1>2 DEF ClaimAgentRun
<1>3. ASSUME NEW w \in Workers, StartTurn(w) PROVE TurnInv'
    BY <1>3 DEF StartTurn
<1>4. ASSUME NEW w \in Workers, CancelPoll(w) PROVE TurnInv'
    BY <1>4 DEF CancelPoll, Supersede
<1>5. ASSUME NEW w \in Workers, CancelObserved(w) PROVE TurnInv'
    BY <1>5 DEF CancelObserved
<1>6. ASSUME NEW w \in Workers, TailLanded(w) PROVE TurnInv'
    BY <1>6 DEF TailLanded
<1>7. ASSUME NEW w \in Workers, TurnReturned(w) PROVE TurnInv'
    BY <1>7 DEF TurnReturned
<1>8. ASSUME NEW w \in Workers, Finalize(w) PROVE TurnInv'
    BY <1>8 DEF Finalize, FinalizeAgentRun
<1>9. ASSUME NEW w \in Workers, DrainAbandonsTurn(w) PROVE TurnInv'
    BY <1>9 DEF DrainAbandonsTurn
<1>10. ASSUME NEW w \in Workers, Heartbeat(w) PROVE TurnInv'
    BY <1>10 DEF Heartbeat, Supersede
<1>11. ASSUME NEW w \in Workers, Deadline(w) PROVE TurnInv'
    BY <1>11 DEF Deadline
<1>12. ASSUME NEW w \in Workers, TurnLooksAtCell(w) PROVE TurnInv'
    BY <1>12 DEF TurnLooksAtCell
<1>13. ASSUME NEW w \in Workers, TurnWrites(w) PROVE TurnInv'
    BY <1>13 DEF TurnWrites
<1>14. ASSUME NEW w \in Workers, DrainEndsRow(w) PROVE TurnInv'
    BY <1>14 DEF DrainEndsRow, FinalizeAgentRun
<1>15. ASSUME NEW w \in Workers, NodeDies(w) PROVE TurnInv'
    BY <1>15 DEF NodeDies
<1>16. ASSUME CancelReads PROVE TurnInv'
    BY <1>16 DEF CancelReads
<1>17. ASSUME RequestAgentRunCancel PROVE TurnInv'
    BY <1>17 DEF RequestAgentRunCancel
<1>18. ASSUME CancelPausedRun PROVE TurnInv'
    BY <1>18 DEF CancelPausedRun, FinalizeAgentRun
<1>19. ASSUME NEW s \in Resumers, ResumeReads(s) PROVE TurnInv'
    BY <1>19 DEF ResumeReads
<1>20. ASSUME NEW s \in Resumers, ResumeWrites(s) PROVE TurnInv'
    BY <1>20 DEF ResumeWrites
<1>21. ASSUME InlineContinues PROVE TurnInv'
    BY <1>21 DEF InlineContinues
<1>22. ASSUME InlineSettles PROVE TurnInv'
    BY <1>22 DEF InlineSettles, FinalizeAgentRun
<1>23. ASSUME SweepLists PROVE TurnInv'
    BY <1>23 DEF SweepLists
<1>24. ASSUME SweepFails PROVE TurnInv'
    BY <1>24 DEF SweepFails, FinalizeAgentRun
<1>25. ASSUME Republish PROVE TurnInv'
    BY <1>25 DEF Republish
<1>26. ASSUME JobLost PROVE TurnInv'
    BY <1>26 DEF JobLost
<1>27. ASSUME HeartbeatGoesStale PROVE TurnInv'
    BY <1>27 DEF HeartbeatGoesStale
<1>28. CASE UNCHANGED vars
    BY <1>28 DEF vars
<1> QED
    BY <1>1, <1>2, <1>3, <1>4, <1>5, <1>6, <1>7, <1>8, <1>9, <1>10, <1>11, <1>12,
       <1>13, <1>14, <1>15, <1>16, <1>17, <1>18, <1>19, <1>20, <1>21, <1>22, <1>23, <1>24,
       <1>25, <1>26, <1>27, <1>28 DEF Next, WorkerStep

\* The run's turn is never executed twice at once: the claim takes only a queued row,
\* and from the claim to the end of the turn the row is running or has its outcome,
\* which no claim, resume or inline continuation gets past.
THEOREM OneTurn == Spec => []OneTurnAtATime
<1>1. TurnInv => OneTurnAtATime
    BY DEF TurnInv, EngagedInv, Engaged, OneTurnAtATime
<1> QED
    BY <1>1, TypeInit, TypeStep, TurnInvInit, TurnInvStep, PTL DEF Spec

\* An outcome stays as it was recorded: every write of the status is a
\* compare-and-set that no final status passes.
THEOREM OutcomeStays == Spec => OutcomeIsFinal
<1>1. [Next]_vars => [(status \in Terminal) => (status' = status)]_vars
  <2> SUFFICES ASSUME [Next]_vars, status \in Terminal PROVE status' = status
    OBVIOUS
  <2> USE DEF Terminal, row, worker, queue, others, history
  <2>1. ASSUME NEW w \in Workers, StepOf(w) PROVE status' = status
    BY <2>1 DEF StepOf, WorkerStep, DeliverJob, ClaimAgentRun, StartTurn, CancelPoll,
        CancelObserved, TailLanded, TurnReturned, Finalize, FinalizeAgentRun,
        DrainAbandonsTurn, Heartbeat, Deadline, TurnLooksAtCell, TurnWrites, DrainEndsRow,
        NodeDies
  <2>2. ASSUME NEW s \in Resumers, ResumeReads(s) \/ ResumeWrites(s) PROVE status' = status
    BY <2>2 DEF ResumeReads, ResumeWrites
  <2>3. CASE CancelReads \/ RequestAgentRunCancel \/ CancelPausedRun
             \/ InlineContinues \/ InlineSettles
    BY <2>3 DEF CancelReads, RequestAgentRunCancel, CancelPausedRun, FinalizeAgentRun,
        InlineContinues, InlineSettles
  <2>4. CASE SweepLists \/ SweepFails \/ Republish \/ JobLost \/ HeartbeatGoesStale
    BY <2>4 DEF SweepLists, SweepFails, FinalizeAgentRun, Republish, JobLost, HeartbeatGoesStale
  <2>5. CASE UNCHANGED vars
    BY <2>5 DEF vars
  <2> QED
    BY <2>1, <2>2, <2>3, <2>4, <2>5 DEF Next, StepOf
<1> QED
    BY <1>1, PTL DEF Spec, OutcomeIsFinal

-----------------------------------------------------------------------------
(***************************************************************************)
(* The slot outlives the turn.                                             *)
(*                                                                         *)
(* SlotInv says who may still end a running row from within: its owner,    *)
(* when the turn is over or was given up.  A cell tripped by anybody but   *)
(* the caller means that the row is already final.                         *)
(***************************************************************************)
SlotInv ==
    \A w \in Workers :
        /\ Engaged(w) /\ status = "running" => owner = w
        /\ pc[w] \in {"claim", "check"} => ~InFlight(w) /\ drain[w] = "no"
        /\ InFlight(w) /\ status = "running" => pc[w] \in {"race", "tail"} \/ cell[w] = "abandoned"
        /\ pc[w] = "race" /\ cell[w] # "live" /\ ~byCaller[w] => status \in Terminal
        /\ drain[w] = "ended" /\ Engaged(w) => status \in Terminal

LEMMA SlotInvInit == Init => SlotInv
BY DEF Init, SlotInv, Engaged, InFlight

LEMMA SlotInvStep == TypeOK /\ TurnInv /\ SlotInv /\ [Next]_vars => SlotInv'
<1> SUFFICES ASSUME TypeOK, TurnInv, SlotInv, [Next]_vars PROVE SlotInv'
    OBVIOUS
<1> USE DEF TypeOK, TurnInv, EngagedInv, PauseInv, SlotInv, Engaged, InFlight,
        Terminal, row, worker, queue, others, history, Goto
<1>1. ASSUME NEW w \in Workers, DeliverJob(w) PROVE SlotInv'
    BY <1>1 DEF DeliverJob
<1>2. ASSUME NEW w \in Workers, ClaimAgentRun(w) PROVE SlotInv'
    BY <1>2 DEF ClaimAgentRun
<1>3. ASSUME NEW w \in Workers, StartTurn(w) PROVE SlotInv'
    BY <1>3 DEF StartTurn
<1>4. ASSUME NEW w \in Workers, CancelPoll(w) PROVE SlotInv'
    BY <1>4 DEF CancelPoll, Supersede
<1>5. ASSUME NEW w \in Workers, CancelObserved(w) PROVE SlotInv'
  <2>1. cell[w] # "live"
    BY <1>5 DEF CancelObserved, Tripped
  <2> QED
    BY <1>5, <2>1 DEF CancelObserved
<1>6. ASSUME NEW w \in Workers, TailLanded(w) PROVE SlotInv'
    BY <1>6 DEF TailLanded
<1>7. ASSUME NEW w \in Workers, TurnReturned(w) PROVE SlotInv'
    BY <1>7 DEF TurnReturned
<1>8. ASSUME NEW w \in Workers, Finalize(w) PROVE SlotInv'
    BY <1>8 DEF Finalize, FinalizeAgentRun
<1>9. ASSUME NEW w \in Workers, DrainAbandonsTurn(w) PROVE SlotInv'
    BY <1>9 DEF DrainAbandonsTurn
<1>10. ASSUME NEW w \in Workers, Heartbeat(w) PROVE SlotInv'
    BY <1>10 DEF Heartbeat, Supersede
<1>11. ASSUME NEW w \in Workers, Deadline(w) PROVE SlotInv'
    BY <1>11 DEF Deadline
<1>12. ASSUME NEW w \in Workers, TurnLooksAtCell(w) PROVE SlotInv'
    BY <1>12 DEF TurnLooksAtCell
<1>13. ASSUME NEW w \in Workers, TurnWrites(w) PROVE SlotInv'
    BY <1>13 DEF TurnWrites
<1>14. ASSUME NEW w \in Workers, DrainEndsRow(w) PROVE SlotInv'
    BY <1>14 DEF DrainEndsRow, FinalizeAgentRun
<1>15. ASSUME NEW w \in Workers, NodeDies(w) PROVE SlotInv'
    BY <1>15 DEF NodeDies
<1>16. ASSUME CancelReads PROVE SlotInv'
    BY <1>16 DEF CancelReads
<1>17. ASSUME RequestAgentRunCancel PROVE SlotInv'
    BY <1>17 DEF RequestAgentRunCancel
<1>18. ASSUME CancelPausedRun PROVE SlotInv'
    BY <1>18 DEF CancelPausedRun, FinalizeAgentRun
<1>19. ASSUME NEW s \in Resumers, ResumeReads(s) PROVE SlotInv'
    BY <1>19 DEF ResumeReads
<1>20. ASSUME NEW s \in Resumers, ResumeWrites(s) PROVE SlotInv'
    BY <1>20 DEF ResumeWrites
<1>21. ASSUME InlineContinues PROVE SlotInv'
    BY <1>21 DEF InlineContinues
<1>22. ASSUME InlineSettles PROVE SlotInv'
    BY <1>22 DEF InlineSettles, FinalizeAgentRun
<1>23. ASSUME SweepLists PROVE SlotInv'
    BY <1>23 DEF SweepLists
<1>24. ASSUME SweepFails PROVE SlotInv'
    BY <1>24 DEF SweepFails, FinalizeAgentRun
<1>25. ASSUME Republish PROVE SlotInv'
    BY <1>25 DEF Republish
<1>26. ASSUME JobLost PROVE SlotInv'
    BY <1>26 DEF JobLost
<1>27. ASSUME HeartbeatGoesStale PROVE SlotInv'
    BY <1>27 DEF HeartbeatGoesStale
<1>28. CASE UNCHANGED vars
    BY <1>28 DEF vars
<1> QED
    BY <1>1, <1>2, <1>3, <1>4, <1>5, <1>6, <1>7, <1>8, <1>9, <1>10, <1>11, <1>12,
       <1>13, <1>14, <1>15, <1>16, <1>17, <1>18, <1>19, <1>20, <1>21, <1>22, <1>23, <1>24,
       <1>25, <1>26, <1>27, <1>28 DEF Next, WorkerStep

LEMMA SlotStep ==
    TypeOK /\ TurnInv /\ SlotInv /\ [Next]_vars =>
        [(status = "running" /\ status' # "running")
            => \A w \in Workers : InFlight(w) => CutsIn(w)]_vars
<1> SUFFICES ASSUME TypeOK, TurnInv, SlotInv, [Next]_vars, status = "running", status' # "running",
                    NEW v \in Workers, InFlight(v), ~CutsIn(v)
             PROVE  FALSE
    OBVIOUS
<1> USE DEF row, worker, queue, others, history
<1>1. Engaged(v) /\ pc[v] \in {"race", "tail"}
    BY DEF Engaged, SlotInv, CutsIn
<1>2. ASSUME NEW w \in Workers, StepOf(w) PROVE FALSE
  <2>1. ASSUME Engaged(w) PROVE w = v
    BY <1>1, <2>1 DEF TurnInv, EngagedInv
  <2>2. CASE Finalize(w)
    <3>1. w = v
        BY <2>1, <2>2 DEF Finalize, Engaged, Terminal
    <3> QED
        BY <2>2, <1>1, <3>1 DEF Finalize, Terminal
  <2>3. CASE DrainEndsRow(w)
    <3>1. w = v
        BY <2>1, <2>3 DEF DrainEndsRow, Engaged
    <3>2. drain'[v] # drain[v]
        BY <2>3, <3>1 DEF DrainEndsRow, TypeOK
    <3> QED
        BY <3>2 DEF CutsIn
  <2>4. CASE ~Finalize(w) /\ ~DrainEndsRow(w)
    BY <1>2, <2>4 DEF StepOf, WorkerStep, DeliverJob, ClaimAgentRun, StartTurn, CancelPoll,
        CancelObserved, TailLanded, TurnReturned, DrainAbandonsTurn, Heartbeat, Deadline,
        TurnLooksAtCell, TurnWrites, NodeDies
  <2> QED
    BY <2>2, <2>3, <2>4
<1>3. ASSUME NEW s \in Resumers, ResumeReads(s) \/ ResumeWrites(s) PROVE FALSE
    BY <1>3 DEF ResumeReads, ResumeWrites
<1>4. CASE CancelPausedRun \/ SweepFails
    BY <1>4 DEF CutsIn
<1>5. CASE CancelReads \/ RequestAgentRunCancel \/ InlineContinues \/ InlineSettles
    BY <1>5 DEF CancelReads, RequestAgentRunCancel, InlineContinues, InlineSettles
<1>6. CASE SweepLists \/ Republish \/ JobLost \/ HeartbeatGoesStale
    BY <1>6 DEF SweepLists, Republish, JobLost, HeartbeatGoesStale
<1>7. CASE UNCHANGED vars
    BY <1>7 DEF vars
<1> QED
    BY <1>2, <1>3, <1>4, <1>5, <1>6, <1>7 DEF Next, StepOf

\* Except where the ceiling, the drain, the sweep or the cancel of a paused run cuts in,
\* the row gives the conversation's slot up only after the turn has written: an answer, a
\* pause, a failure and the caller's cancel all wait for the turn.
THEOREM SlotKept == Spec => SlotOutlivesTurn
<1>1. Init => TypeOK /\ TurnInv /\ SlotInv
    BY TypeInit, TurnInvInit, SlotInvInit
<1>2. (TypeOK /\ TurnInv /\ SlotInv) /\ [Next]_vars => (TypeOK /\ TurnInv /\ SlotInv)'
    BY TypeStep, TurnInvStep, SlotInvStep
<1> QED
    BY <1>1, <1>2, SlotStep, PTL DEF Spec, SlotOutlivesTurn

-----------------------------------------------------------------------------
(***************************************************************************)
(* What is left when something cuts in, and what holds when nothing does   *)
(***************************************************************************)

\* A turn that writes late writes after its run's outcome: it is engaged, and so the row is
\* running under its worker or final.
THEOREM LateWritesAfterOutcome == Spec => LateWriteAfterOutcome
<1>1. TypeOK /\ TurnInv /\ SlotInv /\ [Next]_vars =>
        [\A w \in Workers : TurnWrites(w) => \/ status = "running" /\ owner = w
                                             \/ status \in Terminal]_vars
  <2> SUFFICES ASSUME TurnInv, SlotInv, NEW w \in Workers, TurnWrites(w)
               PROVE  (status = "running" /\ owner = w) \/ status \in Terminal
    OBVIOUS
  <2>1. Engaged(w)
    BY DEF TurnWrites, Engaged, InFlight
  <2> QED
    BY <2>1 DEF TurnInv, EngagedInv, SlotInv
<1>2. Init => TypeOK /\ TurnInv /\ SlotInv
    BY TypeInit, TurnInvInit, SlotInvInit
<1>3. (TypeOK /\ TurnInv /\ SlotInv) /\ [Next]_vars => (TypeOK /\ TurnInv /\ SlotInv)'
    BY TypeStep, TurnInvStep, SlotInvStep
<1> QED
    BY <1>1, <1>2, <1>3, PTL DEF Spec, LateWriteAfterOutcome

\* The stale sweep lists a run whose owner is gone: while nothing stalls a live worker's
\* heartbeat, a stale row has an owner that is idle and without a turn, and nobody but the
\* sweep ends such a row.
LostOwner == status = "running" /\ pc[owner] \in {"idle", "claim"} /\ ~InFlight(owner)

LostInv ==
    /\ status = "running" => owner \in Workers
    /\ \A w \in Workers : pc[w] \in {"idle", "claim"} /\ InFlight(w) => status \in Terminal
    /\ status = "running" /\ stale => LostOwner
    /\ sweep => LostOwner \/ status \in Terminal

LEMMA LostInvInit == Init => LostInv
BY DEF Init, LostInv, InFlight

LEMMA LostInvStep ==
    ASSUME "stall" \notin Interruptions
    PROVE  TypeOK /\ TurnInv /\ SlotInv /\ LostInv /\ [Next]_vars => LostInv'
<1> SUFFICES ASSUME TypeOK, TurnInv, SlotInv, LostInv, [Next]_vars PROVE LostInv'
    OBVIOUS
<1> USE DEF TypeOK, TurnInv, EngagedInv, PauseInv, SlotInv, LostInv, LostOwner, Engaged, InFlight,
        Terminal, row, worker, queue, others, history, Goto
<1>1. ASSUME NEW w \in Workers, DeliverJob(w) PROVE LostInv'
    BY <1>1 DEF DeliverJob
<1>2. ASSUME NEW w \in Workers, ClaimAgentRun(w) PROVE LostInv'
    BY <1>2 DEF ClaimAgentRun
<1>3. ASSUME NEW w \in Workers, StartTurn(w) PROVE LostInv'
    BY <1>3 DEF StartTurn
<1>4. ASSUME NEW w \in Workers, CancelPoll(w) PROVE LostInv'
    BY <1>4 DEF CancelPoll, Supersede
<1>5. ASSUME NEW w \in Workers, CancelObserved(w) PROVE LostInv'
    BY <1>5 DEF CancelObserved
<1>6. ASSUME NEW w \in Workers, TailLanded(w) PROVE LostInv'
    BY <1>6 DEF TailLanded
<1>7. ASSUME NEW w \in Workers, TurnReturned(w) PROVE LostInv'
    BY <1>7 DEF TurnReturned
<1>8. ASSUME NEW w \in Workers, Finalize(w) PROVE LostInv'
    BY <1>8 DEF Finalize, FinalizeAgentRun
<1>9. ASSUME NEW w \in Workers, DrainAbandonsTurn(w) PROVE LostInv'
    BY <1>9 DEF DrainAbandonsTurn
<1>10. ASSUME NEW w \in Workers, Heartbeat(w) PROVE LostInv'
    BY <1>10 DEF Heartbeat, Supersede
<1>11. ASSUME NEW w \in Workers, Deadline(w) PROVE LostInv'
    BY <1>11 DEF Deadline
<1>12. ASSUME NEW w \in Workers, TurnLooksAtCell(w) PROVE LostInv'
    BY <1>12 DEF TurnLooksAtCell
<1>13. ASSUME NEW w \in Workers, TurnWrites(w) PROVE LostInv'
    BY <1>13 DEF TurnWrites
<1>14. ASSUME NEW w \in Workers, DrainEndsRow(w) PROVE LostInv'
    BY <1>14 DEF DrainEndsRow, FinalizeAgentRun
<1>15. ASSUME NEW w \in Workers, NodeDies(w) PROVE LostInv'
    BY <1>15 DEF NodeDies
<1>16. ASSUME CancelReads PROVE LostInv'
    BY <1>16 DEF CancelReads
<1>17. ASSUME RequestAgentRunCancel PROVE LostInv'
    BY <1>17 DEF RequestAgentRunCancel
<1>18. ASSUME CancelPausedRun PROVE LostInv'
    BY <1>18 DEF CancelPausedRun, FinalizeAgentRun
<1>19. ASSUME NEW s \in Resumers, ResumeReads(s) PROVE LostInv'
    BY <1>19 DEF ResumeReads
<1>20. ASSUME NEW s \in Resumers, ResumeWrites(s) PROVE LostInv'
    BY <1>20 DEF ResumeWrites
<1>21. ASSUME InlineContinues PROVE LostInv'
    BY <1>21 DEF InlineContinues
<1>22. ASSUME InlineSettles PROVE LostInv'
    BY <1>22 DEF InlineSettles, FinalizeAgentRun
<1>23. ASSUME SweepLists PROVE LostInv'
    BY <1>23 DEF SweepLists
<1>24. ASSUME SweepFails PROVE LostInv'
    BY <1>24 DEF SweepFails, FinalizeAgentRun
<1>25. ASSUME Republish PROVE LostInv'
    BY <1>25 DEF Republish
<1>26. ASSUME JobLost PROVE LostInv'
    BY <1>26 DEF JobLost
<1>27. ASSUME HeartbeatGoesStale PROVE LostInv'
    BY <1>27 DEF HeartbeatGoesStale
<1>28. CASE UNCHANGED vars
    BY <1>28 DEF vars
<1> QED
    BY <1>1, <1>2, <1>3, <1>4, <1>5, <1>6, <1>7, <1>8, <1>9, <1>10, <1>11, <1>12,
       <1>13, <1>14, <1>15, <1>16, <1>17, <1>18, <1>19, <1>20, <1>21, <1>22, <1>23, <1>24,
       <1>25, <1>26, <1>27, <1>28 DEF Next, WorkerStep

\* A heartbeat that stalls under a live worker is the only way for the sweep to end a run
\* that has paused since it was listed: without it, the swept run is running.
THEOREM SweepEndsRunning ==
    ASSUME "stall" \notin Interruptions PROVE Spec => SweepEndsRunningOnly
<1>1. LostInv /\ [Next]_vars => [SweepFails /\ status' # status => status = "running"]_vars
    BY DEF LostInv, LostOwner, SweepFails, FinalizeAgentRun, Terminal
<1>2. Init => TypeOK /\ TurnInv /\ SlotInv /\ LostInv
    BY TypeInit, TurnInvInit, SlotInvInit, LostInvInit
<1>3. (TypeOK /\ TurnInv /\ SlotInv /\ LostInv) /\ [Next]_vars => (TypeOK /\ TurnInv /\ SlotInv /\ LostInv)'
    BY TypeStep, TurnInvStep, SlotInvStep, LostInvStep
<1> QED
    BY <1>1, <1>2, <1>3, PTL DEF Spec, SweepEndsRunningOnly

\* While nobody resumes, a run that was read as paused is paused or over.
ReadPausedInv == canceler = "paused" => status \in {"requires_action"} \cup Terminal

\* A resume between its read and its write is the only way for cancelPausedRun to end a run
\* that is not paused any more.
THEOREM CancelEndsPaused ==
    ASSUME Resumers = {} PROVE Spec => CancelPausedEndsPausedOnly
<1>1. ReadPausedInv /\ [Next]_vars =>
        [CancelPausedRun /\ status' # status => status = "requires_action"]_vars
    BY DEF ReadPausedInv, CancelPausedRun, FinalizeAgentRun, Terminal
<1>2. Init => ReadPausedInv
    BY DEF Init, ReadPausedInv
<1>3. TurnInv /\ ReadPausedInv /\ [Next]_vars => ReadPausedInv'
  <2> SUFFICES ASSUME TurnInv, ReadPausedInv, [Next]_vars PROVE ReadPausedInv'
    OBVIOUS
  <2> USE DEF ReadPausedInv, Terminal, row, worker, queue, others, history
  <2>1. ASSUME NEW w \in Workers, StepOf(w) PROVE ReadPausedInv'
    BY <2>1 DEF StepOf, WorkerStep, DeliverJob, ClaimAgentRun, StartTurn, CancelPoll,
        CancelObserved, TailLanded, TurnReturned, Finalize, FinalizeAgentRun,
        DrainAbandonsTurn, Heartbeat, Deadline, TurnLooksAtCell, TurnWrites, DrainEndsRow,
        NodeDies
  <2>2. CASE CancelReads \/ RequestAgentRunCancel \/ CancelPausedRun
             \/ InlineContinues \/ InlineSettles
    BY <2>2 DEF CancelReads, RequestAgentRunCancel, CancelPausedRun, FinalizeAgentRun,
        InlineContinues, InlineSettles
  <2>3. CASE SweepLists \/ SweepFails \/ Republish \/ JobLost \/ HeartbeatGoesStale
    BY <2>3 DEF SweepLists, SweepFails, FinalizeAgentRun, Republish, JobLost, HeartbeatGoesStale
  <2>4. CASE UNCHANGED vars
    BY <2>4 DEF vars
  <2> QED
    BY <2>1, <2>2, <2>3, <2>4 DEF Next, StepOf
<1> QED
    BY <1>1, <1>2, <1>3, TypeInit, TypeStep, TurnInvInit, TurnInvStep, PTL
    DEF Spec, CancelPausedEndsPausedOnly

\* While nothing cuts in, the row is running under its worker from the claim to the end.
QuietInv ==
    /\ \A w \in Workers :
        /\ Engaged(w) => status = "running" /\ owner = w
        /\ cell[w] # "abandoned" /\ drain[w] = "no"
    /\ canceler # "paused"

LEMMA QuietInvInit == Init => QuietInv
BY DEF Init, QuietInv, Engaged, InFlight

LEMMA QuietInvStep ==
    ASSUME Interruptions = {}
    PROVE  TypeOK /\ TurnInv /\ SlotInv /\ LostInv /\ QuietInv /\ [Next]_vars => QuietInv'
<1> SUFFICES ASSUME TypeOK, TurnInv, SlotInv, LostInv, QuietInv, [Next]_vars PROVE QuietInv'
    OBVIOUS
<1> USE DEF TypeOK, TurnInv, EngagedInv, PauseInv, SlotInv, LostInv, LostOwner, QuietInv, Engaged,
        InFlight, Terminal, row, worker, queue, others, history, Goto
<1>1. ASSUME NEW w \in Workers, DeliverJob(w) PROVE QuietInv'
    BY <1>1 DEF DeliverJob
<1>2. ASSUME NEW w \in Workers, ClaimAgentRun(w) PROVE QuietInv'
    BY <1>2 DEF ClaimAgentRun
<1>3. ASSUME NEW w \in Workers, StartTurn(w) PROVE QuietInv'
    BY <1>3 DEF StartTurn
<1>4. ASSUME NEW w \in Workers, CancelPoll(w) PROVE QuietInv'
    BY <1>4 DEF CancelPoll, Supersede
<1>5. ASSUME NEW w \in Workers, CancelObserved(w) PROVE QuietInv'
    BY <1>5 DEF CancelObserved
<1>6. ASSUME NEW w \in Workers, TailLanded(w) PROVE QuietInv'
    BY <1>6 DEF TailLanded
<1>7. ASSUME NEW w \in Workers, TurnReturned(w) PROVE QuietInv'
    BY <1>7 DEF TurnReturned
<1>8. ASSUME NEW w \in Workers, Finalize(w) PROVE QuietInv'
    BY <1>8 DEF Finalize, FinalizeAgentRun
<1>9. ASSUME NEW w \in Workers, DrainAbandonsTurn(w) PROVE QuietInv'
    BY <1>9 DEF DrainAbandonsTurn
<1>10. ASSUME NEW w \in Workers, Heartbeat(w) PROVE QuietInv'
    BY <1>10 DEF Heartbeat, Supersede
<1>11. ASSUME NEW w \in Workers, Deadline(w) PROVE QuietInv'
    BY <1>11 DEF Deadline
<1>12. ASSUME NEW w \in Workers, TurnLooksAtCell(w) PROVE QuietInv'
    BY <1>12 DEF TurnLooksAtCell
<1>13. ASSUME NEW w \in Workers, TurnWrites(w) PROVE QuietInv'
    BY <1>13 DEF TurnWrites
<1>14. ASSUME NEW w \in Workers, DrainEndsRow(w) PROVE QuietInv'
    BY <1>14 DEF DrainEndsRow, FinalizeAgentRun
<1>15. ASSUME NEW w \in Workers, NodeDies(w) PROVE QuietInv'
    BY <1>15 DEF NodeDies
<1>16. ASSUME CancelReads PROVE QuietInv'
    BY <1>16 DEF CancelReads
<1>17. ASSUME RequestAgentRunCancel PROVE QuietInv'
    BY <1>17 DEF RequestAgentRunCancel
<1>18. ASSUME CancelPausedRun PROVE QuietInv'
    BY <1>18 DEF CancelPausedRun, FinalizeAgentRun
<1>19. ASSUME NEW s \in Resumers, ResumeReads(s) PROVE QuietInv'
    BY <1>19 DEF ResumeReads
<1>20. ASSUME NEW s \in Resumers, ResumeWrites(s) PROVE QuietInv'
    BY <1>20 DEF ResumeWrites
<1>21. ASSUME InlineContinues PROVE QuietInv'
    BY <1>21 DEF InlineContinues
<1>22. ASSUME InlineSettles PROVE QuietInv'
    BY <1>22 DEF InlineSettles, FinalizeAgentRun
<1>23. ASSUME SweepLists PROVE QuietInv'
    BY <1>23 DEF SweepLists
<1>24. ASSUME SweepFails PROVE QuietInv'
    BY <1>24 DEF SweepFails, FinalizeAgentRun
<1>25. ASSUME Republish PROVE QuietInv'
    BY <1>25 DEF Republish
<1>26. ASSUME JobLost PROVE QuietInv'
    BY <1>26 DEF JobLost
<1>27. ASSUME HeartbeatGoesStale PROVE QuietInv'
    BY <1>27 DEF HeartbeatGoesStale
<1>28. CASE UNCHANGED vars
    BY <1>28 DEF vars
<1> QED
    BY <1>1, <1>2, <1>3, <1>4, <1>5, <1>6, <1>7, <1>8, <1>9, <1>10, <1>11, <1>12,
       <1>13, <1>14, <1>15, <1>16, <1>17, <1>18, <1>19, <1>20, <1>21, <1>22, <1>23, <1>24,
       <1>25, <1>26, <1>27, <1>28 DEF Next, WorkerStep

\* While the ceiling, the drain, a stalled heartbeat and the cancel of a paused run stay
\* away, every turn writes under its run's slot: a caller's cancel, redelivered jobs, lost
\* jobs and dead nodes alone never let a late turn write beside another one.
THEOREM QuietTurnsWriteUnderTheirSlot ==
    ASSUME Interruptions = {} PROVE Spec => WritesUnderItsSlot
<1>1. QuietInv /\ [Next]_vars =>
        [\A w \in Workers : TurnWrites(w) => status = "running" /\ owner = w]_vars
    BY DEF QuietInv, Engaged, InFlight, TurnWrites
<1>2. Init => TypeOK /\ TurnInv /\ SlotInv /\ LostInv /\ QuietInv
    BY TypeInit, TurnInvInit, SlotInvInit, LostInvInit, QuietInvInit
<1>3. (TypeOK /\ TurnInv /\ SlotInv /\ LostInv /\ QuietInv) /\ [Next]_vars
        => (TypeOK /\ TurnInv /\ SlotInv /\ LostInv /\ QuietInv)'
    BY TypeStep, TurnInvStep, SlotInvStep, LostInvStep, QuietInvStep
<1> QED
    BY <1>1, <1>2, <1>3, PTL DEF Spec, WritesUnderItsSlot

=============================================================================
