----------------------- MODULE AgentRunDispatchProofs -----------------------
(***************************************************************************)
(* Proofs about AgentRunDispatch, for every number of runs, workers,       *)
(* dispatchers, faults and pauses, and for every cap.                      *)
(***************************************************************************)
EXTENDS AgentRunDispatch, TLAPS, FiniteSetTheorems

\* A worker that is past the guard has a run.
WorkerHasRun == \A w \in Workers : worker[w].pc # "idle" => worker[w].run \in Runs

TypeInv == TypeOK /\ WorkerHasRun

LEMMA TypeInit == Init => TypeInv
BY DispatchAssumption DEF Init, TypeInv, TypeOK, WorkerHasRun, Statuses, IdleWorker, IdleCall

LEMMA TypeStep == TypeInv /\ [Next]_vars => TypeInv'
<1> SUFFICES ASSUME TypeInv, [Next]_vars PROVE TypeInv'
    OBVIOUS
<1> USE DispatchAssumption DEF TypeInv, TypeOK, WorkerHasRun, Statuses, IdleWorker, IdleCall
<1>1. ASSUME NEW d \in Dispatchers, ListDue(d) PROVE TypeInv'
  <2>1. PICK T \in SUBSET Runs :
          call' = [call EXCEPT ![d] = IF T = {} THEN IdleCall ELSE [pc |-> "publish", todo |-> T]]
    <3>1. \A k : OldestDue(k) \in SUBSET Runs
        BY DEF OldestDue, Due, InStatus
    <3> QED
        BY <1>1, <3>1 DEF ListDue
  <2>2. call' \in [Dispatchers -> [pc : {"idle", "count", "publish"}, todo : SUBSET Runs]]
    BY <2>1
  <2> QED
    BY <1>1, <2>2 DEF ListDue
<1>2. ASSUME NEW d \in Dispatchers, Publish(d) PROVE TypeInv'
  <2>1. PICK r \in call[d].todo :
          /\ \A q \in call[d].todo : r <= q
          /\ \/ PublishJob(r) /\ UNCHANGED faults
             \/ Fault /\ UNCHANGED <<jobs, used>>
          /\ call' = [call EXCEPT ![d] = IF call[d].todo = {r} THEN IdleCall
                                        ELSE [pc |-> "publish", todo |-> call[d].todo \ {r}]]
    BY <1>2, Zenon DEF Publish
  <2>2. r \in Runs
    OBVIOUS
  <2>3. jobs' \in [Runs -> 0..MaxJobs] /\ used' \subseteq Runs /\ faults' \in 0..MaxFaults
    <3>1. CASE PublishJob(r) /\ UNCHANGED faults
      <4>1. CASE r \in used
        BY <3>1, <4>1 DEF PublishJob
      <4>2. CASE r \notin used
        <5>1. /\ jobs[r] < MaxJobs /\ jobs' = [jobs EXCEPT ![r] = jobs[r] + 1]
              /\ used' = used \cup {r} /\ faults' = faults
            BY <3>1, <4>2 DEF PublishJob
        <5>2. jobs[r] + 1 \in 0..MaxJobs
            BY <2>2, <5>1
        <5> QED
            BY <2>2, <5>1, <5>2
      <4> QED
        BY <4>1, <4>2
    <3>2. CASE Fault /\ UNCHANGED <<jobs, used>>
        BY <3>2 DEF Fault
    <3> QED
        BY <2>1, <3>1, <3>2
  <2>4. call' \in [Dispatchers -> [pc : {"idle", "count", "publish"}, todo : SUBSET Runs]]
    BY <2>1
  <2> QED
    BY <1>2, <2>3, <2>4 DEF Publish
<1>3. ASSUME NEW d \in Dispatchers, CallFails(d) PROVE TypeInv'
    BY <1>3 DEF CallFails, Fault
<1>4. ASSUME NEW w \in Workers, Guard(w) PROVE TypeInv'
    BY <1>4 DEF Guard
<1>5. ASSUME NEW w \in Workers, ClaimRun(w) PROVE TypeInv'
  <2>1. worker[w].run \in Runs
    BY <1>5 DEF ClaimRun
  <2>2. row' \in [Runs -> Statuses]
    BY <1>5, <2>1 DEF ClaimRun
  <2>3. worker' \in [Workers -> [pc : {"idle", "claim", "turn"}, run : Runs \cup {None}]]
    BY <1>5, <2>1 DEF ClaimRun
  <2>4. WorkerHasRun'
    BY <1>5, <2>1 DEF ClaimRun
  <2> QED
    BY <1>5, <2>2, <2>3, <2>4 DEF ClaimRun
<1>6. ASSUME NEW w \in Workers, EndTurn(w) PROVE TypeInv'
  <2>1. worker[w].run \in Runs
    BY <1>6 DEF EndTurn
  <2>2. row' \in [Runs -> Statuses] /\ paused' \subseteq Pausing
    <3>1. PICK s \in Statuses : row' = [row EXCEPT ![worker[w].run] = s]
        BY <1>6, <2>1 DEF EndTurn
    <3>2. row' \in [Runs -> Statuses]
        BY <2>1, <3>1
    <3>3. paused' = paused \/ (worker[w].run \in Pausing /\ paused' = paused \cup {worker[w].run})
        BY <1>6, Zenon DEF EndTurn
    <3>4. paused' \subseteq Pausing
        BY <3>3
    <3> QED
        BY <3>2, <3>4
  <2>3. call' \in [Dispatchers -> [pc : {"idle", "count", "publish"}, todo : SUBSET Runs]]
    <3>1. CallDispatcher
        BY <1>6 DEF EndTurn
    <3> QED
        BY <3>1 DEF CallDispatcher, Dispatchers
  <2>4. /\ worker' \in [Workers -> [pc : {"idle", "claim", "turn"}, run : Runs \cup {None}]]
        /\ WorkerHasRun'
    BY <1>6 DEF EndTurn
  <2> QED
    BY <1>6, <2>2, <2>3, <2>4 DEF EndTurn
<1>7. ASSUME NEW w \in Workers, WorkerDies(w) PROVE TypeInv'
    BY <1>7 DEF WorkerDies, Fault
<1>8. ASSUME NEW r \in Runs, InsertRun(r) PROVE TypeInv'
    BY <1>8 DEF InsertRun, Inserted
<1>9. ASSUME NEW r \in Runs, CountWaiting(r) PROVE TypeInv'
  <2>1. call' \in [Dispatchers -> [pc : {"idle", "count", "publish"}, todo : SUBSET Runs]]
    <3>1. CallDispatcher \/ UNCHANGED call
        BY <1>9 DEF CountWaiting, CheckQuota
    <3> QED
        BY <3>1 DEF CallDispatcher, Dispatchers
  <2>2. row' \in [Runs -> Statuses]
    BY <1>9 DEF CountWaiting, Refuse, CheckQuota
  <2>3. submit' \in [Runs -> {"insert", "count", "addScheduled", "addQueued", "accepted", "refused"}]
    BY <1>9 DEF CountWaiting, Refuse, CheckQuota
  <2> QED
    BY <1>9, <2>1, <2>2, <2>3 DEF CountWaiting
<1>15. ASSUME NEW r \in Runs, FirstCount(r) PROVE TypeInv'
  <2>1. \A s : Cardinality(InStatus(s)) \in Nat
    BY FS_Subset, FS_CardinalityType DEF InStatus
  <2>2. tally' \in [Runs -> Nat]
    BY <1>15, <2>1 DEF FirstCount
  <2>3. submit' \in [Runs -> {"insert", "count", "addScheduled", "addQueued", "accepted", "refused"}]
    BY <1>15 DEF FirstCount
  <2> QED
    BY <1>15, <2>2, <2>3 DEF FirstCount
<1>10. ASSUME NEW r \in Runs, JobLost(r) PROVE TypeInv'
    BY <1>10 DEF JobLost, Fault
<1>11. ASSUME NEW r \in Runs, Resume(r) PROVE TypeInv'
  <2>1. call' \in [Dispatchers -> [pc : {"idle", "count", "publish"}, todo : SUBSET Runs]]
    <3>1. CallDispatcher
        BY <1>11 DEF Resume
    <3> QED
        BY <3>1 DEF CallDispatcher, Dispatchers
  <2>2. row' \in [Runs -> Statuses]
    BY <1>11 DEF Resume
  <2> QED
    BY <1>11, <2>1, <2>2 DEF Resume
<1>12. ASSUME NEW r \in Runs, EndWaiting(r) \/ Promote(r) \/ SweepStale(r) PROVE TypeInv'
  <2>1. PICK s \in Statuses : row' = [row EXCEPT ![r] = s]
    BY <1>12 DEF EndWaiting, Promote, SweepStale
  <2>2. UNCHANGED <<submit, tally, jobs, used, worker, call, faults, paused>>
    BY <1>12 DEF EndWaiting, Promote, SweepStale
  <2> QED
    BY <2>1, <2>2
<1>13. ASSUME MinutePasses PROVE TypeInv'
    BY <1>13 DEF MinutePasses
<1>14. CASE UNCHANGED vars
    BY <1>14 DEF vars
<1> QED
    BY <1>1, <1>2, <1>3, <1>4, <1>5, <1>6, <1>7, <1>8, <1>9, <1>10, <1>11, <1>12, <1>13, <1>14, <1>15
    DEF Next, DispatcherStep, WorkerStep, SubmitStep

\* Rows, calls, jobs and workers stay within their types: a job is only published under a
\* key the queue does not know.
THEOREM DispatchTypeCorrect == Spec => []TypeOK
<1>1. TypeInv => TypeOK
    BY DEF TypeInv
<1> QED
    BY <1>1, TypeInit, TypeStep, PTL DEF Spec

-----------------------------------------------------------------------------
(***************************************************************************)
(* The cap on the waiting runs.  A count is two queries, and others are    *)
(* accepted between them, so no accepted run has seen all the others.  But *)
(* the youngest of them has: the runs older than r were there when r       *)
(* counted, and the ones of them that wait as they were inserted only      *)
(* become fewer.                                                           *)
(***************************************************************************)
OfStatus(r, s) == {q \in Runs : q <= r /\ AsInserted(q) /\ Inserted(q) = s}
Before(r) == {q \in Runs : q <= r /\ AsInserted(q)}
AdmittedRuns == {q \in Runs : Admitted(q)}

\* A run that is being counted has seen what is left of its elders in the first query.
TallyTrue(r) ==
    /\ submit[r] = "addScheduled" => Cardinality(OfStatus(r, "queued")) <= tally[r]
    /\ submit[r] = "addQueued" => Cardinality(OfStatus(r, "scheduled")) <= tally[r]
TallyInv == \A r \in Runs : TallyTrue(r)

\* Some inserted run is as young as every admitted one and was within the cap.
YoungestInv ==
    \/ AdmittedRuns = {}
    \/ \E y \in Runs : /\ submit[y] # "insert" /\ AdmittedRuns \subseteq Before(y)
                        /\ Cardinality(Before(y)) <= MaxQueued

PausedIsMarked == \A r \in Runs : row[r] = "requires_action" => r \in paused
NoRowYet == \A r \in Runs : submit[r] = "insert" => row[r] = "none"
HadStartTime == \A r \in Runs : row[r] = "scheduled" => r \in Scheduled
InOrder == \A r, q \in Runs : q < r /\ submit[r] # "insert" => submit[q] # "insert"
RowInv == PausedIsMarked /\ NoRowYet /\ HadStartTime /\ InOrder

CapInv == RowInv /\ TallyInv /\ YoungestInv

LEMMA FewerElements ==
    ASSUME NEW S \in SUBSET Runs, NEW T \in SUBSET S
    PROVE  /\ Cardinality(T) <= Cardinality(S)
           /\ Cardinality(S) \in Nat /\ Cardinality(T) \in Nat
<1>1. IsFiniteSet(S) /\ IsFiniteSet(T)
    BY DispatchAssumption, FS_Subset
<1> QED
    BY <1>1, FS_Subset, FS_CardinalityType

\* The elders of a run are its queued and its scheduled elders.
LEMMA ElderCount ==
    ASSUME NEW r \in Runs
    PROVE  Cardinality(Before(r))
             <= Cardinality(OfStatus(r, "queued")) + Cardinality(OfStatus(r, "scheduled"))
<1> DEFINE Q == OfStatus(r, "queued")
           S == OfStatus(r, "scheduled")
<1>1. IsFiniteSet(Q) /\ IsFiniteSet(S)
    BY DispatchAssumption, FS_Subset DEF OfStatus
<1>2. Before(r) = Q \cup S /\ Q \cap S = {}
    BY DEF Before, OfStatus, Inserted
<1>3. Cardinality(Q \cup S) = Cardinality(Q) + Cardinality(S) - Cardinality(Q \cap S)
    BY <1>1, FS_Union
<1>4. Cardinality(Q \cap S) = 0
    BY <1>2, FS_EmptySet
<1>5. Cardinality(Q) \in Nat /\ Cardinality(S) \in Nat
    BY <1>1, FS_CardinalityType
<1> HIDE DEF Q, S
<1>6. Cardinality(Before(r)) <= Cardinality(Q) + Cardinality(S)
    BY <1>2, <1>3, <1>4, <1>5
<1> QED
    BY <1>6 DEF Q, S

LEMMA CapInit == Init => CapInv
BY DEF Init, CapInv, RowInv, PausedIsMarked, NoRowYet, HadStartTime, InOrder, TallyInv, TallyTrue, YoungestInv,
       AdmittedRuns, Admitted

\* No elder of an inserted run begins to wait as inserted.
Shrinks ==
    \A r \in Runs : submit[r] # "insert" =>
        /\ submit'[r] # "insert"
        /\ \A q \in Runs : q <= r /\ AsInserted(q)' => AsInserted(q)

LEMMA TallyStep ==
    ASSUME TypeInv, CapInv, Shrinks, NEW r \in Runs, submit'[r] = submit[r], tally'[r] = tally[r]
    PROVE  TallyTrue(r)'
<1>1. ASSUME submit[r] # "insert", NEW s \in {"queued", "scheduled"}
      PROVE  Cardinality(OfStatus(r, s)') <= Cardinality(OfStatus(r, s))
             /\ Cardinality(OfStatus(r, s)') \in Nat /\ Cardinality(OfStatus(r, s)) \in Nat
  <2>1. OfStatus(r, s)' \subseteq OfStatus(r, s) /\ OfStatus(r, s) \in SUBSET Runs
    BY <1>1 DEF Shrinks, OfStatus, Inserted
  <2> QED
    BY <2>1, FewerElements
<1>2. tally[r] \in Nat
    BY DEF TypeInv, TypeOK
<1>3. TallyTrue(r)
    BY DEF CapInv, TallyInv
<1> QED
    BY <1>1, <1>2, <1>3 DEF TallyTrue

LEMMA YoungestStep ==
    ASSUME TypeInv, CapInv, Shrinks, AdmittedRuns' \subseteq AdmittedRuns
    PROVE  YoungestInv'
<1>1. CASE AdmittedRuns = {}
    BY <1>1 DEF YoungestInv
<1>2. ASSUME NEW y \in Runs, submit[y] # "insert", AdmittedRuns \subseteq Before(y),
             Cardinality(Before(y)) <= MaxQueued
      PROVE  YoungestInv'
  <2>1. Before(y)' \subseteq Before(y) /\ Before(y) \in SUBSET Runs
    BY <1>2 DEF Shrinks, Before
  <2>2. Cardinality(Before(y)') <= MaxQueued
    BY <1>2, <2>1, FewerElements, DispatchAssumption
  <2>3. AdmittedRuns' \subseteq Before(y)'
    BY <1>2 DEF AdmittedRuns, Admitted, Before
  <2> QED
    BY <1>2, <2>2, <2>3 DEF YoungestInv, Shrinks
<1> QED
    BY <1>1, <1>2 DEF CapInv, YoungestInv

\* What a step does that neither counts nor accepts.
Settled ==
    /\ UNCHANGED <<submit, tally>>
    /\ \A q \in Runs : AsInserted(q)' => AsInserted(q)

LEMMA SettledStep ==
    ASSUME TypeInv, CapInv, Settled
    PROVE  TallyInv' /\ YoungestInv'
<1>1. Shrinks /\ AdmittedRuns' \subseteq AdmittedRuns
    BY DEF Settled, Shrinks, AdmittedRuns, Admitted
<1>2. TallyInv'
    BY <1>1, TallyStep DEF Settled, TallyInv
<1> QED
    BY <1>1, <1>2, YoungestStep

LEMMA InsertStep ==
    ASSUME TypeInv, CapInv, NEW r \in Runs, InsertRun(r)
    PROVE  CapInv'
<1> USE DispatchAssumption DEF TypeInv, TypeOK
<1>1. RowInv'
    BY DEF CapInv, RowInv, PausedIsMarked, NoRowYet, HadStartTime, InOrder, InsertRun, Inserted
<1>2. \A q \in Runs : q # r => (AsInserted(q)' <=> AsInserted(q)) /\ submit'[q] = submit[q]
    BY DEF InsertRun, AsInserted, Inserted
<1>3. \A q \in Runs : submit[q] # "insert" => q < r
    BY DEF InsertRun, CapInv, RowInv, InOrder
<1>4. Shrinks
    BY <1>2, <1>3 DEF Shrinks, InsertRun
<1>5. AdmittedRuns' \subseteq AdmittedRuns
  <2>1. submit'[r] = "count"
    BY DEF InsertRun
  <2> QED
    BY <1>2, <2>1 DEF AdmittedRuns, Admitted
<1>6. TallyTrue(r)'
    BY DEF TallyTrue, InsertRun
<1>7. ASSUME NEW q \in Runs, q # r PROVE TallyTrue(q)'
    BY <1>2, <1>4, <1>7, TallyStep DEF InsertRun
<1> QED
    BY <1>1, <1>4, <1>5, <1>6, <1>7, YoungestStep DEF CapInv, TallyInv

LEMMA FirstCountStep ==
    ASSUME TypeInv, CapInv, NEW r \in Runs, FirstCount(r)
    PROVE  CapInv'
<1> USE DispatchAssumption DEF TypeInv, TypeOK
<1>1. RowInv'
    BY DEF CapInv, RowInv, PausedIsMarked, NoRowYet, HadStartTime, InOrder, FirstCount
<1>2. \A q \in Runs : (AsInserted(q)' <=> AsInserted(q))
    BY DEF FirstCount, AsInserted, Inserted
<1>3. \A q \in Runs : q # r => submit'[q] = submit[q] /\ tally'[q] = tally[q]
    BY DEF FirstCount
<1>4. submit'[r] \in {"addScheduled", "addQueued"}
    BY DEF FirstCount
<1>5. Shrinks /\ AdmittedRuns' \subseteq AdmittedRuns
    BY <1>2, <1>3, <1>4 DEF Shrinks, AdmittedRuns, Admitted
<1>6. ASSUME NEW s \in {"queued", "scheduled"}
      PROVE  Cardinality(OfStatus(r, s)') <= Cardinality(InStatus(s))
  <2>1. OfStatus(r, s)' \subseteq InStatus(s) /\ InStatus(s) \in SUBSET Runs
    BY <1>2 DEF OfStatus, InStatus, AsInserted, Inserted
  <2> QED
    BY <2>1, FewerElements
<1>7. TallyTrue(r)'
    BY <1>6 DEF TallyTrue, FirstCount
<1>8. ASSUME NEW q \in Runs, q # r PROVE TallyTrue(q)'
    BY <1>3, <1>5, <1>8, TallyStep
<1> QED
    BY <1>1, <1>5, <1>7, <1>8, YoungestStep DEF CapInv, TallyInv

\* A refused run waits no more.
LEMMA RefuseStep ==
    ASSUME TypeInv, CapInv, NEW r \in Runs, CountWaiting(r), Refuse(r)
    PROVE  CapInv'
<1> USE DEF TypeInv, TypeOK
<1>1. RowInv'
    BY DEF CapInv, RowInv, PausedIsMarked, NoRowYet, HadStartTime, InOrder, CountWaiting, Refuse
<1>2. submit'[r] = "refused" /\ row'[r] = "deleted" /\ paused' = paused
    BY DEF CountWaiting, Refuse
<1>3. \A q \in Runs : q # r => /\ (AsInserted(q)' <=> AsInserted(q))
                              /\ submit'[q] = submit[q] /\ tally'[q] = tally[q]
    BY DEF CountWaiting, Refuse, AsInserted, Inserted
<1>4. ~AsInserted(r)'
    BY <1>2 DEF AsInserted, Inserted
<1>5. Shrinks /\ AdmittedRuns' \subseteq AdmittedRuns
    BY <1>2, <1>3, <1>4 DEF Shrinks, AdmittedRuns, Admitted
<1>6. TallyTrue(r)'
    BY <1>2 DEF TallyTrue
<1>7. ASSUME NEW q \in Runs, q # r PROVE TallyTrue(q)'
    BY <1>3, <1>5, <1>7, TallyStep
<1> QED
    BY <1>1, <1>5, <1>6, <1>7, YoungestStep DEF CapInv, TallyInv

\* An accepted run is the youngest, and has seen its elders in its two queries, or the
\* youngest has seen it.
LEMMA AcceptStep ==
    ASSUME TypeInv, CapInv, NEW r \in Runs, CountWaiting(r),
           submit' = [submit EXCEPT ![r] = "accepted"], UNCHANGED row,
           tally[r] + Second(r) <= MaxQueued
    PROVE  CapInv'
<1> USE DispatchAssumption DEF TypeInv, TypeOK
<1>1. RowInv'
    BY DEF CapInv, RowInv, PausedIsMarked, NoRowYet, HadStartTime, InOrder, CountWaiting
<1>2. submit'[r] = "accepted" /\ submit[r] \in {"addScheduled", "addQueued"}
    BY DEF CountWaiting
<1>3. \A q \in Runs : /\ (AsInserted(q)' <=> AsInserted(q))
                      /\ q # r => submit'[q] = submit[q] /\ tally'[q] = tally[q]
    BY DEF CountWaiting, AsInserted, Inserted
<1>4. Shrinks
    BY <1>2, <1>3 DEF Shrinks
<1>5. TallyInv'
  <2>1. TallyTrue(r)'
    BY <1>2 DEF TallyTrue
  <2>2. ASSUME NEW q \in Runs, q # r PROVE TallyTrue(q)'
    BY <1>3, <1>4, <2>2, TallyStep
  <2> QED
    BY <2>1, <2>2 DEF TallyInv
<1>6. \A q \in Runs : Before(q)' = Before(q)
  <2> TAKE q \in Runs
  <2>1. \A z : z \in Before(q)' <=> z \in Before(q)
    BY <1>3 DEF Before
  <2> QED
    BY <2>1
<1>7. AdmittedRuns' \subseteq AdmittedRuns \cup {r} /\ (r \in AdmittedRuns' => AsInserted(r))
    BY <1>3 DEF AdmittedRuns, Admitted
<1>8. Cardinality(Before(r)) <= MaxQueued
  <2>1. ASSUME NEW s \in {"queued", "scheduled"}
        PROVE  /\ Cardinality(OfStatus(r, s)) <= Cardinality(InStatus(s))
               /\ Cardinality(OfStatus(r, s)) \in Nat /\ Cardinality(InStatus(s)) \in Nat
    <3>1. OfStatus(r, s) \subseteq InStatus(s) /\ InStatus(s) \in SUBSET Runs
        BY DEF OfStatus, InStatus, AsInserted, Inserted
    <3> QED
        BY <3>1, FewerElements
  <2>2. Cardinality(Before(r)) \in Nat
    BY FewerElements DEF Before
  <2>3. TallyTrue(r) /\ tally[r] \in Nat
    BY DEF CapInv, TallyInv
  <2>4. CASE submit[r] = "addScheduled"
    <3>1. Cardinality(OfStatus(r, "queued")) <= tally[r]
          /\ Cardinality(OfStatus(r, "scheduled")) <= Second(r)
        BY <2>1, <2>3, <2>4 DEF TallyTrue, Second
    <3>2. Second(r) \in Nat
        BY <2>1, <2>4 DEF Second
    <3> QED
        BY <3>1, <3>2, <2>1, <2>2, <2>3, ElderCount
  <2>5. CASE submit[r] = "addQueued"
    <3>1. Cardinality(OfStatus(r, "scheduled")) <= tally[r]
          /\ Cardinality(OfStatus(r, "queued")) <= Second(r)
        BY <2>1, <2>3, <2>5 DEF TallyTrue, Second
    <3>2. Second(r) \in Nat
        BY <2>1, <2>5 DEF Second
    <3> QED
        BY <3>1, <3>2, <2>1, <2>2, <2>3, ElderCount
  <2> QED
    BY <1>2, <2>4, <2>5
<1>9. YoungestInv'
  <2>1. ASSUME \A q \in AdmittedRuns : q <= r PROVE YoungestInv'
    <3>1. AdmittedRuns \subseteq Before(r)
        BY <2>1 DEF AdmittedRuns, Admitted, Before
    <3>2. r \in AdmittedRuns' => r \in Before(r)
        BY <1>7 DEF Before
    <3>3. AdmittedRuns' \subseteq Before(r)'
        BY <3>1, <3>2, <1>6, <1>7
    <3> QED
        BY <3>3, <1>2, <1>6, <1>8 DEF YoungestInv
  <2>2. ASSUME NEW y \in Runs, submit[y] # "insert", AdmittedRuns \subseteq Before(y),
               Cardinality(Before(y)) <= MaxQueued
        PROVE  YoungestInv'
    <3>1. CASE y <= r
        BY <3>1, <2>2, <2>1 DEF Before
    <3>2. CASE r < y
      <4>1. AdmittedRuns' \subseteq Before(y)'
        BY <3>2, <2>2, <1>6, <1>7 DEF Before
      <4>2. submit'[y] # "insert"
        BY <3>2, <2>2, <1>3
      <4> QED
        BY <4>1, <4>2, <2>2, <1>6 DEF YoungestInv
    <3> QED
        BY <3>1, <3>2
  <2> QED
    BY <2>1, <2>2 DEF CapInv, YoungestInv
<1> QED
    BY <1>1, <1>5, <1>9 DEF CapInv

LEMMA CapStep == TypeInv /\ CapInv /\ [Next]_vars => CapInv'
<1> SUFFICES ASSUME TypeInv, CapInv, [Next]_vars PROVE CapInv'
    OBVIOUS
<1> USE DispatchAssumption
    DEF TypeInv, TypeOK, WorkerHasRun, CapInv, RowInv, PausedIsMarked, NoRowYet, HadStartTime, InOrder
<1>1. ASSUME NEW d \in Dispatchers, ListDue(d) \/ Publish(d) \/ CallFails(d) PROVE RowInv' /\ Settled
    BY <1>1 DEF ListDue, Publish, CallFails, Settled, AsInserted, Inserted
<1>2. ASSUME NEW w \in Workers, Guard(w) \/ WorkerDies(w) PROVE RowInv' /\ Settled
    BY <1>2 DEF Guard, WorkerDies, Settled, AsInserted, Inserted
<1>3. ASSUME NEW w \in Workers, ClaimRun(w) PROVE RowInv' /\ Settled
    BY <1>3 DEF ClaimRun, Settled, AsInserted, Inserted
<1>4. ASSUME NEW w \in Workers, EndTurn(w) PROVE RowInv' /\ Settled
    BY <1>4 DEF EndTurn, Settled, AsInserted, Inserted
<1>5. ASSUME NEW r \in Runs, CountWaiting(r) PROVE CapInv'
  <2>1. tally[r] \in Nat /\ Second(r) \in Nat
    BY FewerElements DEF Second, InStatus
  <2>2. Refuse(r) \/ /\ submit' = [submit EXCEPT ![r] = "accepted"] /\ UNCHANGED row
                     /\ ~(tally[r] + Second(r) > MaxQueued)
    BY <1>5 DEF CountWaiting, CheckQuota
  <2> QED
    BY <1>5, <2>1, <2>2, RefuseStep, AcceptStep
<1>6. ASSUME NEW r \in Runs, JobLost(r) PROVE RowInv' /\ Settled
    BY <1>6 DEF JobLost, Settled, AsInserted, Inserted
<1>7. ASSUME NEW r \in Runs, Resume(r) PROVE RowInv' /\ Settled
    BY <1>7 DEF Resume, Settled, AsInserted, Inserted
<1>8. ASSUME NEW r \in Runs, EndWaiting(r) \/ SweepStale(r) PROVE RowInv' /\ Settled
    BY <1>8 DEF EndWaiting, SweepStale, Settled, AsInserted, Inserted
<1>9. ASSUME NEW r \in Runs, Promote(r) PROVE RowInv' /\ Settled
    BY <1>9 DEF Promote, Settled, AsInserted, Inserted
<1>10. ASSUME MinutePasses PROVE RowInv' /\ Settled
    BY <1>10 DEF MinutePasses, Settled, AsInserted, Inserted
<1>11. CASE UNCHANGED vars
  <2>1. RowInv' /\ Settled
    BY <1>11 DEF vars, Settled, AsInserted, Inserted
  <2> QED
    BY <2>1, SettledStep
<1>12. ASSUME RowInv', Settled PROVE CapInv'
    BY <1>12, SettledStep
<1> QED
    BY <1>1, <1>2, <1>3, <1>4, <1>5, <1>6, <1>7, <1>8, <1>9, <1>10, <1>11, <1>12, InsertStep,
       FirstCountStep
    DEF Next, DispatcherStep, WorkerStep, SubmitStep

\* The deferred runs startAgentRun lets wait never exceed the cap, however many requests
\* come at once and however the two queries of their counts interleave.
THEOREM WaitingCapHolds == Spec => []WaitingWithinCap
<1>1. CapInv => WaitingWithinCap
  <2> SUFFICES ASSUME CapInv PROVE Cardinality(AdmittedRuns) <= MaxQueued
    BY DEF WaitingWithinCap, AdmittedRuns
  <2>1. CASE AdmittedRuns = {}
    BY <2>1, FS_EmptySet, DispatchAssumption
  <2>2. ASSUME NEW y \in Runs, AdmittedRuns \subseteq Before(y), Cardinality(Before(y)) <= MaxQueued
        PROVE  Cardinality(AdmittedRuns) <= MaxQueued
    <3>1. Before(y) \in SUBSET Runs
        BY DEF Before
    <3> QED
        BY <2>2, <3>1, FewerElements, DispatchAssumption
  <2> QED
    BY <2>1, <2>2 DEF CapInv, YoungestInv
<1> QED
    BY <1>1, TypeInit, TypeStep, CapInit, CapStep, PTL DEF Spec

-----------------------------------------------------------------------------
(***************************************************************************)
(* The rows are rows of the store.  The run a job carries may have been    *)
(* refused, cancelled or swept before its worker claims it, and a worker   *)
(* may end a turn whose row others have ended: every write of a row is     *)
(* still one that the table of module RunTable allows.                     *)
(***************************************************************************)

\* The rows as module RunTable sees them.
Mapped == [r \in Runs |-> TableStatus(row[r])]

\* A row is there from its insert on, unless its own request has removed it.
HasRow ==
    \A r \in Runs : /\ row[r] = "none" => submit[r] = "insert"
                    /\ row[r] = "deleted" => submit[r] = "refused"

LEMMA HasRowStep == TypeInv /\ HasRow /\ [Next]_vars => HasRow'
<1> SUFFICES ASSUME TypeInv, HasRow, [Next]_vars PROVE HasRow'
    OBVIOUS
<1> USE DEF TypeInv, TypeOK, WorkerHasRun, HasRow
<1>1. ASSUME NEW r \in Runs, CountWaiting(r) PROVE HasRow'
  <2>1. CASE Refuse(r)
    BY <2>1 DEF Refuse
  <2>2. CASE submit' = [submit EXCEPT ![r] = "accepted"] /\ UNCHANGED row
    BY <1>1, <2>2 DEF CountWaiting
  <2> QED
    BY <1>1, <2>1, <2>2 DEF CountWaiting, CheckQuota
<1>2. ASSUME NEW r \in Runs, InsertRun(r) \/ FirstCount(r) PROVE HasRow'
    BY <1>2 DEF InsertRun, FirstCount, Inserted
<1>3. ASSUME NEW r \in Runs, Resume(r) \/ EndWaiting(r) \/ Promote(r) \/ SweepStale(r) PROVE HasRow'
    BY <1>3 DEF Resume, EndWaiting, Promote, SweepStale
<1>4. ASSUME NEW w \in Workers, ClaimRun(w) \/ EndTurn(w) PROVE HasRow'
    BY <1>4 DEF ClaimRun, EndTurn
<1>5. ASSUME UNCHANGED <<row, submit>> PROVE HasRow'
    BY <1>5
<1>6. ASSUME NEW d \in Dispatchers, DispatcherStep(d) \/ CallFails(d) PROVE UNCHANGED <<row, submit>>
    BY <1>6 DEF DispatcherStep, ListDue, Publish, CallFails
<1>7. ASSUME NEW w \in Workers, Guard(w) \/ WorkerDies(w) PROVE UNCHANGED <<row, submit>>
    BY <1>7 DEF Guard, WorkerDies
<1>8. ASSUME NEW r \in Runs, JobLost(r) PROVE UNCHANGED <<row, submit>>
    BY <1>8 DEF JobLost
<1>9. ASSUME MinutePasses \/ UNCHANGED vars PROVE UNCHANGED <<row, submit>>
    BY <1>9 DEF MinutePasses, vars
<1> QED
    BY <1>1, <1>2, <1>3, <1>4, <1>5, <1>6, <1>7, <1>8, <1>9 DEF Next, WorkerStep, SubmitStep

\* A step that writes one row writes one row of the table.
LEMMA WritesOneRow ==
    ASSUME TypeInv, NEW r \in Runs, NEW s \in Statuses, row' = [row EXCEPT ![r] = s]
    PROVE  Mapped' = [Mapped EXCEPT ![r] = TableStatus(s)] /\ Mapped[r] = TableStatus(row[r])
BY DEF TypeInv, TypeOK, Mapped

\* Every run has a conversation of its own.
LEMMA OwnSlot == ASSUME NEW r \in Runs PROVE Table!SlotFree(r)
BY DEF Table!SlotFree

LEMMA TableStep ==
    ASSUME TypeInv, NoRowYet, HasRow, [Next]_vars
    PROVE  Table!Next \/ Mapped' = Mapped
<1> USE DEF TypeInv, TypeOK, WorkerHasRun
<1> DEFINE Writes(r, from, to) == row[r] \in from /\ row' = [row EXCEPT ![r] = to]
<1>1. ASSUME NEW r \in Runs, NEW s \in {"queued", "scheduled"}, Writes(r, {"none"}, s)
      PROVE  Table!Next
  <2>1. Mapped[r] = "absent" /\ Mapped' = [Mapped EXCEPT ![r] = s]
    BY <1>1, WritesOneRow DEF TableStatus, Statuses
  <2>2. Table!CreateAgentRun(r)
    BY <2>1, OwnSlot DEF Table!CreateAgentRun, Table!Set, Table!ACTIVE_STATUSES, Mapped
  <2> QED
    BY <2>2 DEF Table!Next
<1>2. ASSUME NEW r \in Runs, Writes(r, {"queued"}, "running") PROVE Table!Next
  <2>1. Mapped[r] = "queued" /\ Mapped' = [Mapped EXCEPT ![r] = "running"]
    BY <1>2, WritesOneRow DEF TableStatus, Statuses
  <2>2. Table!ClaimAgentRun(r)
    BY <2>1 DEF Table!ClaimAgentRun, Table!Set, Mapped
  <2> QED
    BY <2>2 DEF Table!Next
<1>3. ASSUME NEW r \in Runs, Writes(r, {"queued", "scheduled"}, "ended") PROVE Table!Next
  <2>1. Mapped[r] \in {"queued", "scheduled"} /\ Mapped' = [Mapped EXCEPT ![r] = "canceled"]
    BY <1>3, WritesOneRow DEF TableStatus, Statuses
  <2>2. Table!RequestAgentRunCancel(r)
    BY <2>1 DEF Table!RequestAgentRunCancel, Table!Set, Mapped
  <2> QED
    BY <2>2 DEF Table!Next
<1>4. ASSUME NEW r \in Runs, NEW s \in {"ended", "requires_action"},
             Writes(r, {"running", "requires_action"}, s)
      PROVE  Table!Next
  <2>1. /\ Mapped[r] \in {"running", "requires_action"}
        /\ Mapped' = [Mapped EXCEPT ![r] = TableStatus(s)]
        /\ TableStatus(s) \in {"canceled", "requires_action"}
    BY <1>4, WritesOneRow DEF TableStatus, Statuses
  <2>2. Table!FinalizeAgentRun(r)
    BY <2>1 DEF Table!FinalizeAgentRun, Table!Set, Table!TerminalStatuses, Mapped
  <2> QED
    BY <2>2 DEF Table!Next
<1>5. ASSUME NEW r \in Runs, Writes(r, {"requires_action", "scheduled"}, "queued") PROVE Table!Next
  <2>1. Mapped[r] \in {"requires_action", "scheduled"} /\ Mapped' = [Mapped EXCEPT ![r] = "queued"]
    BY <1>5, WritesOneRow DEF TableStatus, Statuses
  <2>2. Table!RequeueAgentRunForResume(r) \/ Table!PromoteScheduledAgentRun(r)
    BY <2>1, OwnSlot
    DEF Table!RequeueAgentRunForResume, Table!PromoteScheduledAgentRun, Table!Set, Mapped
  <2> QED
    BY <2>2 DEF Table!Next
<1>6. ASSUME NEW r \in Runs, row[r] \notin {"none", "deleted"}, row' = [row EXCEPT ![r] = "deleted"]
      PROVE  Table!Next
  <2>1. Mapped[r] \notin {"absent", "deleted"} /\ Mapped' = [Mapped EXCEPT ![r] = "deleted"]
    BY <1>6, WritesOneRow DEF TableStatus, Statuses
  <2>2. Table!DeleteAgentRun(r)
    BY <2>1 DEF Table!DeleteAgentRun, Table!Set, Mapped
  <2> QED
    BY <2>2 DEF Table!Next
<1>7. ASSUME row' = row PROVE Mapped' = Mapped
    BY <1>7 DEF Mapped
<1>10. ASSUME NEW r \in Runs, InsertRun(r) PROVE Table!Next
  <2>1. Inserted(r) \in {"queued", "scheduled"} /\ Writes(r, {"none"}, Inserted(r))
    BY <1>10 DEF InsertRun, Inserted, NoRowYet
  <2> QED
    BY <1>1, <2>1
<1>11. ASSUME NEW r \in Runs, CountWaiting(r) PROVE Table!Next \/ row' = row
  <2>1. row[r] \notin {"none", "deleted"}
    BY <1>11 DEF CountWaiting, HasRow
  <2>2. row' = row \/ row' = [row EXCEPT ![r] = "deleted"]
    BY <1>11 DEF CountWaiting, CheckQuota, Refuse
  <2> QED
    BY <1>6, <2>1, <2>2
<1>12. ASSUME NEW w \in Workers, ClaimRun(w) PROVE Table!Next \/ row' = row
  <2>1. worker[w].run \in Runs
    BY <1>12 DEF ClaimRun
  <2>2. row' = row \/ Writes(worker[w].run, {"queued"}, "running")
    BY <1>12 DEF ClaimRun
  <2> QED
    BY <1>2, <2>1, <2>2
<1>13. ASSUME NEW w \in Workers, EndTurn(w) PROVE Table!Next \/ row' = row
  <2>1. worker[w].run \in Runs
    BY <1>13 DEF EndTurn
  <2>2. \/ row' = row
        \/ \E s \in {"ended", "requires_action"} :
              Writes(worker[w].run, {"running", "requires_action"}, s)
    BY <1>13, <2>1 DEF EndTurn
  <2> QED
    BY <1>4, <2>1, <2>2
<1>14. ASSUME NEW r \in Runs, Resume(r) \/ Promote(r) PROVE Table!Next
    BY <1>14, <1>5 DEF Resume, Promote
<1>15. ASSUME NEW r \in Runs, EndWaiting(r) \/ SweepStale(r) PROVE Table!Next
    BY <1>15, <1>3, <1>4 DEF EndWaiting, SweepStale
<1>16. ASSUME NEW d \in Dispatchers, DispatcherStep(d) \/ CallFails(d) PROVE row' = row
    BY <1>16 DEF DispatcherStep, ListDue, Publish, CallFails
<1>17. ASSUME NEW w \in Workers, Guard(w) \/ WorkerDies(w) PROVE row' = row
    BY <1>17 DEF Guard, WorkerDies
<1>18. ASSUME NEW r \in Runs, JobLost(r) \/ FirstCount(r) PROVE row' = row
    BY <1>18 DEF JobLost, FirstCount
<1>19. ASSUME MinutePasses \/ UNCHANGED vars PROVE row' = row
    BY <1>19 DEF MinutePasses, vars
<1> HIDE DEF Mapped
<1> QED
    BY <1>7, <1>10, <1>11, <1>12, <1>13, <1>14, <1>15, <1>16, <1>17, <1>18, <1>19
    DEF Next, WorkerStep, SubmitStep

\* Requests, workers, dispatchers and reconcilers write a deferred row only where the store
\* lets them: nobody brings back a run that was refused, cancelled or swept, although jobs
\* of it are still in the queue and its turn may go on.
THEOREM DispatchImplementsRunTable == Spec => ImplementsRunTable
<1>1. Init => Table!Init /\ HasRow
    BY DEF Init, Table!Init, HasRow, TableStatus
<1>2. TypeInv /\ CapInv /\ HasRow /\ [Next]_vars => [Table!Next]_Mapped
    BY TableStep DEF CapInv, RowInv
<1> QED
    BY <1>1, <1>2, TypeInit, TypeStep, CapInit, CapStep, HasRowStep, PTL
    DEF Spec, ImplementsRunTable, Table!Spec, Mapped

-----------------------------------------------------------------------------
(***************************************************************************)
(* The cap on the running ones.  The guard of a worker counts, and its     *)
(* claim comes in a later call, so the cap may be exceeded.  A worker that *)
(* passed the guard saw a free slot, and until it claims it cannot pass    *)
(* the guard again.                                                        *)
(***************************************************************************)
Claiming == {w \in Workers : worker[w].pc = "claim"}
RunningInv == Cardinality(Running) + Cardinality(Claiming) < MaxRunning + Cardinality(Workers)

\* What a step does that neither passes the guard nor claims.
Fewer == Running' \subseteq Running /\ Claiming' \subseteq Claiming

LEMMA Counted ==
    ASSUME IsFiniteSet(Workers)
    PROVE  /\ IsFiniteSet(Running) /\ Cardinality(Running) \in Nat
           /\ IsFiniteSet(Claiming) /\ Cardinality(Claiming) \in Nat
           /\ Cardinality(Workers) \in Nat /\ Cardinality(Claiming) <= Cardinality(Workers)
<1>1. Running \subseteq Runs /\ Claiming \subseteq Workers
    BY DEF Running, InStatus, Claiming
<1> QED
    BY <1>1, DispatchAssumption, FS_Subset, FS_CardinalityType

LEMMA FewerStep ==
    ASSUME IsFiniteSet(Workers), RunningInv, Fewer
    PROVE  RunningInv'
<1>1. /\ Cardinality(Running') <= Cardinality(Running) /\ Cardinality(Running') \in Nat
      /\ Cardinality(Claiming') <= Cardinality(Claiming) /\ Cardinality(Claiming') \in Nat
  <2>1. IsFiniteSet(Running) /\ IsFiniteSet(Claiming)
    BY Counted
  <2>2. IsFiniteSet(Running') /\ IsFiniteSet(Claiming')
    BY <2>1, FS_Subset DEF Fewer
  <2> QED
    BY <2>1, <2>2, FS_Subset, FS_CardinalityType DEF Fewer
<1>2. Cardinality(Running') + Cardinality(Claiming') < MaxRunning + Cardinality(Workers)
    BY <1>1, Counted, DispatchAssumption DEF RunningInv
<1> QED
    BY <1>2 DEF RunningInv

LEMMA GuardStep ==
    ASSUME IsFiniteSet(Workers), TypeInv, RunningInv, NEW w \in Workers, Guard(w)
    PROVE  RunningInv'
<1> USE DEF TypeInv, TypeOK
<1>1. Running' = Running
    BY DEF Guard, Running, InStatus
<1>2. CASE worker' = worker
    BY <1>1, <1>2, FewerStep DEF Fewer, Claiming
<1>3. CASE worker' # worker
  <2>1. ~(Cardinality(Running) >= MaxRunning)
    BY <1>3 DEF Guard
  <2>2. Cardinality(Claiming') <= Cardinality(Workers) /\ Cardinality(Claiming') \in Nat
    BY FS_Subset, FS_CardinalityType DEF Claiming
  <2>3. Cardinality(Running) + Cardinality(Claiming') < MaxRunning + Cardinality(Workers)
    BY <2>1, <2>2, Counted, DispatchAssumption
  <2> QED
    BY <1>1, <2>3 DEF RunningInv
<1> QED
    BY <1>2, <1>3

\* A claim turns one of those past the guard into a running one.
LEMMA ClaimStep ==
    ASSUME IsFiniteSet(Workers), TypeInv, RunningInv, NEW w \in Workers, ClaimRun(w)
    PROVE  RunningInv'
<1> USE DEF TypeInv, TypeOK, WorkerHasRun
<1> DEFINE r == worker[w].run
<1>1. r \in Runs /\ w \in Claiming
    BY DEF ClaimRun, Claiming
<1>2. Claiming' = Claiming \ {w}
    BY DEF ClaimRun, Claiming, IdleWorker
<1>3. Running' = Running \/ (Running' = Running \cup {r} /\ r \notin Running)
    BY <1>1 DEF ClaimRun, Running, InStatus
<1>4. Cardinality(Claiming') = Cardinality(Claiming) - 1
    BY <1>1, <1>2, Counted, FS_RemoveElement
<1>5. Cardinality(Running') \in {Cardinality(Running), Cardinality(Running) + 1}
    BY <1>3, Counted, FS_AddElement
<1>6. Cardinality(Running') + Cardinality(Claiming') < MaxRunning + Cardinality(Workers)
    BY <1>4, <1>5, Counted, DispatchAssumption DEF RunningInv
<1> QED
    BY <1>6 DEF RunningInv

LEMMA RunningStep ==
    ASSUME IsFiniteSet(Workers), TypeInv, RunningInv, [Next]_vars
    PROVE  RunningInv'
<1> USE DEF TypeInv, TypeOK, WorkerHasRun
<1>1. ASSUME NEW r \in Runs, NEW s \in Statuses \ {"running"}, row' = [row EXCEPT ![r] = s],
             UNCHANGED worker
      PROVE  Fewer
    BY <1>1 DEF Fewer, Running, InStatus, Claiming
<1>2. ASSUME NEW r \in Runs, InsertRun(r) PROVE Fewer
    BY <1>1, <1>2 DEF InsertRun, Inserted, Statuses
<1>3. ASSUME NEW r \in Runs, CountWaiting(r) PROVE Fewer
  <2>1. CASE row' = row
    BY <1>3, <2>1 DEF CountWaiting, Fewer, Running, InStatus, Claiming
  <2>2. CASE row' = [row EXCEPT ![r] = "deleted"]
    BY <1>1, <1>3, <2>2 DEF CountWaiting, Statuses
  <2> QED
    BY <1>3, <2>1, <2>2 DEF CountWaiting, CheckQuota, Refuse
<1>4. ASSUME NEW r \in Runs, Resume(r) \/ EndWaiting(r) \/ Promote(r) \/ SweepStale(r) PROVE Fewer
  <2>1. \E s \in Statuses \ {"running"} : row' = [row EXCEPT ![r] = s]
    BY <1>4 DEF Resume, EndWaiting, Promote, SweepStale, Statuses
  <2>2. UNCHANGED worker
    BY <1>4 DEF Resume, EndWaiting, Promote, SweepStale
  <2> QED
    BY <1>1, <2>1, <2>2
<1>5. ASSUME NEW w \in Workers, EndTurn(w) PROVE Fewer
  <2>1. worker[w].run \in Runs
    BY <1>5 DEF EndTurn
  <2>2. Running' \subseteq Running
    BY <1>5, <2>1 DEF EndTurn, Running, InStatus
  <2>3. Claiming' \subseteq Claiming
    BY <1>5 DEF EndTurn, Claiming, IdleWorker
  <2> QED
    BY <2>2, <2>3 DEF Fewer
<1>6. ASSUME NEW w \in Workers, WorkerDies(w) PROVE Fewer
    BY <1>6 DEF WorkerDies, Fewer, Running, InStatus, Claiming, IdleWorker
<1>7. ASSUME UNCHANGED <<row, worker>> PROVE Fewer
    BY <1>7 DEF Fewer, Running, InStatus, Claiming
<1>8. ASSUME NEW d \in Dispatchers, DispatcherStep(d) \/ CallFails(d) PROVE UNCHANGED <<row, worker>>
    BY <1>8 DEF DispatcherStep, ListDue, Publish, CallFails
<1>9. ASSUME NEW r \in Runs, JobLost(r) \/ FirstCount(r) PROVE UNCHANGED <<row, worker>>
    BY <1>9 DEF JobLost, FirstCount
<1>10. ASSUME MinutePasses \/ UNCHANGED vars PROVE UNCHANGED <<row, worker>>
    BY <1>10 DEF MinutePasses, vars
<1> QED
    BY <1>2, <1>3, <1>4, <1>5, <1>6, <1>7, <1>8, <1>9, <1>10, GuardStep, ClaimStep, FewerStep
    DEF Next, WorkerStep, SubmitStep

LEMMA RunningInit == ASSUME IsFiniteSet(Workers), Init PROVE RunningInv
<1>1. Running = {} /\ Claiming = {}
    BY DEF Init, Running, InStatus, Claiming, IdleWorker
<1> QED
    BY <1>1, Counted, FS_EmptySet, DispatchAssumption DEF RunningInv

\* The deferred claim guard counts before it claims, and so each further worker of the queue,
\* on whatever node, can put one run above the cap, no more: answers, promotions and sweeps
\* never add to that.
THEOREM RunningOvershoot == ASSUME IsFiniteSet(Workers) PROVE Spec => []RunningNearCap
<1>1. RunningInv => RunningNearCap
    BY Counted, DispatchAssumption DEF RunningInv, RunningNearCap
<1>2. Init => RunningInv
    BY RunningInit
<1>3. TypeInv /\ RunningInv /\ [Next]_vars => RunningInv'
    BY RunningStep
<1> QED
    BY <1>1, <1>2, <1>3, TypeInit, TypeStep, PTL DEF Spec

\* With one worker of the queue the cap on the running runs is what the guard's comment says.
THEOREM OneWorkerKeepsTheCap ==
    ASSUME NEW w, Workers = {w} PROVE Spec => []RunningWithinCap
<1>1. IsFiniteSet(Workers) /\ Cardinality(Workers) = 1
    BY FS_Singleton
<1>2. RunningNearCap => RunningWithinCap
    BY <1>1, Counted, DispatchAssumption DEF RunningNearCap, RunningWithinCap
<1> QED
    BY <1>1, <1>2, RunningOvershoot, PTL

=============================================================================
