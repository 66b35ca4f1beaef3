----------------------- MODULE AgentRunAdmissionProofs -----------------------
(***************************************************************************)
(* Proofs about AgentRunAdmission, for every set of requests, every        *)
(* assignment of Idempotency-Keys, every cap and every number of calls     *)
(* that are cut off, of binds that fail and of calls that outlast their    *)
(* lock.                                                                   *)
(***************************************************************************)
EXTENDS AgentRunAdmission, TLAPS, FiniteSetTheorems

\* Where a call is tells what became of its row, and a bound lock names a run of its key.
ShapeInv ==
    /\ \A r \in Requests :
        /\ pc[r] \in {"lookup", "lockKey", "reclaim", "repoll", "insert"} => row[r] = "none"
        /\ pc[r] \in {"bind", "cap", "quota", "publish", "delete"} => Live(r)
        /\ pc[r] = "release" => row[r] = "deleted"
        /\ pc[r] \in {"lookup", "lockKey", "reclaim", "repoll", "bind"} => KeyOf[r] \in Keys
        /\ answer[r] = "key_conflict" => pc[r] = "end" /\ row[r] = "none" /\ KeyOf[r] \in Keys
        /\ row[r] = "scheduled" => r \in Scheduled
    /\ \A k \in Keys : keyLock[k] \in Requests => KeyOf[keyLock[k]] = k
    /\ \A n \in Sweeps : promoting[n] \in Scheduled \cup {NoRun}

-----------------------------------------------------------------------------
LEMMA AdmissionTypeInit == Init => TypeOK /\ ShapeInv
BY AdmissionAssumption DEF Init, TypeOK, ShapeInv, Live, Calls, Answers

LEMMA AdmissionTypeStep == TypeOK /\ [Next]_vars => TypeOK'
<1> SUFFICES ASSUME TypeOK, [Next]_vars PROVE TypeOK'
    OBVIOUS
<1> USE AdmissionAssumption DEF TypeOK, Calls, Answers, Goto, At, lock, faults
<1>1. ASSUME NEW r \in Requests, LookupKey(r) PROVE TypeOK'
    BY <1>1 DEF LookupKey, Replay, RunsOfKey
<1>2. ASSUME NEW r \in Requests, LockKey(r) PROVE TypeOK'
    BY <1>2 DEF LockKey, TakeKey
<1>3. ASSUME NEW r \in Requests, ReclaimKey(r) PROVE TypeOK'
    BY <1>3 DEF ReclaimKey, TakeKey
<1>4. ASSUME NEW r \in Requests, RepollKey(r) PROVE TypeOK'
    BY <1>4 DEF RepollKey, Replay, RunsOfKey
<1>5. ASSUME NEW r \in Requests, Retry(r) PROVE TypeOK'
    BY <1>5 DEF Retry
<1>6. ASSUME NEW r \in Requests, InsertRun(r) PROVE TypeOK'
    BY <1>6 DEF InsertRun, FreeUnboundKey, AfterInsert
<1>7. ASSUME NEW r \in Requests, BindKey(r) PROVE TypeOK'
    BY <1>7 DEF BindKey, FreeUnboundKey, AfterInsert
<1>8. ASSUME NEW r \in Requests, CapCheck(r) PROVE TypeOK'
    BY <1>8 DEF CapCheck, Refuse
<1>9. ASSUME NEW r \in Requests, QuotaCheck(r) PROVE TypeOK'
    BY <1>9 DEF QuotaCheck, Refuse
<1>10. ASSUME NEW r \in Requests, PublishRun(r) PROVE TypeOK'
    BY <1>10 DEF PublishRun, Refuse
<1>11. ASSUME NEW r \in Requests, DeleteRow(r) PROVE TypeOK'
    BY <1>11 DEF DeleteRow
<1>12. ASSUME NEW r \in Requests, ReleaseKey(r) PROVE TypeOK'
    BY <1>12 DEF ReleaseKey
<1>13. ASSUME NEW r \in Requests, EndRun(r) PROVE TypeOK'
    BY <1>13 DEF EndRun
<1>14. ASSUME NEW r \in Requests, Cut(r) PROVE TypeOK'
    BY <1>14 DEF Cut
<1>15. ASSUME NEW k \in Keys, Age(k) PROVE TypeOK'
    BY <1>15 DEF Age
<1>16. ASSUME NEW k \in Keys, Outlast(k) PROVE TypeOK'
    BY <1>16 DEF Outlast
<1>17. ASSUME NEW n \in Sweeps, NEW r \in Requests, FindRoom(n, r) PROVE TypeOK'
    BY <1>17 DEF FindRoom
<1>18. ASSUME NEW n \in Sweeps, Promote(n) PROVE TypeOK'
    BY <1>18 DEF Promote
<1>19. CASE UNCHANGED vars
    BY <1>19 DEF vars, lock, faults
<1> QED
    BY <1>1, <1>2, <1>3, <1>4, <1>5, <1>6, <1>7, <1>8, <1>9,
       <1>10, <1>11, <1>12, <1>13, <1>14, <1>15, <1>16, <1>17, <1>18, <1>19 DEF Next, Step

LEMMA ShapeStep == TypeOK /\ ShapeInv /\ [Next]_vars => ShapeInv'
<1> SUFFICES ASSUME TypeOK, ShapeInv, [Next]_vars PROVE ShapeInv'
    OBVIOUS
<1> USE AdmissionAssumption DEF TypeOK, ShapeInv, Live, Goto, At, lock, faults
<1>1. ASSUME NEW r \in Requests, LookupKey(r) PROVE ShapeInv'
    BY <1>1 DEF LookupKey, Replay, RunsOfKey
<1>2. ASSUME NEW r \in Requests, LockKey(r) PROVE ShapeInv'
    BY <1>2 DEF LockKey, TakeKey
<1>3. ASSUME NEW r \in Requests, ReclaimKey(r) PROVE ShapeInv'
    BY <1>3 DEF ReclaimKey, TakeKey
<1>4. ASSUME NEW r \in Requests, RepollKey(r) PROVE ShapeInv'
    BY <1>4 DEF RepollKey, Replay, RunsOfKey
<1>5. ASSUME NEW r \in Requests, Retry(r) PROVE ShapeInv'
    BY <1>5 DEF Retry
<1>6. ASSUME NEW r \in Requests, InsertRun(r) PROVE ShapeInv'
    BY <1>6 DEF InsertRun, FreeUnboundKey, AfterInsert
<1>7. ASSUME NEW r \in Requests, BindKey(r) PROVE ShapeInv'
    BY <1>7 DEF BindKey, FreeUnboundKey, AfterInsert
<1>8. ASSUME NEW r \in Requests, CapCheck(r) PROVE ShapeInv'
    BY <1>8 DEF CapCheck, Refuse
<1>9. ASSUME NEW r \in Requests, QuotaCheck(r) PROVE ShapeInv'
    BY <1>9 DEF QuotaCheck, Refuse
<1>10. ASSUME NEW r \in Requests, PublishRun(r) PROVE ShapeInv'
    BY <1>10 DEF PublishRun, Refuse
<1>11. ASSUME NEW r \in Requests, DeleteRow(r) PROVE ShapeInv'
    BY <1>11 DEF DeleteRow
<1>12. ASSUME NEW r \in Requests, ReleaseKey(r) PROVE ShapeInv'
    BY <1>12 DEF ReleaseKey
<1>13. ASSUME NEW r \in Requests, EndRun(r) PROVE ShapeInv'
    BY <1>13 DEF EndRun
<1>14. ASSUME NEW r \in Requests, Cut(r) PROVE ShapeInv'
    BY <1>14 DEF Cut
<1>15. ASSUME NEW k \in Keys, Age(k) PROVE ShapeInv'
    BY <1>15 DEF Age
<1>16. ASSUME NEW k \in Keys, Outlast(k) PROVE ShapeInv'
    BY <1>16 DEF Outlast
<1>17. ASSUME NEW n \in Sweeps, NEW r \in Requests, FindRoom(n, r) PROVE ShapeInv'
    BY <1>17 DEF FindRoom
<1>18. ASSUME NEW n \in Sweeps, Promote(n) PROVE ShapeInv'
    BY <1>18 DEF Promote
<1>19. CASE UNCHANGED vars
    BY <1>19 DEF vars, lock, faults
<1> QED
    BY <1>1, <1>2, <1>3, <1>4, <1>5, <1>6, <1>7, <1>8, <1>9,
       <1>10, <1>11, <1>12, <1>13, <1>14, <1>15, <1>16, <1>17, <1>18, <1>19 DEF Next, Step

LEMMA ShapeHolds == Spec => [](TypeOK /\ ShapeInv)
BY AdmissionTypeInit, AdmissionTypeStep, ShapeStep, PTL DEF Spec

\* Every call, row, lock and answer stays within its type; a taken key is looked up at
\* most IDEMPOTENCY_REPOLL_ATTEMPTS more times.
THEOREM AdmissionTypeCorrect == Spec => []TypeOK
BY ShapeHolds, PTL

-----------------------------------------------------------------------------
(***************************************************************************)
(* One run for a key.  The claims on a key are its runs and the calls that *)
(* have taken its lock and not inserted yet.  They are at most one and one *)
(* for each slip; and at most one for each slip when the lock can be taken *)
(* or is about to be freed, unless the row of a call that was cut off      *)
(* before its bind is there, which everyone who comes to the lock has seen *)
(* (nobody is Hurried).                                                    *)
(***************************************************************************)
Claims(k) == {r \in Requests : KeyOf[r] = k /\ (Live(r) \/ At(r, "insert"))}
Takeable(k) ==
    \/ keyLock[k] = NoRun \/ k \in aged
    \/ keyLock[k] \in Requests /\ ~Live(keyLock[k])
Abandoned(k) == k \in aged /\ RunsOfKey(k) # {} /\ ~Hurried(k)
Bounded(k) ==
    /\ Cardinality(Claims(k)) <= 1 + slips[k]
    /\ Takeable(k) => Cardinality(Claims(k)) <= slips[k] \/ Abandoned(k)
KeyInv == \A k \in Keys : Bounded(k)

LEMMA ClaimsCounted ==
    ASSUME NEW k PROVE IsFiniteSet(Claims(k)) /\ Cardinality(Claims(k)) \in Nat
<1>1. Claims(k) \subseteq Requests
    BY DEF Claims
<1> QED
    BY <1>1, AdmissionAssumption, FS_Subset, FS_CardinalityType

LEMMA SlipsCounted == TypeOK => \A k \in Keys : slips[k] \in Nat
BY AdmissionAssumption DEF TypeOK

\* A step that adds no claim and frees no lock.
LEMMA Keep ==
    ASSUME TypeOK, NEW k \in Keys, Bounded(k),
           Claims(k)' \subseteq Claims(k), slips'[k] = slips[k],
           Takeable(k)' => Takeable(k), Abandoned(k) => Abandoned(k)'
    PROVE  Bounded(k)'
<1>1. Cardinality(Claims(k)') <= Cardinality(Claims(k)) /\ Cardinality(Claims(k)') \in Nat
    BY ClaimsCounted, FS_Subset, FS_CardinalityType
<1> QED
    BY <1>1, ClaimsCounted, SlipsCounted DEF Bounded

\* A step that gives a claim up.
LEMMA Drop ==
    ASSUME TypeOK, NEW k \in Keys, Bounded(k), NEW r \in Claims(k),
           Claims(k)' \subseteq Claims(k) \ {r}, slips'[k] = slips[k]
    PROVE  Bounded(k)'
<1>1. /\ Cardinality(Claims(k) \ {r}) = Cardinality(Claims(k)) - 1
      /\ IsFiniteSet(Claims(k) \ {r})
    BY ClaimsCounted, FS_RemoveElement
<1>2. Cardinality(Claims(k)') <= Cardinality(Claims(k) \ {r}) /\ Cardinality(Claims(k)') \in Nat
    BY <1>1, FS_Subset, FS_CardinalityType
<1> QED
    BY <1>1, <1>2, ClaimsCounted, SlipsCounted DEF Bounded

\* A slip makes room for one claim more.
LEMMA Slip ==
    ASSUME TypeOK, NEW k \in Keys, Bounded(k),
           Claims(k)' \subseteq Claims(k), slips'[k] = slips[k] + 1
    PROVE  Bounded(k)'
<1>1. Cardinality(Claims(k)') <= Cardinality(Claims(k)) /\ Cardinality(Claims(k)') \in Nat
    BY ClaimsCounted, FS_Subset, FS_CardinalityType
<1> QED
    BY <1>1, ClaimsCounted, SlipsCounted DEF Bounded

\* The lock is taken: nobody can take it again.
LEMMA Take ==
    ASSUME TypeOK, NEW k \in Keys, Bounded(k), Takeable(k), ~Abandoned(k), ~Takeable(k)',
           NEW r, Claims(k)' \subseteq Claims(k) \cup {r}, slips'[k] = slips[k]
    PROVE  Bounded(k)'
<1>1. /\ IsFiniteSet(Claims(k) \cup {r})
      /\ Cardinality(Claims(k) \cup {r}) \in {Cardinality(Claims(k)), Cardinality(Claims(k)) + 1}
    BY ClaimsCounted, FS_AddElement
<1>2. Cardinality(Claims(k)') <= Cardinality(Claims(k) \cup {r}) /\ Cardinality(Claims(k)') \in Nat
    BY <1>1, FS_Subset, FS_CardinalityType
<1> QED
    BY <1>1, <1>2, ClaimsCounted, SlipsCounted DEF Bounded

LEMMA KeyInvInit == Init => KeyInv
<1> SUFFICES ASSUME Init, NEW k \in Keys PROVE Bounded(k)
    BY DEF KeyInv
<1>1. Claims(k) = {}
    BY AdmissionAssumption DEF Init, Claims, Live, At
<1> QED
    BY <1>1, FS_EmptySet, AdmissionAssumption DEF Init, Bounded

\* What a step does that concerns the key k not, or only in its count.
Calm(k) ==
    /\ Claims(k)' \subseteq Claims(k) /\ slips'[k] = slips[k]
    /\ Takeable(k)' => Takeable(k)
    /\ Abandoned(k) => Abandoned(k)'

LEMMA KeyInvStep == TypeOK /\ ShapeInv /\ KeyInv /\ [Next]_vars => KeyInv'
<1> SUFFICES ASSUME TypeOK, ShapeInv, KeyInv, [Next]_vars, NEW k \in Keys PROVE Bounded(k)'
    BY DEF KeyInv
<1> USE AdmissionAssumption DEF TypeOK, ShapeInv, Goto, At, lock, faults
<1>0. Bounded(k)
    BY DEF KeyInv
<1>1. ASSUME NEW r \in Requests, LookupKey(r) \/ RepollKey(r) \/ Retry(r) PROVE Calm(k)
    BY <1>1 DEF LookupKey, RepollKey, Retry, Replay, Calm, Claims, Takeable, Abandoned, Hurried, RunsOfKey, Live
<1>2. ASSUME NEW r \in Requests, TakeKey(r), pc[r] \in {"lockKey", "reclaim"}, r \notin cut,
             keyLock[KeyOf[r]] = NoRun \/ KeyOf[r] \in aged, UNCHANGED <<row, faults>>
      PROVE  Bounded(k)'
  <2>1. CASE KeyOf[r] = k
    <3>1. Takeable(k) /\ ~Abandoned(k)
        BY <1>2, <2>1 DEF Takeable, Abandoned, Hurried
    <3>2. ~Takeable(k)'
        BY <1>2, <2>1 DEF TakeKey, Takeable
    <3>3. Claims(k)' \subseteq Claims(k) \cup {r} /\ slips'[k] = slips[k]
        BY <1>2, <2>1 DEF TakeKey, Claims, Live
    <3> QED
        BY <1>0, <3>1, <3>2, <3>3, Take
  <2>2. CASE KeyOf[r] # k
    <3>1. Calm(k)
        BY <1>2, <2>2 DEF TakeKey, Calm, Claims, Takeable, Abandoned, Hurried, RunsOfKey, Live
    <3> QED
        BY <1>0, <3>1, Keep DEF Calm
  <2> QED
    BY <2>1, <2>2
<1>3. ASSUME NEW r \in Requests, LockKey(r) PROVE Bounded(k)'
  <2>1. CASE keyLock[KeyOf[r]] = NoRun /\ TakeKey(r)
    BY <1>2, <1>3, <2>1 DEF LockKey
  <2>2. CASE UNCHANGED lock /\ pc' \in {[pc EXCEPT ![r] = "reclaim"], [pc EXCEPT ![r] = "repoll"]}
    <3>1. Calm(k)
        BY <1>3, <2>2 DEF LockKey, Calm, Claims, Takeable, Abandoned, Hurried, RunsOfKey, Live
    <3> QED
        BY <1>0, <3>1, Keep DEF Calm
  <2> QED
    BY <1>3, <2>1, <2>2 DEF LockKey
<1>4. ASSUME NEW r \in Requests, ReclaimKey(r) PROVE Bounded(k)'
  <2>1. CASE KeyOf[r] \in aged /\ TakeKey(r)
    BY <1>2, <1>4, <2>1 DEF ReclaimKey
  <2>2. CASE UNCHANGED lock /\ pc' = [pc EXCEPT ![r] = "repoll"]
    <3>1. Calm(k)
        BY <1>4, <2>2 DEF ReclaimKey, Calm, Claims, Takeable, Abandoned, Hurried, RunsOfKey, Live
    <3> QED
        BY <1>0, <3>1, Keep DEF Calm
  <2> QED
    BY <1>4, <2>1, <2>2 DEF ReclaimKey
<1>5. ASSUME NEW r \in Requests, InsertRun(r) PROVE Bounded(k)'
  <2>1. CASE row' # row
    <3>1. Calm(k)
        BY <1>5, <2>1 DEF InsertRun, AfterInsert, Calm, Claims, Takeable, Abandoned, Hurried, RunsOfKey, Live
    <3> QED
        BY <1>0, <3>1, Keep DEF Calm
  <2>2. CASE row' = row /\ KeyOf[r] = k
    <3>1. r \in Claims(k) /\ Claims(k)' \subseteq Claims(k) \ {r} /\ slips'[k] = slips[k]
        BY <1>5, <2>2 DEF InsertRun, Claims, Live
    <3> QED
        BY <1>0, <3>1, Drop
  <2>3. CASE row' = row /\ KeyOf[r] # k
    <3>1. Calm(k)
        BY <1>5, <2>3 DEF InsertRun, AfterInsert, FreeUnboundKey, Calm, Claims, Takeable, Abandoned, Hurried, RunsOfKey, Live
    <3> QED
        BY <1>0, <3>1, Keep DEF Calm
  <2> QED
    BY <2>1, <2>2, <2>3
<1>6. ASSUME NEW r \in Requests, BindKey(r) PROVE Bounded(k)'
  <2>1. CASE slips' # slips /\ KeyOf[r] = k
    <3>1. Claims(k)' \subseteq Claims(k) /\ slips'[k] = slips[k] + 1
        BY <1>6, <2>1 DEF BindKey, Claims, Live
    <3> QED
        BY <1>0, <3>1, Slip
  <2>2. CASE slips' = slips \/ KeyOf[r] # k
    <3>1. Claims(k)' \subseteq Claims(k) /\ slips'[k] = slips[k]
        BY <1>6, <2>2 DEF BindKey, AfterInsert, Claims, Live
    <3>2. Takeable(k)' => Takeable(k)
        BY <1>6, <2>2 DEF BindKey, AfterInsert, FreeUnboundKey, Takeable, Live
    <3>3. Abandoned(k) => Abandoned(k)'
        BY <1>6, <2>2 DEF BindKey, AfterInsert, FreeUnboundKey, Abandoned, Hurried, RunsOfKey, Live
    <3> QED
        BY <1>0, <3>1, <3>2, <3>3, Keep
  <2> QED
    BY <2>1, <2>2
<1>7. ASSUME NEW r \in Requests, CapCheck(r) \/ QuotaCheck(r) \/ PublishRun(r) PROVE Calm(k)
    BY <1>7 DEF CapCheck, QuotaCheck, PublishRun, Refuse, Calm, Claims, Takeable, Abandoned, Hurried, RunsOfKey, Live
<1>8. ASSUME NEW r \in Requests, DeleteRow(r) PROVE Bounded(k)'
  <2>1. CASE KeyOf[r] = k
    <3>1. r \in Claims(k) /\ Claims(k)' \subseteq Claims(k) \ {r} /\ slips'[k] = slips[k]
        BY <1>8, <2>1 DEF DeleteRow, Claims, Live
    <3> QED
        BY <1>0, <3>1, Drop
  <2>2. CASE KeyOf[r] # k
    <3>1. Calm(k)
        BY <1>8, <2>2 DEF DeleteRow, Calm, Claims, Takeable, Abandoned, Hurried, RunsOfKey, Live
    <3> QED
        BY <1>0, <3>1, Keep DEF Calm
  <2> QED
    BY <2>1, <2>2
<1>9. ASSUME NEW r \in Requests, ReleaseKey(r) \/ Cut(r) \/ EndRun(r) PROVE Calm(k)
    BY <1>9 DEF ReleaseKey, Cut, EndRun, Calm, Claims, Takeable, Abandoned, Hurried, RunsOfKey, Live
<1>10. ASSUME NEW j \in Keys, Age(j) PROVE Bounded(k)'
  <2>1. CASE j # k
    <3>1. Calm(k)
        BY <1>10, <2>1 DEF Age, Calm, Claims, Takeable, Abandoned, Hurried, RunsOfKey, Live
    <3> QED
        BY <1>0, <3>1, Keep DEF Calm
  <2>2. CASE j = k /\ RunsOfKey(k) = {}
    <3>1. Claims(k)' = {} /\ slips'[k] = slips[k]
        BY <1>10, <2>2 DEF Age, Claims, Hurried, RunsOfKey, Live
    <3> QED
        BY <3>1, FS_EmptySet, SlipsCounted DEF Bounded
  <2>3. CASE j = k /\ RunsOfKey(k) # {}
    <3>1. Abandoned(k)' /\ Claims(k)' = Claims(k) /\ slips'[k] = slips[k]
        BY <1>10, <2>3 DEF Age, Abandoned, Claims, Hurried, RunsOfKey, Live
    <3> QED
        BY <1>0, <3>1 DEF Bounded
  <2> QED
    BY <2>1, <2>2, <2>3
<1>11. ASSUME NEW j \in Keys, Outlast(j) PROVE Bounded(k)'
  <2>1. CASE j # k
    <3>1. Calm(k)
        BY <1>11, <2>1 DEF Outlast, Calm, Claims, Takeable, Abandoned, Hurried, RunsOfKey, Live
    <3> QED
        BY <1>0, <3>1, Keep DEF Calm
  <2>2. CASE j = k
    <3>1. Claims(k)' \subseteq Claims(k) /\ slips'[k] = slips[k] + 1
        BY <1>11, <2>2 DEF Outlast, Claims, Live
    <3> QED
        BY <1>0, <3>1, Slip
  <2> QED
    BY <2>1, <2>2
<1>12. ASSUME NEW n \in Sweeps, Promote(n) \/ \E r \in Requests : FindRoom(n, r) PROVE Calm(k)
    BY <1>12 DEF Promote, FindRoom, Calm, Claims, Takeable, Abandoned, Hurried, RunsOfKey, Live
<1>13. CASE UNCHANGED vars
    BY <1>13, <1>0, Keep DEF vars, Calm, Claims, Takeable, Abandoned, Hurried, RunsOfKey, Live
<1>14. Calm(k) => Bounded(k)'
    BY <1>0, Keep DEF Calm
<1> QED
    BY <1>1, <1>3, <1>4, <1>5, <1>6, <1>7, <1>8, <1>9, <1>10, <1>11, <1>12, <1>13, <1>14 DEF Next, Step

\* An Idempotency-Key has at most one run and one more for each slip: a row is inserted
\* only by a call that took the key's lock, and the lock stays with the row or comes free
\* when the row goes, wherever calls are cut off.
THEOREM OneRunForAKey == Spec => []OneRunPerKey
<1>1. TypeOK /\ KeyInv => OneRunPerKey
  <2> SUFFICES ASSUME TypeOK, KeyInv, NEW k \in Keys
               PROVE  Cardinality(RunsOfKey(k)) <= 1 + slips[k]
    BY DEF OneRunPerKey
  <2>1. RunsOfKey(k) \subseteq Claims(k)
    BY DEF RunsOfKey, Claims
  <2>2. Cardinality(RunsOfKey(k)) <= Cardinality(Claims(k)) /\ Cardinality(RunsOfKey(k)) \in Nat
    BY <2>1, ClaimsCounted, FS_Subset, FS_CardinalityType
  <2> QED
    BY <2>2, ClaimsCounted, SlipsCounted DEF KeyInv, Bounded
<1> QED
    BY <1>1, ShapeHolds, KeyInvInit, KeyInvStep, PTL DEF Spec

\* When no bind fails after its insert and no call outlasts its lock, a key never has two
\* runs, however many calls are cut off and whatever releases are lost.
THEOREM NoSecondRun ==
    ASSUME MaxSlips = 0
    PROVE  Spec => [](\A k \in Keys : \A q, r \in RunsOfKey(k) : q = r)
<1>1. TypeOK /\ OneRunPerKey => \A k \in Keys : \A q, r \in RunsOfKey(k) : q = r
  <2> SUFFICES ASSUME TypeOK, OneRunPerKey, NEW k \in Keys, NEW q \in RunsOfKey(k), NEW r \in RunsOfKey(k), q # r
               PROVE  FALSE
    OBVIOUS
  <2>1. IsFiniteSet(RunsOfKey(k)) /\ Cardinality(RunsOfKey(k)) \in Nat
    <3>1. RunsOfKey(k) \subseteq Requests
        BY DEF RunsOfKey
    <3> QED
        BY <3>1, AdmissionAssumption, FS_Subset, FS_CardinalityType
  <2>2. Cardinality(RunsOfKey(k)) <= 1
    BY DEF OneRunPerKey, TypeOK
  <2>3. /\ Cardinality(RunsOfKey(k) \ {q}) = Cardinality(RunsOfKey(k)) - 1
        /\ IsFiniteSet(RunsOfKey(k) \ {q})
    BY <2>1, FS_RemoveElement
  <2>4. Cardinality(RunsOfKey(k) \ {q}) = 0
    BY <2>1, <2>2, <2>3, FS_CardinalityType
  <2> QED
    BY <2>3, <2>4, FS_EmptySet
<1> QED
    BY <1>1, OneRunForAKey, AdmissionTypeCorrect, PTL

-----------------------------------------------------------------------------
(***************************************************************************)
(* The cap.  Whoever passes it has counted every run that passed before.   *)
(***************************************************************************)
AdmittedRuns == {r \in Requests : Admitted(r)}

\* A set of admitted runs that does not grow stays within the cap.
LEMMA FewerAdmitted ==
    ASSUME AdmittedWithinCap, AdmittedRuns' \subseteq AdmittedRuns
    PROVE  AdmittedWithinCap'
<1>1. IsFiniteSet(AdmittedRuns)
    BY AdmissionAssumption, FS_Subset DEF AdmittedRuns
<1>2. Cardinality(AdmittedRuns') <= Cardinality(AdmittedRuns)
      /\ Cardinality(AdmittedRuns') \in Nat /\ Cardinality(AdmittedRuns) \in Nat
    BY <1>1, FS_Subset, FS_CardinalityType
<1> QED
    BY <1>2, AdmissionAssumption DEF AdmittedWithinCap, AdmittedRuns

LEMMA CapInit == Init => AdmittedWithinCap
<1> SUFFICES ASSUME Init PROVE AdmittedWithinCap
    OBVIOUS
<1>1. AdmittedRuns = {}
    BY DEF Init, AdmittedRuns, Admitted
<1> QED
    BY <1>1, FS_EmptySet, AdmissionAssumption DEF AdmittedWithinCap, AdmittedRuns

LEMMA CapStep == TypeOK /\ ShapeInv /\ AdmittedWithinCap /\ [Next]_vars => AdmittedWithinCap'
<1> SUFFICES ASSUME TypeOK, ShapeInv, AdmittedWithinCap, [Next]_vars PROVE AdmittedWithinCap'
    OBVIOUS
<1> USE AdmissionAssumption DEF TypeOK, Goto, At, lock, faults
<1>1. ASSUME NEW r \in Requests, CapCheck(r), Cardinality(Active) <= MaxActive
      PROVE  AdmittedWithinCap'
  <2>1. AdmittedRuns' \subseteq Active /\ IsFiniteSet(Active)
    BY <1>1, FS_Subset DEF CapCheck, AdmittedRuns, Admitted, Active
  <2>2. Cardinality(AdmittedRuns') <= Cardinality(Active)
        /\ Cardinality(AdmittedRuns') \in Nat /\ Cardinality(Active) \in Nat
    BY <2>1, FS_Subset, FS_CardinalityType
  <2> QED
    BY <1>1, <2>2 DEF AdmittedWithinCap, AdmittedRuns
<1>2. ASSUME NEW r \in Requests, CapCheck(r), ~(Cardinality(Active) <= MaxActive)
      PROVE  AdmittedRuns' \subseteq AdmittedRuns
    BY <1>2 DEF CapCheck, Refuse, AdmittedRuns, Admitted
<1>3. ASSUME NEW r \in Requests,
             LookupKey(r) \/ LockKey(r) \/ ReclaimKey(r) \/ RepollKey(r) \/ Retry(r)
      PROVE  AdmittedRuns' \subseteq AdmittedRuns
    BY <1>3 DEF ShapeInv, LookupKey, Replay, LockKey, ReclaimKey, TakeKey, RepollKey, Retry, AdmittedRuns, Admitted
<1>4. ASSUME NEW r \in Requests, InsertRun(r) \/ BindKey(r)
      PROVE  AdmittedRuns' \subseteq AdmittedRuns
    BY <1>4 DEF ShapeInv, Live, InsertRun, BindKey, AfterInsert, AdmittedRuns, Admitted
<1>5. ASSUME NEW r \in Requests,
             \/ QuotaCheck(r) \/ PublishRun(r) \/ DeleteRow(r) \/ ReleaseKey(r)
             \/ EndRun(r) \/ Cut(r)
      PROVE  AdmittedRuns' \subseteq AdmittedRuns
    BY <1>5 DEF ShapeInv, QuotaCheck, Refuse, PublishRun, DeleteRow, ReleaseKey, EndRun, Cut, AdmittedRuns, Admitted
<1>6. ASSUME NEW k \in Keys, Age(k) \/ Outlast(k) PROVE AdmittedRuns' \subseteq AdmittedRuns
    BY <1>6 DEF Age, Outlast, AdmittedRuns, Admitted
<1>7. ASSUME NEW n \in Sweeps, Promote(n) \/ \E r \in Requests : FindRoom(n, r)
      PROVE  AdmittedRuns' \subseteq AdmittedRuns
    BY <1>7 DEF ShapeInv, Promote, FindRoom, AdmittedRuns, Admitted
<1>8. CASE UNCHANGED vars
    BY <1>8 DEF vars, AdmittedWithinCap, Admitted
<1> QED
    BY <1>1, <1>2, <1>3, <1>4, <1>5, <1>6, <1>7, <1>8, FewerAdmitted DEF Next, Step

\* The runs startAgentRun admits never exceed the cap, however many requests run in
\* parallel and whatever the reconciler promotes meanwhile: whoever passes the check has
\* counted every run admitted before it.
THEOREM CapHolds == Spec => []AdmittedWithinCap
BY ShapeHolds, CapInit, CapStep, PTL DEF Spec

-----------------------------------------------------------------------------
(***************************************************************************)
(* The cap and the reconciler.  A sweep that found room has seen fewer     *)
(* active runs than the cap, and until it promotes it does not look again: *)
(* those that were let start and those about to be add up to no more than  *)
(* the cap, one for each sweep, and one for each call that was cut off.    *)
(***************************************************************************)
StartedRuns == {r \in Requests : Admitted(r) \/ Promoted(r) \/ LeftBehind(r)}
Promoting == {n \in Sweeps : promoting[n] # NoRun}

NearInv ==
    Cardinality(StartedRuns) + Cardinality(Promoting)
        <= MaxActive + Cardinality(Sweeps) + Cardinality(cut)

\* What a step does that lets nothing start and finds no room.
Fewer == StartedRuns' \subseteq StartedRuns /\ Promoting' \subseteq Promoting /\ cut' = cut

LEMMA Counted ==
    ASSUME TypeOK
    PROVE  /\ IsFiniteSet(StartedRuns) /\ Cardinality(StartedRuns) \in Nat
           /\ IsFiniteSet(Active) /\ Cardinality(Active) \in Nat
           /\ IsFiniteSet(Promoting) /\ Cardinality(Promoting) \in Nat
           /\ IsFiniteSet(cut) /\ Cardinality(cut) \in Nat
           /\ Cardinality(Sweeps) \in Nat /\ Cardinality(Promoting) <= Cardinality(Sweeps)
<1>1. /\ StartedRuns \subseteq Requests /\ Active \subseteq Requests
      /\ Promoting \subseteq Sweeps /\ cut \subseteq Requests
    BY DEF StartedRuns, Active, Promoting, TypeOK
<1> QED
    BY <1>1, AdmissionAssumption, FS_Subset, FS_CardinalityType

\* Whoever counts the active runs and finds them below the cap puts the sum right.
LEMMA AfterCount ==
    ASSUME TypeOK, StartedRuns' \subseteq Active, Cardinality(Active) <= MaxActive, cut' = cut
    PROVE  NearInv'
<1>1. Cardinality(StartedRuns') <= Cardinality(Active) /\ Cardinality(StartedRuns') \in Nat
    BY Counted, FS_Subset, FS_CardinalityType
<1>2. Cardinality(Promoting') <= Cardinality(Sweeps) /\ Cardinality(Promoting') \in Nat
    BY AdmissionAssumption, FS_Subset, FS_CardinalityType DEF Promoting
<1>3. Cardinality(StartedRuns') + Cardinality(Promoting')
        <= MaxActive + Cardinality(Sweeps) + Cardinality(cut)
    BY <1>1, <1>2, Counted, AdmissionAssumption
<1> QED
    BY <1>3 DEF NearInv

LEMMA FewerStep == TypeOK /\ NearInv /\ Fewer => NearInv'
<1> SUFFICES ASSUME TypeOK, NearInv, Fewer PROVE NearInv'
    OBVIOUS
<1>1. /\ Cardinality(StartedRuns') <= Cardinality(StartedRuns) /\ Cardinality(StartedRuns') \in Nat
      /\ Cardinality(Promoting') <= Cardinality(Promoting) /\ Cardinality(Promoting') \in Nat
    BY Counted, FS_Subset, FS_CardinalityType DEF Fewer
<1>2. Cardinality(StartedRuns') + Cardinality(Promoting')
        <= MaxActive + Cardinality(Sweeps) + Cardinality(cut)
    BY <1>1, Counted, AdmissionAssumption DEF NearInv
<1> QED
    BY <1>2 DEF NearInv, Fewer

\* At most one run more may be let start, where one sweep fewer is about to promote, or one
\* call more was cut off.
LEMMA OneMore ==
    ASSUME TypeOK, NEW r, StartedRuns' \subseteq StartedRuns \cup {r}
    PROVE  /\ Cardinality(StartedRuns') \in Nat
           /\ Cardinality(StartedRuns') <= Cardinality(StartedRuns) + 1
<1>1. /\ IsFiniteSet(StartedRuns \cup {r})
      /\ Cardinality(StartedRuns \cup {r}) \in {Cardinality(StartedRuns), Cardinality(StartedRuns) + 1}
    BY Counted, FS_AddElement
<1>2. /\ Cardinality(StartedRuns') <= Cardinality(StartedRuns \cup {r})
      /\ Cardinality(StartedRuns') \in Nat
    BY <1>1, FS_Subset, FS_CardinalityType
<1> QED
    BY <1>1, <1>2, Counted

LEMMA PromoteStep ==
    ASSUME TypeOK, NearInv, NEW n \in Sweeps, Promote(n)
    PROVE  NearInv'
<1> USE DEF TypeOK
<1> DEFINE r == promoting[n]
<1>1. r \in Requests /\ n \in Promoting /\ cut' = cut
    BY DEF Promote, Promoting, faults
<1>2. Promoting' = Promoting \ {n}
    BY DEF Promote, Promoting
<1>3. StartedRuns' \subseteq StartedRuns \cup {r}
    BY <1>1 DEF Promote, StartedRuns, Admitted, Promoted, LeftBehind
<1>4. Cardinality(Promoting') = Cardinality(Promoting) - 1
    BY <1>1, <1>2, Counted, FS_RemoveElement
<1>5. /\ Cardinality(StartedRuns') \in Nat
      /\ Cardinality(StartedRuns') <= Cardinality(StartedRuns) + 1
    BY <1>3, OneMore
<1>6. Cardinality(StartedRuns') + Cardinality(Promoting')
        <= MaxActive + Cardinality(Sweeps) + Cardinality(cut)
    BY <1>4, <1>5, Counted, AdmissionAssumption DEF NearInv
<1> QED
    BY <1>1, <1>6 DEF NearInv

LEMMA CutStep ==
    ASSUME TypeOK, NearInv, NEW r \in Requests, r \notin cut, cut' = cut \cup {r},
           UNCHANGED <<row, pc, promoting>>
    PROVE  NearInv'
<1>1. StartedRuns' \subseteq StartedRuns \cup {r} /\ Promoting' = Promoting
    BY DEF StartedRuns, Admitted, Promoted, LeftBehind, Promoting
<1>2. Cardinality(cut') = Cardinality(cut) + 1
    BY Counted, FS_AddElement
<1>3. /\ Cardinality(StartedRuns') \in Nat
      /\ Cardinality(StartedRuns') <= Cardinality(StartedRuns) + 1
    BY <1>1, OneMore
<1>4. Cardinality(StartedRuns') + Cardinality(Promoting)
        <= MaxActive + Cardinality(Sweeps) + Cardinality(cut')
    BY <1>2, <1>3, Counted, AdmissionAssumption DEF NearInv
<1> QED
    BY <1>1, <1>4 DEF NearInv

LEMMA NearInvInit == Init => NearInv
<1> SUFFICES ASSUME Init PROVE NearInv
    OBVIOUS
<1>1. StartedRuns = {} /\ Promoting = {} /\ TypeOK
    BY AdmissionTypeInit, AdmissionAssumption
       DEF Init, StartedRuns, Admitted, Promoted, LeftBehind, Promoting
<1> QED
    BY <1>1, Counted, FS_EmptySet, AdmissionAssumption DEF NearInv

LEMMA NearInvStep == TypeOK /\ ShapeInv /\ NearInv /\ [Next]_vars => NearInv'
<1> SUFFICES ASSUME TypeOK, ShapeInv, NearInv, [Next]_vars PROVE NearInv'
    OBVIOUS
<1> USE AdmissionAssumption DEF TypeOK, Goto, At, lock, faults
<1>1. ASSUME NEW r \in Requests, CapCheck(r), Cardinality(Active) <= MaxActive PROVE NearInv'
  <2>1. StartedRuns' \subseteq Active /\ cut' = cut
    BY <1>1 DEF CapCheck, StartedRuns, Admitted, Promoted, LeftBehind, Active
  <2> QED
    BY <1>1, <2>1, AfterCount
<1>2. ASSUME NEW r \in Requests, CapCheck(r), ~(Cardinality(Active) <= MaxActive) PROVE Fewer
    BY <1>2 DEF CapCheck, Refuse, Fewer, StartedRuns, Admitted, Promoted, LeftBehind, Promoting
<1>3. ASSUME NEW r \in Requests,
             LookupKey(r) \/ LockKey(r) \/ ReclaimKey(r) \/ RepollKey(r) \/ Retry(r)
      PROVE  Fewer
  <2>1. StartedRuns' \subseteq StartedRuns
    BY <1>3 DEF ShapeInv, LookupKey, Replay, LockKey, ReclaimKey, TakeKey, RepollKey, Retry,
        StartedRuns, Admitted, Promoted, LeftBehind
  <2> QED
    BY <1>3, <2>1 DEF LookupKey, LockKey, ReclaimKey, RepollKey, Retry, Fewer, Promoting
<1>4. ASSUME NEW r \in Requests, InsertRun(r) \/ (BindKey(r) /\ cut' = cut) PROVE Fewer
  <2>1. StartedRuns' \subseteq StartedRuns
    BY <1>4 DEF ShapeInv, InsertRun, BindKey, AfterInsert, StartedRuns, Admitted, Promoted, LeftBehind
  <2> QED
    BY <1>4, <2>1 DEF InsertRun, BindKey, Fewer, Promoting
<1>5. ASSUME NEW r \in Requests, Cut(r) \/ (BindKey(r) /\ cut' # cut) PROVE NearInv'
    BY <1>5, CutStep DEF Cut, BindKey
<1>6. ASSUME NEW r \in Requests,
             QuotaCheck(r) \/ PublishRun(r) \/ DeleteRow(r) \/ ReleaseKey(r) \/ EndRun(r)
      PROVE  Fewer
  <2>1. StartedRuns' \subseteq StartedRuns
    BY <1>6 DEF ShapeInv, QuotaCheck, Refuse, PublishRun, DeleteRow, ReleaseKey, EndRun,
        StartedRuns, Admitted, Promoted, LeftBehind
  <2> QED
    BY <1>6, <2>1 DEF QuotaCheck, PublishRun, DeleteRow, ReleaseKey, EndRun, Fewer, Promoting
<1>7. ASSUME NEW k \in Keys, Age(k) \/ Outlast(k) PROVE Fewer
    BY <1>7 DEF Age, Outlast, Fewer, StartedRuns, Admitted, Promoted, LeftBehind, Promoting
<1>8. ASSUME NEW n \in Sweeps, NEW r \in Requests, FindRoom(n, r) PROVE NearInv'
  <2>1. StartedRuns' \subseteq Active /\ Cardinality(Active) < MaxActive /\ cut' = cut
    BY <1>8 DEF FindRoom, StartedRuns, Admitted, Promoted, LeftBehind, Active
  <2> QED
    BY <2>1, Counted, AfterCount
<1>9. CASE UNCHANGED vars
    BY <1>9, FewerStep DEF vars, Fewer, StartedRuns, Admitted, Promoted, LeftBehind, Promoting
<1> QED
    BY <1>1, <1>2, <1>3, <1>4, <1>5, <1>6, <1>7, <1>8, <1>9, FewerStep, PromoteStep DEF Next, Step

\* Requests and sweeps together let at most one run per sweep start beyond the cap, and one
\* per call that was cut off, however many requests and sweeps get past it between a
\* sweep's count and its promotion.
THEOREM PromotionOvershoot == Spec => []StartedNearCap
<1>1. TypeOK /\ NearInv => StartedNearCap
  <2>1. TypeOK /\ NearInv =>
          Cardinality(StartedRuns) <= MaxActive + Cardinality(Sweeps) + Cardinality(cut)
    BY Counted, AdmissionAssumption DEF NearInv
  <2> QED
    BY <2>1 DEF StartedNearCap, StartedRuns
<1> QED
    BY <1>1, ShapeHolds, NearInvInit, NearInvStep, PTL DEF Spec

=============================================================================
