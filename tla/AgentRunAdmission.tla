------------------------- MODULE AgentRunAdmission -------------------------
(***************************************************************************)
(* How a request becomes a default-class run                               *)
(* (src/src/lib/services/agents/agentRunService.ts startAgentRun, over the *)
(* MongoDB store's idempotency locks, and the reconciler's promotion of    *)
(* scheduled runs): the Idempotency-Key lookup, the key's lock document,   *)
(* the insert, the bind of the key to the row, the cap checked after the   *)
(* insert, the quota, the publish, and the delete that undoes the insert   *)
(* when one of them refuses.                                               *)
(*                                                                         *)
(* Every request is one call, which inserts at most one run, named after   *)
(* it; all requests with one key are the same request.  A call may be cut  *)
(* off before any of its database calls: the process dies, or the call     *)
(* throws where nothing is undone.  The caps of tenant and project are one *)
(* cap here: all requests are of one project.                              *)
(***************************************************************************)
EXTENDS Naturals, FiniteSets

CONSTANTS
    Requests,
    Keys, KeyOf,        \* the Idempotency-Key of each request, or NoKey
    NoKey,
    NoRun,              \* no run: the lock document does not exist, nothing replayed
    Unbound,            \* the lock document's runId is null
    Scheduled,          \* the requests with a start time ahead
    Sweeps,             \* reconciler sweeps that may run at once, see FindRoom
    MaxActive,          \* limits.maxActivePerTenant / maxActivePerProject
    REPOLL_ATTEMPTS,    \* IDEMPOTENCY_REPOLL_ATTEMPTS
    MaxCuts,            \* calls that are cut off
    MaxSlips            \* per key: binds that fail, calls that outlast their lock

ASSUME AdmissionAssumption ==
    /\ IsFiniteSet(Requests)
    /\ KeyOf \in [Requests -> Keys \cup {NoKey}]
    /\ NoKey \notin Keys
    /\ NoRun \notin Requests /\ Unbound \notin Requests /\ NoRun # Unbound
    /\ Scheduled \subseteq Requests /\ IsFiniteSet(Sweeps)
    /\ MaxActive \in Nat \ {0} /\ REPOLL_ATTEMPTS \in Nat
    /\ MaxCuts \in Nat /\ MaxSlips \in Nat

VARIABLES
    row,        \* row[r]: the run that request r inserted
    keyLock,    \* keyLock[k]: NoRun, Unbound or the run the key's lock is bound to
    pc,         \* where the call is
    tries,      \* lookups of a taken key that found no row
    answer,     \* what the caller got
    replayed,   \* the run it got, when it is another request's
    promoting,  \* promoting[n]: the scheduled run that sweep n found room for
    aged,       \* the keys whose unbound lock is older than ORPHAN_LOCK_GRACE_MS
    cut,        \* the calls that were cut off, each where its pc says
    slips       \* slips[k]: binds of the key that failed and calls that outlasted their lock

lock == <<keyLock, aged>>
faults == <<cut, slips>>
vars == <<row, pc, tries, answer, replayed, promoting, lock, faults>>

Calls == {"lookup", "lockKey", "reclaim", "repoll", "insert", "bind", "cap", "quota",
          "publish", "delete", "release", "end"}

\* "refused" is every other outcome and error: conflict, concurrency_limit, the quota's 429
Answers == {"none", "accepted", "replay", "key_conflict", "refused"}

TypeOK ==
    /\ row \in [Requests -> {"none", "scheduled", "queued", "ended", "deleted"}]
    /\ keyLock \in [Keys -> Requests \cup {NoRun, Unbound}]
    /\ aged \in SUBSET Keys /\ \A k \in aged : keyLock[k] = Unbound
    /\ pc \in [Requests -> Calls]
    /\ tries \in [Requests -> 0..REPOLL_ATTEMPTS]
    /\ answer \in [Requests -> Answers]
    /\ replayed \in [Requests -> Requests \cup {NoRun}]
    /\ promoting \in [Sweeps -> Requests \cup {NoRun}]
    /\ cut \in SUBSET Requests
    /\ slips \in [Keys -> 0..MaxSlips]

Live(r) == row[r] \in {"scheduled", "queued", "ended"}

\* getAgentRunByIdempotencyKey
RunsOfKey(k) == {r \in Requests : Live(r) /\ KeyOf[r] = k}

\* countActiveAgentRuns
Active == {r \in Requests : row[r] = "queued"}

\* A run that starts at once: inserted, and the cap checked.
Admitted(r) == r \notin Scheduled /\ row[r] = "queued" /\ pc[r] \in {"quota", "publish", "end"}

-----------------------------------------------------------------------------
Goto(r, call) == pc' = [pc EXCEPT ![r] = call]

\* The call is at work there.
At(r, call) == pc[r] = call /\ r \notin cut

Init ==
    /\ row = [r \in Requests |-> "none"]
    /\ keyLock = [k \in Keys |-> NoRun]
    /\ aged = {}
    /\ pc = [r \in Requests |-> IF KeyOf[r] = NoKey THEN "insert" ELSE "lookup"]
    /\ tries = [r \in Requests |-> 0]
    /\ answer = [r \in Requests |-> "none"]
    /\ replayed = [r \in Requests |-> NoRun]
    /\ promoting = [n \in Sweeps |-> NoRun]
    /\ cut = {}
    /\ slips = [k \in Keys |-> 0]

\* settleReplay: the same request answers with the stored run.
Replay(r) ==
    /\ \E q \in RunsOfKey(KeyOf[r]) : replayed' = [replayed EXCEPT ![r] = q]
    /\ answer' = [answer EXCEPT ![r] = "replay"]
    /\ Goto(r, "end")

LookupKey(r) ==
    /\ At(r, "lookup")
    /\ \/ Replay(r)
       \/ RunsOfKey(KeyOf[r]) = {} /\ Goto(r, "lockKey") /\ UNCHANGED <<answer, replayed>>
    /\ UNCHANGED <<row, tries, promoting, lock, faults>>

\* The key's lock is this call's, new or as good as new.
TakeKey(r) ==
    /\ keyLock' = [keyLock EXCEPT ![KeyOf[r]] = Unbound]
    /\ aged' = aged \ {KeyOf[r]}
    /\ Goto(r, "insert")

\* (a bug) a lock bound to a run is taken over like a conversation's
LockKeyOverBound(r) ==
    /\ At(r, "lockKey")
    /\ IF keyLock[KeyOf[r]] # Unbound
       THEN TakeKey(r)
       ELSE Goto(r, "repoll") /\ UNCHANGED lock
    /\ UNCHANGED <<row, tries, answer, replayed, promoting, faults>>

\* (a bug) a lock without a run is never stale
LockKeyNoReclaim(r) ==
    /\ At(r, "lockKey")
    /\ \/ keyLock[KeyOf[r]] = NoRun /\ TakeKey(r)
       \/ keyLock[KeyOf[r]] # NoRun /\ Goto(r, "repoll") /\ UNCHANGED lock
    /\ UNCHANGED <<row, tries, answer, replayed, promoting, faults>>

\* acquireAgentRunLock(idemLock, 'idempotency'): the insert of the lock document, or the
\* read of the one that is there; taken = AgentRunIdempotencyKeyTakenError.
LockKey(r) ==
    /\ At(r, "lockKey")
    /\ \/ keyLock[KeyOf[r]] = NoRun /\ TakeKey(r)
       \/ KeyOf[r] \in aged /\ Goto(r, "reclaim") /\ UNCHANGED lock
       \/ /\ keyLock[KeyOf[r]] # NoRun /\ KeyOf[r] \notin aged
          /\ Goto(r, "repoll")
          /\ UNCHANGED lock
    /\ UNCHANGED <<row, tries, answer, replayed, promoting, faults>>

\* The CAS on the old holder; whoever loses it finds the key taken.
ReclaimKey(r) ==
    /\ At(r, "reclaim")
    /\ \/ KeyOf[r] \in aged /\ TakeKey(r)
       \/ KeyOf[r] \notin aged /\ Goto(r, "repoll") /\ UNCHANGED lock
    /\ UNCHANGED <<row, tries, answer, replayed, promoting, faults>>

\* (a bug) one lookup too many, off by one at the last attempt
RepollKeyOnceMore(r) ==
    /\ At(r, "repoll")
    /\ RunsOfKey(KeyOf[r]) = {} /\ tries[r] <= REPOLL_ATTEMPTS
    /\ tries' = [tries EXCEPT ![r] = @ + 1]
    /\ UNCHANGED <<row, pc, answer, replayed, promoting, lock, faults>>

\* lookupTakenKey: waits for the row of the request that has the key, a few times; the
\* wait is longer than the gap between that request's key and its row, unless it is slow.
RepollKey(r) ==
    /\ At(r, "repoll")
    /\ \/ Replay(r) /\ UNCHANGED tries
       \/ /\ RunsOfKey(KeyOf[r]) = {}
          /\ tries[r] < REPOLL_ATTEMPTS
          /\ tries' = [tries EXCEPT ![r] = @ + 1]
          /\ UNCHANGED <<pc, answer, replayed>>
       \/ /\ RunsOfKey(KeyOf[r]) = {}
          /\ tries[r] = REPOLL_ATTEMPTS
          /\ \/ slips[KeyOf[r]] > 0
             \/ \A q \in Requests : ~(KeyOf[q] = KeyOf[r] /\ At(q, "insert"))
          /\ answer' = [answer EXCEPT ![r] = "key_conflict"]
          /\ Goto(r, "end")
          /\ UNCHANGED <<tries, replayed>>
    /\ UNCHANGED <<row, promoting, lock, faults>>

\* A caller that was told its key is taken sends the request again.
Retry(r) ==
    /\ At(r, "end") /\ answer[r] = "key_conflict"
    /\ Goto(r, "lookup")
    /\ tries' = [tries EXCEPT ![r] = 0]
    /\ answer' = [answer EXCEPT ![r] = "none"]
    /\ UNCHANGED <<row, replayed, promoting, lock, faults>>

\* deleteOne({ _id: idemLock, runId: null }): whoever's lock that is by now.
FreeUnboundKey(r) ==
    /\ keyLock' = [k \in Keys |-> IF k = KeyOf[r] /\ keyLock[k] = Unbound THEN NoRun ELSE keyLock[k]]
    /\ aged' = aged \ {KeyOf[r]}

AfterInsert(r) == IF r \in Scheduled THEN "quota" ELSE "cap"

\* createAgentRun's insert.  A conversation that is busy, or an insert that throws, ends
\* the call and gives the key back.
InsertRun(r) ==
    /\ At(r, "insert")
    /\ \/ /\ row' = [row EXCEPT ![r] = IF r \in Scheduled THEN "scheduled" ELSE "queued"]
          /\ Goto(r, IF KeyOf[r] = NoKey THEN AfterInsert(r) ELSE "bind")
          /\ UNCHANGED <<lock, answer>>
       \/ /\ answer' = [answer EXCEPT ![r] = "refused"]
          /\ FreeUnboundKey(r)
          /\ Goto(r, "end")
          /\ UNCHANGED row
    /\ UNCHANGED <<tries, replayed, promoting, faults>>

\* bindAgentRunLock, which binds the key's lock if nobody has.  When it throws, the row
\* stays and the lock that is not bound is deleted; the caller gets the error.
BindKey(r) ==
    /\ At(r, "bind")
    /\ \/ /\ keyLock' = [keyLock EXCEPT ![KeyOf[r]] = IF @ = Unbound THEN r ELSE @]
          /\ aged' = aged \ {KeyOf[r]}
          /\ Goto(r, AfterInsert(r))
          /\ UNCHANGED <<answer, faults>>
       \/ /\ slips[KeyOf[r]] < MaxSlips
          /\ FreeUnboundKey(r)
          /\ slips' = [slips EXCEPT ![KeyOf[r]] = @ + 1]
          /\ cut' = cut \cup {r}
          /\ answer' = [answer EXCEPT ![r] = "refused"]
          /\ UNCHANGED pc
    /\ UNCHANGED <<row, tries, replayed, promoting>>

\* The call will delete its row.
Refuse(r) == Goto(r, "delete") /\ answer' = [answer EXCEPT ![r] = "refused"]

\* (a bug) the row that tips the cap over is not counted
CapCheckOthers(r) ==
    /\ At(r, "cap")
    /\ \/ Cardinality(Active \ {r}) > MaxActive /\ Refuse(r)
       \/ Cardinality(Active \ {r}) <= MaxActive /\ Goto(r, "quota") /\ UNCHANGED answer
    /\ UNCHANGED <<row, tries, replayed, promoting, lock, faults>>

\* defaultClassOverCap, after the insert: the row counts itself.
CapCheck(r) ==
    /\ At(r, "cap")
    /\ \/ Cardinality(Active) > MaxActive /\ Refuse(r)
       \/ Cardinality(Active) <= MaxActive /\ Goto(r, "quota") /\ UNCHANGED answer
    /\ UNCHANGED <<row, tries, replayed, promoting, lock, faults>>

\* admitQueued; a scheduled run is accepted here and published when it is promoted.
QuotaCheck(r) ==
    /\ At(r, "quota")
    /\ \/ Refuse(r)
       \/ r \notin Scheduled /\ Goto(r, "publish") /\ UNCHANGED answer
       \/ r \in Scheduled /\ Goto(r, "end") /\ answer' = [answer EXCEPT ![r] = "accepted"]
    /\ UNCHANGED <<row, tries, replayed, promoting, lock, faults>>

PublishRun(r) ==
    /\ At(r, "publish")
    /\ \/ Refuse(r)
       \/ Goto(r, "end") /\ answer' = [answer EXCEPT ![r] = "accepted"]
    /\ UNCHANGED <<row, tries, replayed, promoting, lock, faults>>

\* deleteAgentRun: the row, then the key it holds.
DeleteRow(r) ==
    /\ At(r, "delete")
    /\ row' = [row EXCEPT ![r] = "deleted"]
    /\ Goto(r, "release")
    /\ UNCHANGED <<tries, answer, replayed, promoting, lock, faults>>

\* One that throws is logged and the call goes on: Cut, as far as the key is concerned.
ReleaseKey(r) ==
    /\ At(r, "release")
    /\ keyLock' = [k \in Keys |-> IF keyLock[k] = r THEN NoRun ELSE keyLock[k]]
    /\ Goto(r, "end")
    /\ UNCHANGED <<row, tries, answer, replayed, promoting, aged, faults>>

\* A run that was claimed comes to its end, or a pause.  The reconciler publishes the row
\* of a call that was cut off.
EndRun(r) ==
    /\ row[r] = "queued" /\ (pc[r] = "end" \/ r \in cut)
    /\ row' = [row EXCEPT ![r] = "ended"]
    /\ UNCHANGED <<pc, tries, answer, replayed, promoting, lock, faults>>

-----------------------------------------------------------------------------
(***************************************************************************)
(* What goes wrong.  A call that is cut off before it takes its key's lock *)
(* has changed nothing, and is left out.                                   *)
(***************************************************************************)
Cut(r) ==
    /\ Cardinality(cut) < MaxCuts
    /\ pc[r] \in {"insert", "bind", "cap", "quota", "publish", "delete", "release"} /\ r \notin cut
    /\ cut' = cut \cup {r}
    /\ UNCHANGED <<row, pc, tries, answer, replayed, promoting, lock, slips>>

\* A call of the key that must hurry: it is between its lock and its bind, or it looked
\* the key up before there was a row and is about to take the lock.
Hurried(k) ==
    \E r \in Requests :
        /\ KeyOf[r] = k /\ r \notin cut
        /\ \/ pc[r] \in {"insert", "bind"}
           \/ pc[r] \in {"lockKey", "reclaim"} /\ RunsOfKey(k) # {}

\* An unbound lock that nobody works under passes ORPHAN_LOCK_GRACE_MS.
Age(k) ==
    /\ keyLock[k] = Unbound /\ k \notin aged /\ ~Hurried(k)
    /\ aged' = aged \cup {k}
    /\ UNCHANGED <<row, keyLock, pc, tries, answer, replayed, promoting, faults>>

\* It passes it under a call that takes longer than that for two or three database calls.
Outlast(k) ==
    /\ keyLock[k] = Unbound /\ k \notin aged /\ Hurried(k)
    /\ slips[k] < MaxSlips
    /\ aged' = aged \cup {k}
    /\ slips' = [slips EXCEPT ![k] = @ + 1]
    /\ UNCHANGED <<row, keyLock, pc, tries, answer, replayed, promoting, cut>>

-----------------------------------------------------------------------------
(***************************************************************************)
(* The reconciler and its scheduled runs.  A tick takes a lock first, but  *)
(* the sweep at a node's boot does not, the lock ends after five minutes,  *)
(* and without a cache everybody gets it: several sweeps may run at once.  *)
(***************************************************************************)

\* promotionOverCap
FindRoom(n, r) ==
    /\ promoting[n] = NoRun
    /\ row[r] = "scheduled"
    /\ Cardinality(Active) < MaxActive
    /\ promoting' = [promoting EXCEPT ![n] = r]
    /\ UNCHANGED <<row, pc, tries, answer, replayed, lock, faults>>

\* promoteScheduledAgentRun and the publish that follows; a row that is gone, or a
\* conversation that is busy, stays as it is.
Promote(n) ==
    /\ promoting[n] # NoRun
    /\ \/ row[promoting[n]] = "scheduled" /\ row' = [row EXCEPT ![promoting[n]] = "queued"]
       \/ UNCHANGED row
    /\ promoting' = [promoting EXCEPT ![n] = NoRun]
    /\ UNCHANGED <<pc, tries, answer, replayed, lock, faults>>

-----------------------------------------------------------------------------
\* The next step of a call that is at work.
Step(r) ==
    \/ LookupKey(r) \/ LockKey(r) \/ ReclaimKey(r) \/ RepollKey(r) \/ InsertRun(r) \/ BindKey(r)
    \/ CapCheck(r) \/ QuotaCheck(r) \/ PublishRun(r) \/ DeleteRow(r) \/ ReleaseKey(r)

Next ==
    \/ \E r \in Requests : Step(r) \/ Retry(r) \/ Cut(r) \/ EndRun(r)
    \/ \E k \in Keys : Age(k) \/ Outlast(k)
    \/ \E n \in Sweeps : Promote(n) \/ \E r \in Requests : FindRoom(n, r)

Spec == Init /\ [][Next]_vars

\* Calls that are not cut off go on, callers retry, and time passes.
FairSpec ==
    /\ Spec
    /\ \A r \in Requests : WF_vars(Step(r)) /\ WF_vars(Retry(r))
    /\ \A k \in Keys : WF_vars(Age(k))

-----------------------------------------------------------------------------
(***************************************************************************)
(* Properties                                                              *)
(***************************************************************************)

\* An Idempotency-Key has one run: the retry of a request starts no second one, however it
\* overlaps with the first and wherever that was cut off.  Each bind that fails after its
\* insert, and each call that outlasts the 60 seconds of its unbound lock, can add one.
OneRunPerKey == \A k \in Keys : Cardinality(RunsOfKey(k)) <= 1 + slips[k]

\* The runs that passed the cap check are never more than the cap: a burst of parallel
\* requests cannot all pass, because each one counts after its own insert.  (A promoted
\* run passes the reconciler's check instead; see PromotionWithinCap.)
AdmittedWithinCap == Cardinality({r \in Requests : Admitted(r)}) <= MaxActive

\* A sweep counts and promotes in two calls, and requests and other sweeps go past the cap
\* in between: the runs that are let start exceed the cap by at most one for each sweep that
\* runs at once, however many runs are due, and one for each call that was cut off, whose
\* row may start though nobody checked the cap or its delete failed.
Promoted(r) == r \in Scheduled /\ row[r] = "queued"
LeftBehind(r) == r \in cut /\ row[r] = "queued"
StartedNearCap ==
    Cardinality({r \in Requests : Admitted(r) \/ Promoted(r) \/ LeftBehind(r)})
        <= MaxActive + Cardinality(Sweeps) + Cardinality(cut)

\* A lock left bound to a deleted run "would turn every retry into a 409": a caller that
\* keeps retrying is not refused for ever.  Whoever held the key was refused and freed it, or
\* died and its lock is reclaimed; only a release that was itself lost keeps the key.
ReleaseLost(k) == keyLock[k] \in cut /\ row[keyLock[k]] = "deleted"
RetryIsServed ==
    \A r \in {q \in Requests : KeyOf[q] \in Keys} :
        pc[r] = "lookup" ~>
            \/ pc[r] = "end" /\ answer[r] # "key_conflict"
            \/ r \in cut \/ ReleaseLost(KeyOf[r])

\* "Two identical requests that arrive together do not fail with a conflict."
IdenticalRequestsDoNotConflict == \A r \in Requests : answer[r] # "key_conflict"

\* A retry gets the stored run: the run it was answered with is not taken away again
\* by the first request's own refusal.
ReplayedRunStays ==
    \A r \in Requests : replayed[r] # NoRun => row[replayed[r]] # "deleted"

\* A scheduled run is promoted only while there is room under the cap.
PromotionWithinCap ==
    [][\A n \in Sweeps : Promote(n) /\ row' # row => Cardinality(Active) < MaxActive]_vars

=============================================================================
