--------------------------- MODULE AgentRunStore ---------------------------
(***************************************************************************)
(* The MongoDB provider's agent-run store                                  *)
(* (src/src/lib/database/mongodb/agent-run.mixin.ts): how several request  *)
(* handlers, workers and reconcilers, on one node or on many, keep a       *)
(* conversation down to one active run.                                    *)
(*                                                                         *)
(* A conversation's slot is a lock document keyed by its `_id`; a run row  *)
(* is inserted, requeued or promoted only by a caller that took the lock,  *)
(* which is then bound to the run.  Every database call is one step here,  *)
(* so a caller can be overtaken, or die, between any two of its calls.     *)
(*                                                                         *)
(* The records modelled here carry no Idempotency-Key.  The failed insert  *)
(* of a lock document and the read that follows it are one step: a lock    *)
(* that vanishes between the two sends the caller back to the insert.      *)
(***************************************************************************)
CONSTANTS
    Runs, Convs, ConvOf,
    Procs,          \* concurrent callers of the store
    NoLock,         \* the lock document does not exist
    Unbound,        \* the lock document's runId is null
    PartialIndex,   \* does the backend have the unique partial index (Cosmos DB rejects it)
    CanPause,       \* may a turn pause for a person (`requires_action`)
    CanFail         \* may a caller die, or a write fail, between two steps

ASSUME StoreAssumption ==
    /\ ConvOf \in [Runs -> Convs]
    /\ NoLock \notin Runs
    /\ Unbound \notin Runs
    /\ NoLock # Unbound
    /\ PartialIndex \in BOOLEAN
    /\ CanPause \in BOOLEAN
    /\ CanFail \in BOOLEAN

VARIABLES
    row,    \* agent_runs: the status of each run
    lock,   \* agent_run_locks: lock[c] is NoLock, Unbound or the run it is bound to
    aged,   \* is the lock document older than ORPHAN_LOCK_GRACE_MS
    pc,     \* where a caller is: "idle" or the next database call it makes
    op,     \* which operation it is in
    run,    \* the run it is about
    seen,   \* the lock's runId as the caller read it
    fresh   \* is the lock's createdAt still the one the caller read

vars == <<row, lock, aged, pc, op, run, seen, fresh>>

\* The contract: the row table in which every operation is one step.
Table == INSTANCE RunTable

Calls == {"idle", "acquire", "holder", "reclaim", "write", "drop", "bind", "release"}
Ops == {"createQueued", "createRunning", "promote", "resume", "end"}

TypeOK ==
    /\ row \in [Runs -> Table!Status]
    /\ lock \in [Convs -> Runs \cup {NoLock, Unbound}]
    /\ aged \in [Convs -> BOOLEAN]
    /\ pc \in [Procs -> Calls]
    /\ op \in [Procs -> Ops]
    /\ run \in [Procs -> Runs]
    /\ seen \in [Procs -> Runs \cup {Unbound}]
    /\ fresh \in [Procs -> BOOLEAN]

Conv(p) == ConvOf[run[p]]

Creating(p) == op[p] \in {"createQueued", "createRunning"}

\* p has the lock document, not yet bound to its run.
HoldsUnbound(p) == pc[p] \in {"write", "drop", "bind"}

-----------------------------------------------------------------------------
Goto(p, call) == pc' = [pc EXCEPT ![p] = call]

\* p starts an operation on r; its first database call is `call`.
Enter(p, operation, r, call) ==
    /\ pc[p] = "idle"
    /\ op' = [op EXCEPT ![p] = operation]
    /\ run' = [run EXCEPT ![p] = r]
    /\ Goto(p, call)

Init ==
    /\ Table!Init
    /\ lock = [c \in Convs |-> NoLock]
    /\ aged = [c \in Convs |-> FALSE]
    /\ pc = [p \in Procs |-> "idle"]
    /\ op = [p \in Procs |-> "end"]
    /\ \E r \in Runs : run = [p \in Procs |-> r]
    /\ seen = [p \in Procs |-> Unbound]
    /\ fresh = [p \in Procs |-> FALSE]

(***************************************************************************)
(* acquireAgentRunLock                                                     *)
(***************************************************************************)

\* The lock document is written with a new createdAt: whoever read it before
\* finds its compare-and-set on the old one failing.
TakeLock(p) ==
    /\ lock' = [lock EXCEPT ![Conv(p)] = Unbound]
    /\ aged' = [aged EXCEPT ![Conv(p)] = FALSE]
    /\ fresh' = [q \in Procs |-> fresh[q] /\ Conv(q) # Conv(p)]
    /\ Goto(p, "write")

InsertLock(p) ==
    /\ pc[p] = "acquire"
    /\ lock[Conv(p)] = NoLock
    /\ TakeLock(p)
    /\ UNCHANGED <<row, op, run, seen>>

\* The `_id` is taken: read the document.  One that names no run is stale only
\* past the grace; one bound to a run is judged by the run (ReadHolder).  A lock
\* that is not stale ends the operation with AgentRunConflictError.
ReadLock(p) ==
    /\ pc[p] = "acquire"
    /\ lock[Conv(p)] # NoLock
    /\ seen' = [seen EXCEPT ![p] = lock[Conv(p)]]
    /\ fresh' = [fresh EXCEPT ![p] = TRUE]
    /\ Goto(p, CASE lock[Conv(p)] # Unbound -> "holder"
                 [] lock[Conv(p)] = Unbound /\ aged[Conv(p)] -> "reclaim"
                 [] lock[Conv(p)] = Unbound /\ ~aged[Conv(p)] -> "idle")
    /\ UNCHANGED <<row, lock, aged, op, run>>

\* An active holder ends the operation with AgentRunConflictError.  A read that
\* throws counts as "no such run": the lock is then judged stale.
ReadHolder(p) ==
    /\ pc[p] = "holder"
    /\ \/ Table!Active(seen[p]) /\ Goto(p, "idle")
       \/ (~Table!Active(seen[p]) \/ CanFail) /\ Goto(p, "reclaim")
    /\ UNCHANGED <<row, lock, aged, op, run, seen, fresh>>

\* (a bug) the reclaim is a plain update by _id, not a compare-and-set
ReclaimLockBlindly(p) ==
    /\ pc[p] = "reclaim"
    /\ lock[Conv(p)] # NoLock
    /\ TakeLock(p)
    /\ UNCHANGED <<row, op, run, seen>>

\* findOneAndUpdate({ _id, runId: held.runId, createdAt: held.createdAt }, ...)
ReclaimLock(p) ==
    /\ pc[p] = "reclaim"
    /\ lock[Conv(p)] = seen[p]
    /\ fresh[p]
    /\ TakeLock(p)
    /\ UNCHANGED <<row, op, run, seen>>

\* The compare-and-set matched no document: AgentRunConflictError.
LoseReclaim(p) ==
    /\ pc[p] = "reclaim"
    /\ ~(lock[Conv(p)] = seen[p] /\ fresh[p])
    /\ Goto(p, "idle")
    /\ UNCHANGED <<row, lock, aged, op, run, seen, fresh>>

(***************************************************************************)
(* createAgentRun, promoteScheduledAgentRun, requeueAgentRunForResume: the *)
(* read that starts them, and the row write under the lock.                *)
(***************************************************************************)

CreateActiveRun(p, r) ==
    /\ row[r] = "absent"
    /\ \A q \in Procs : ~(Creating(q) /\ run[q] = r /\ pc[q] # "idle")
    /\ \E o \in {"createQueued", "createRunning"} : Enter(p, o, r, "acquire")
    /\ UNCHANGED <<row, lock, aged, seen, fresh>>

\* A scheduled row takes no lock: one insert.
CreateScheduledRun(r) ==
    /\ row[r] = "absent"
    /\ \A q \in Procs : ~(Creating(q) /\ run[q] = r /\ pc[q] # "idle")
    /\ Table!Set(r, "scheduled")
    /\ UNCHANGED <<lock, aged, pc, op, run, seen, fresh>>

BeginPromote(p, r) ==
    /\ row[r] = "scheduled"
    /\ Enter(p, "promote", r, "acquire")
    /\ UNCHANGED <<row, lock, aged, seen, fresh>>

BeginResume(p, r) ==
    /\ row[r] = "requires_action"
    /\ Enter(p, "resume", r, "acquire")
    /\ UNCHANGED <<row, lock, aged, seen, fresh>>

\* The row may be written: it is still what the operation's filter asks for.
RowMatches(p) ==
    \/ Creating(p) /\ row[run[p]] = "absent"
    \/ op[p] = "promote" /\ row[run[p]] = "scheduled"
    \/ op[p] = "resume" /\ row[run[p]] = "requires_action"

\* (a bug) the row is requeued by id, whatever became of it since it was read
WriteRowUnguarded(p) ==
    /\ pc[p] = "write"
    /\ Table!Set(run[p], IF op[p] = "createRunning" THEN "running" ELSE "queued")
    /\ Goto(p, "bind")
    /\ UNCHANGED <<lock, aged, op, run, seen, fresh>>

\* The insert, or the compare-and-set to `queued`; the index, where there is one, lets it pass.
WriteRow(p) ==
    /\ pc[p] = "write"
    /\ RowMatches(p)
    /\ PartialIndex => Table!SlotFree(run[p])
    /\ Table!Set(run[p], IF op[p] = "createRunning" THEN "running" ELSE "queued")
    /\ Goto(p, "bind")
    /\ UNCHANGED <<lock, aged, op, run, seen, fresh>>

\* The row is not what the filter asks for, or the write throws (a duplicate key,
\* a database error).  A create and a promote give the unbound lock back; a
\* resume does so only when the filter matched nothing and lets an error escape.
WriteRowFails(p) ==
    /\ pc[p] = "write"
    /\ \/ ~RowMatches(p) /\ Goto(p, "drop")
       \/ /\ RowMatches(p)
          /\ (PartialIndex /\ ~Table!SlotFree(run[p])) \/ CanFail
          /\ Goto(p, IF op[p] = "resume" THEN "idle" ELSE "drop")
    /\ UNCHANGED <<row, lock, aged, op, run, seen, fresh>>

\* deleteOne({ _id: lockId, runId: null })
DropLock(p) ==
    /\ pc[p] = "drop"
    /\ lock' = [lock EXCEPT ![Conv(p)] = IF @ = Unbound THEN NoLock ELSE @]
    /\ Goto(p, "idle")
    /\ UNCHANGED <<row, aged, op, run, seen, fresh>>

\* (a bug) the lock is bound to the conversation's id
BindLockToConversation(p) ==
    /\ pc[p] = "bind"
    /\ lock' = [lock EXCEPT ![Conv(p)] = IF @ = Unbound THEN Conv(p) ELSE @]
    /\ Goto(p, "idle")
    /\ UNCHANGED <<row, aged, op, run, seen, fresh>>

\* bindAgentRunLock: updateOne({ _id: lockId, runId: null }, { runId })
BindLock(p) ==
    /\ pc[p] = "bind"
    /\ lock' = [lock EXCEPT ![Conv(p)] = IF @ = Unbound THEN run[p] ELSE @]
    /\ Goto(p, "idle")
    /\ UNCHANGED <<row, aged, op, run, seen, fresh>>

\* The bind throws.  createAgentRun's handler covers the bind too and deletes the
\* unbound lock although the row is in; a promote and a resume let the error escape.
BindFails(p) ==
    /\ CanFail
    /\ pc[p] = "bind"
    /\ Goto(p, IF Creating(p) THEN "drop" ELSE "idle")
    /\ UNCHANGED <<row, lock, aged, op, run, seen, fresh>>

(***************************************************************************)
(* Operations that end a run's activity: the row first, then the lock.     *)
(***************************************************************************)

\* (a bug) the lock is deleted by its _id, whoever holds it
ReleaseAnyLock(p) ==
    /\ pc[p] = "release"
    /\ lock' = [lock EXCEPT ![Conv(p)] = NoLock]
    /\ Goto(p, "idle")
    /\ UNCHANGED <<row, aged, op, run, seen, fresh>>

\* releaseConversationLock: deleteOne({ _id, runId }), only if THIS run still holds it
ReleaseLock(p) ==
    /\ pc[p] = "release"
    /\ lock' = [lock EXCEPT ![Conv(p)] = IF @ = run[p] THEN NoLock ELSE @]
    /\ Goto(p, "idle")
    /\ UNCHANGED <<row, aged, op, run, seen, fresh>>

End(p, r, statuses, s) ==
    /\ row[r] \in statuses
    /\ Table!Set(r, s)
    /\ Enter(p, "end", r, "release")
    /\ UNCHANGED <<lock, aged, seen, fresh>>

FinalizeRun(p, r) ==
    \E s \in Table!TerminalStatuses \cup (IF CanPause THEN {"requires_action"} ELSE {}) :
        End(p, r, {"running", "requires_action"}, s)

CancelRun(p, r) == End(p, r, {"queued", "scheduled"}, "canceled")

ExpireRun(p, r) == End(p, r, {"queued", "scheduled"}, "failed")

DeleteRun(p, r) == End(p, r, Table!Status \ {"absent", "deleted"}, "deleted")

\* (a bug) the claim is not guarded by the status
ClaimRunUnguarded(r) ==
    /\ row[r] \notin {"absent", "deleted", "running"}
    /\ Table!Set(r, "running")
    /\ UNCHANGED <<lock, aged, pc, op, run, seen, fresh>>

ClaimRun(r) ==
    /\ Table!ClaimAgentRun(r)
    /\ UNCHANGED <<lock, aged, pc, op, run, seen, fresh>>

\* cleanupAgentRunRetention deletes finished rows and leaves conversation locks alone.
RetainedRowDeleted(r) ==
    /\ row[r] \in Table!TerminalStatuses
    /\ Table!Set(r, "deleted")
    /\ UNCHANGED <<lock, aged, pc, op, run, seen, fresh>>

(***************************************************************************)
(* Failure and time.  ORPHAN_LOCK_GRACE_MS is "far beyond any insert gap": *)
(* it never passes for a lock whose taker is still alive and about to bind *)
(* or drop it.                                                             *)
(***************************************************************************)
CallerDies(p) ==
    /\ CanFail
    /\ pc[p] # "idle"
    /\ Goto(p, "idle")
    /\ UNCHANGED <<row, lock, aged, op, run, seen, fresh>>

GraceElapses(c) ==
    /\ lock[c] = Unbound
    /\ ~aged[c]
    /\ \A p \in Procs : ~(HoldsUnbound(p) /\ Conv(p) = c)
    /\ aged' = [aged EXCEPT ![c] = TRUE]
    /\ UNCHANGED <<row, lock, pc, op, run, seen, fresh>>

-----------------------------------------------------------------------------
CallerStep(p) ==
    \/ InsertLock(p) \/ ReadLock(p) \/ ReadHolder(p) \/ ReclaimLock(p) \/ LoseReclaim(p)
    \/ WriteRow(p) \/ WriteRowFails(p) \/ DropLock(p) \/ BindLock(p) \/ BindFails(p)
    \/ ReleaseLock(p)

CallerBegins(p, r) ==
    \/ CreateActiveRun(p, r) \/ BeginPromote(p, r) \/ BeginResume(p, r)
    \/ FinalizeRun(p, r) \/ CancelRun(p, r) \/ ExpireRun(p, r) \/ DeleteRun(p, r)

Next ==
    \/ \E p \in Procs : CallerStep(p) \/ CallerDies(p)
    \/ \E p \in Procs, r \in Runs : CallerBegins(p, r)
    \/ \E r \in Runs : CreateScheduledRun(r) \/ ClaimRun(r) \/ RetainedRowDeleted(r)
    \/ \E c \in Convs : GraceElapses(c)

Spec == Init /\ [][Next]_vars

-----------------------------------------------------------------------------
(***************************************************************************)
(* Properties                                                              *)
(***************************************************************************)

\* A conversation never has two runs that are queued or running: two turns would
\* write the same conversation at once.  This is what createAgentRun,
\* promoteScheduledAgentRun and requeueAgentRunForResume take the lock for.
OneActiveRunPerConversation ==
    \A r, q \in Runs :
        Table!Active(r) /\ Table!Active(q) /\ ConvOf[r] = ConvOf[q] => r = q

\* An active run holds its conversation's lock document: the document names it, or
\* names nobody yet and the caller that wrote the row is about to bind it.  A lock
\* that slips from under an active run is what lets a second one in.
ActiveRunHoldsSlot ==
    \A r \in Runs :
        Table!Active(r) =>
            \/ lock[ConvOf[r]] = r
            \/ /\ lock[ConvOf[r]] = Unbound
               /\ \E p \in Procs : pc[p] = "bind" /\ run[p] = r

\* The multi-step protocol implements the table of atomic operations: at every
\* database call the rows change by one operation of RunTable, or not at all.
ImplementsRunTable == Table!Spec

\* A caller whose reclaim fails is told that "an active run already exists": then
\* the slot is somebody's at that moment, bound to a run or about to be.
ConflictMeansSlotTaken == [][\A p \in Procs : LoseReclaim(p) => lock[Conv(p)] # NoLock]_vars

=============================================================================
