------------------------ MODULE AgentRunStoreProofs ------------------------
(***************************************************************************)
(* Proofs about AgentRunStore, for every set of runs, conversations and    *)
(* callers: its type invariant; that a conversation has one active run,    *)
(* with the partial index or by the lock documents alone when no turn      *)
(* pauses and no call fails; and that it implements RunTable.              *)
(***************************************************************************)
EXTENDS AgentRunStore, TLAPS

\* The run is over and no operation makes it active again, now that nothing pauses.
Ended(r) == row[r] \in Table!TerminalStatuses \cup {"deleted"}

\* A row that took the slot at some time.
Started(r) == row[r] \notin {"absent", "scheduled", "requires_action"}

(***************************************************************************)
(* Why the locks suffice: the inductive strengthening.                     *)
(***************************************************************************)

\* A caller between taking the lock and binding or dropping it is its only owner.
OwnerInv ==
    /\ \A p \in Procs : HoldsUnbound(p) => lock[Conv(p)] = Unbound
    /\ \A p, q \in Procs : HoldsUnbound(p) /\ HoldsUnbound(q) /\ Conv(p) = Conv(q) => p = q

\* An unbound lock has an owner, so no lock document outlives its grace unbound.
NoOrphanInv ==
    /\ \A c \in Convs : lock[c] = Unbound => \E p \in Procs : HoldsUnbound(p) /\ Conv(p) = c
    /\ \A c \in Convs : ~aged[c]

\* An active run is named by the lock, or its writer is about to bind it.
SlotInv ==
    \A r \in Runs :
        Table!Active(r) => lock[ConvOf[r]] = r \/ \E p \in Procs : pc[p] = "bind" /\ run[p] = r

\* What a bound lock, and a caller's memory of one, say about the run.
HolderInv ==
    /\ \A c \in Convs : lock[c] \in Runs => ConvOf[lock[c]] = c /\ Started(lock[c])
    /\ \A p \in Procs : pc[p] = "holder" => seen[p] \in Runs /\ Started(seen[p])
    /\ \A p \in Procs : pc[p] = "reclaim" => seen[p] \in Runs /\ Ended(seen[p])
    /\ \A p \in Procs : pc[p] = "release" => Ended(run[p])
    /\ \A p \in Procs : pc[p] = "bind" => Started(run[p])

NeverPaused == \A r \in Runs : row[r] # "requires_action"

LockInv == OwnerInv /\ NoOrphanInv /\ SlotInv /\ HolderInv /\ NeverPaused

\* Nothing pauses and nothing fails.
Undisturbed == ~CanPause /\ ~CanFail

-----------------------------------------------------------------------------
(***************************************************************************)
(* Type correctness                                                        *)
(***************************************************************************)

\* Every step of a caller inside an operation keeps the types: acquireAgentRunLock,
\* the row write under it, bindAgentRunLock and releaseConversationLock.
LEMMA CallerStepType ==
    ASSUME TypeOK, NEW p \in Procs, CallerStep(p)
    PROVE  TypeOK'
<1> USE StoreAssumption DEF TypeOK, Calls, Goto
<1>1. CASE InsertLock(p)
  BY <1>1 DEF InsertLock, TakeLock, Conv
<1>2. CASE ReadLock(p)
  <2>1. lock[Conv(p)] \in Runs \cup {Unbound}
    BY <1>2 DEF ReadLock, Conv
  <2>2. seen' \in [Procs -> Runs \cup {Unbound}]
    BY <1>2, <2>1 DEF ReadLock
  <2>3. pc' \in [Procs -> Calls]
    BY <1>2 DEF ReadLock
  <2> QED
    BY <1>2, <2>2, <2>3 DEF ReadLock
<1>3. CASE ReadHolder(p)
  BY <1>3 DEF ReadHolder
<1>4. CASE ReclaimLock(p)
  BY <1>4 DEF ReclaimLock, TakeLock, Conv
<1>5. CASE LoseReclaim(p)
  BY <1>5 DEF LoseReclaim
<1>6. CASE WriteRow(p)
  BY <1>6 DEF WriteRow, Table!Set, Table!Status, Table!ACTIVE_STATUSES
<1>7. CASE WriteRowFails(p)
  BY <1>7 DEF WriteRowFails
<1>8. CASE DropLock(p)
  BY <1>8 DEF DropLock, Conv
<1>9. CASE BindLock(p)
  BY <1>9 DEF BindLock, Conv
<1>10. CASE BindFails(p)
  BY <1>10 DEF BindFails
<1>11. CASE ReleaseLock(p)
  BY <1>11 DEF ReleaseLock, Conv
<1> QED
  BY <1>1, <1>2, <1>3, <1>4, <1>5, <1>6, <1>7, <1>8, <1>9, <1>10, <1>11 DEF CallerStep

\* A caller that starts an operation keeps the types; finalizeAgentRun,
\* requestAgentRunCancel, expireWaitingAgentRun and deleteAgentRun write the row at once.
LEMMA CallerBeginsType ==
    ASSUME TypeOK, NEW p \in Procs, NEW r \in Runs, CallerBegins(p, r)
    PROVE  TypeOK'
<1> USE DEF TypeOK, Calls, Ops, Goto, Enter
<1>1. CASE CreateActiveRun(p, r)
  BY <1>1 DEF CreateActiveRun
<1>2. CASE BeginPromote(p, r)
  BY <1>2 DEF BeginPromote
<1>3. CASE BeginResume(p, r)
  BY <1>3 DEF BeginResume
<1>4. ASSUME NEW statuses, NEW s \in Table!Status, End(p, r, statuses, s)
      PROVE  TypeOK'
  BY <1>4 DEF End, Table!Set
<1>5. CASE FinalizeRun(p, r)
  <2>1. PICK s \in Table!Status : End(p, r, {"running", "requires_action"}, s)
    BY <1>5 DEF FinalizeRun, Table!Status
  <2> QED
    BY <2>1, <1>4
<1>6. CASE CancelRun(p, r)
  <2>1. "canceled" \in Table!Status
    BY DEF Table!Status, Table!TerminalStatuses
  <2> QED
    BY <1>6, <2>1, <1>4 DEF CancelRun
<1>7. CASE ExpireRun(p, r)
  <2>1. "failed" \in Table!Status
    BY DEF Table!Status, Table!TerminalStatuses
  <2> QED
    BY <1>7, <2>1, <1>4 DEF ExpireRun
<1>8. CASE DeleteRun(p, r)
  <2>1. "deleted" \in Table!Status
    BY DEF Table!Status
  <2> QED
    BY <1>8, <2>1, <1>4 DEF DeleteRun
<1> QED
  BY <1>1, <1>2, <1>3, <1>5, <1>6, <1>7, <1>8 DEF CallerBegins

\* Every reachable state of the store is well typed: the base of the proofs below.
THEOREM TypeCorrect == Spec => []TypeOK
<1>1. Init => TypeOK
  BY StoreAssumption
     DEF Init, TypeOK, Calls, Ops, Table!Init, Table!Status
<1>2. TypeOK /\ [Next]_vars => TypeOK'
  <2> SUFFICES ASSUME TypeOK, [Next]_vars PROVE TypeOK'
    OBVIOUS
  <2>1. ASSUME NEW p \in Procs, CallerStep(p) PROVE TypeOK'
    BY <2>1, CallerStepType
  <2>2. ASSUME NEW p \in Procs, CallerDies(p) PROVE TypeOK'
    BY <2>2 DEF CallerDies, TypeOK, Goto, Calls
  <2>3. ASSUME NEW p \in Procs, NEW r \in Runs, CallerBegins(p, r) PROVE TypeOK'
    BY <2>3, CallerBeginsType
  <2>4. ASSUME NEW r \in Runs, CreateScheduledRun(r) PROVE TypeOK'
    BY <2>4 DEF CreateScheduledRun, TypeOK, Table!Set, Table!Status
  <2>5. ASSUME NEW r \in Runs, ClaimRun(r) PROVE TypeOK'
    BY <2>5 DEF ClaimRun, TypeOK, Table!ClaimAgentRun, Table!Set, Table!Status, Table!ACTIVE_STATUSES
  <2>6. ASSUME NEW r \in Runs, RetainedRowDeleted(r) PROVE TypeOK'
    BY <2>6 DEF RetainedRowDeleted, TypeOK, Table!Set, Table!Status
  <2>7. ASSUME NEW c \in Convs, GraceElapses(c) PROVE TypeOK'
    BY <2>7 DEF GraceElapses, TypeOK
  <2>8. CASE UNCHANGED vars
    BY <2>8 DEF vars, TypeOK
  <2> QED
    BY <2>1, <2>2, <2>3, <2>4, <2>5, <2>6, <2>7, <2>8 DEF Next
<1> QED
  BY <1>1, <1>2, PTL DEF Spec

-----------------------------------------------------------------------------
(***************************************************************************)
(* The locks alone, when nothing pauses and nothing fails                  *)
(***************************************************************************)

\* What a row may do without touching anybody's slot: stay, end, be claimed, or be
\* inserted as a scheduled run.
QuietRow(q) ==
    \/ row'[q] = row[q]
    \/ row'[q] \in Table!TerminalStatuses \cup {"deleted"}
    \/ row[q] = "queued" /\ row'[q] = "running"
    \/ row[q] = "absent" /\ row'[q] = "scheduled"

\* What a caller may do without becoming or ceasing to be an owner.
QuietCaller(q) ==
    /\ pc'[q] \in {"write", "drop", "bind"} <=> pc[q] \in {"write", "drop", "bind"}
    /\ pc'[q] = "bind" <=> pc[q] = "bind"
    /\ HoldsUnbound(q) => run'[q] = run[q]
    /\ pc'[q] = "holder" =>
          (pc[q] = "holder" /\ seen'[q] = seen[q]) \/ (seen'[q] \in Runs /\ Started(seen'[q]))
    /\ pc'[q] = "reclaim" =>
          (pc[q] = "reclaim" /\ seen'[q] = seen[q]) \/ (seen'[q] \in Runs /\ Ended(seen'[q]))
    /\ pc'[q] = "release" =>
          \/ pc[q] = "release" /\ run'[q] = run[q]
          \/ row'[run'[q]] \in Table!TerminalStatuses \cup {"deleted"}

\* A step that moves no lock document and is quiet for every row and caller keeps
\* the invariant: reads, refusals, claims, ends of runs, starts of operations.
LEMMA QuietStep ==
    ASSUME TypeOK, TypeOK', LockInv, UNCHANGED <<lock, aged>>,
           \A q \in Runs : QuietRow(q), \A q \in Procs : QuietCaller(q)
    PROVE  LockInv'
<1> USE StoreAssumption
<1>1. OwnerInv'
  BY DEF LockInv, OwnerInv, QuietCaller, HoldsUnbound, Conv, TypeOK
<1>2. NoOrphanInv'
  <2>1. ASSUME NEW c \in Convs, lock[c] = Unbound
        PROVE  \E q \in Procs : HoldsUnbound(q)' /\ Conv(q)' = c
    <3>1. PICK q \in Procs : HoldsUnbound(q) /\ Conv(q) = c
      BY <2>1 DEF LockInv, NoOrphanInv
    <3>2. QuietCaller(q)
      OBVIOUS
    <3> QED
      BY <3>1, <3>2 DEF QuietCaller, HoldsUnbound, Conv
  <2> QED
    BY <2>1 DEF LockInv, NoOrphanInv
<1>3. SlotInv'
  <2> SUFFICES ASSUME NEW r \in Runs, Table!Active(r)'
               PROVE  (lock[ConvOf[r]] = r \/ \E q \in Procs : pc[q] = "bind" /\ run[q] = r)'
    BY DEF SlotInv
  <2>1. QuietRow(r)
    OBVIOUS
  <2>2. Table!Active(r)
    BY <2>1 DEF QuietRow, Table!Active, Table!ACTIVE_STATUSES, Table!TerminalStatuses
  <2>3. CASE lock[ConvOf[r]] = r
    BY <2>3
  <2>4. ASSUME NEW q \in Procs, pc[q] = "bind", run[q] = r
        PROVE  pc'[q] = "bind" /\ run'[q] = r
    <3>1. QuietCaller(q)
      OBVIOUS
    <3> QED
      BY <2>4, <3>1 DEF QuietCaller, HoldsUnbound, Started, Ended
  <2> QED
    BY <2>2, <2>3, <2>4 DEF LockInv, SlotInv
<1>4. ASSUME NEW r \in Runs, Started(r) PROVE Started(r)'
  <2>1. QuietRow(r)
    OBVIOUS
  <2> QED
    BY <1>4, <2>1 DEF QuietRow, Started, Table!TerminalStatuses
<1>5. ASSUME NEW r \in Runs, Ended(r) PROVE Ended(r)'
  <2>1. QuietRow(r)
    OBVIOUS
  <2> QED
    BY <1>5, <2>1 DEF QuietRow, Ended, Table!TerminalStatuses
<1>6. HolderInv'
  <2>1. ASSUME NEW c \in Convs, lock[c] \in Runs
        PROVE  ConvOf[lock[c]] = c /\ Started(lock[c])'
    BY <2>1, <1>4 DEF LockInv, HolderInv
  <2>2. ASSUME NEW q \in Procs, pc'[q] = "holder"
        PROVE  seen'[q] \in Runs /\ (Started(seen[q]))'
    <3>1. QuietCaller(q)
      OBVIOUS
    <3>2. seen'[q] \in Runs /\ Started(seen'[q])
      BY <2>2, <3>1 DEF QuietCaller, LockInv, HolderInv
    <3> QED
      BY <3>2, <1>4 DEF Started
  <2>3. ASSUME NEW q \in Procs, pc'[q] = "reclaim"
        PROVE  seen'[q] \in Runs /\ (Ended(seen[q]))'
    <3>1. QuietCaller(q)
      OBVIOUS
    <3>2. seen'[q] \in Runs /\ Ended(seen'[q])
      BY <2>3, <3>1 DEF QuietCaller, LockInv, HolderInv
    <3> QED
      BY <3>2, <1>5 DEF Ended
  <2>4. ASSUME NEW q \in Procs, pc'[q] = "release"
        PROVE  (Ended(run[q]))'
    <3>1. QuietCaller(q) /\ run[q] \in Runs
      BY DEF TypeOK
    <3>2. CASE pc[q] = "release" /\ run'[q] = run[q]
      <4>1. Ended(run[q])
        BY <3>2 DEF LockInv, HolderInv
      <4> QED
        BY <4>1, <3>1, <3>2, <1>5 DEF Ended
    <3>3. CASE row'[run'[q]] \in Table!TerminalStatuses \cup {"deleted"}
      BY <3>3 DEF Ended
    <3> QED
      BY <2>4, <3>1, <3>2, <3>3 DEF QuietCaller, HoldsUnbound, Started, Ended
  <2>5. ASSUME NEW q \in Procs, pc'[q] = "bind"
        PROVE  (Started(run[q]))'
    <3>1. QuietCaller(q) /\ run[q] \in Runs
      BY DEF TypeOK
    <3>2. Started(run[q]) /\ run'[q] = run[q]
      BY <2>5, <3>1 DEF QuietCaller, HoldsUnbound, LockInv, HolderInv
    <3> QED
      BY <3>1, <3>2, <1>4 DEF Started
  <2> QED
    BY <2>1, <2>2, <2>3, <2>4, <2>5 DEF HolderInv
<1>7. NeverPaused'
  <2> SUFFICES ASSUME NEW r \in Runs PROVE row'[r] # "requires_action"
    BY DEF NeverPaused
  <2>1. QuietRow(r)
    OBVIOUS
  <2> QED
    BY <2>1 DEF QuietRow, LockInv, NeverPaused, Table!TerminalStatuses
<1> QED
  BY <1>1, <1>2, <1>3, <1>6, <1>7 DEF LockInv

\* The two ways to become the owner of a lock document: the insert that finds none,
\* and the reclaim of one whose holder has ended.
LEMMA TakeLockKeepsLockInv ==
    ASSUME TypeOK, LockInv, NEW p \in Procs,
           pc[p] \notin {"write", "drop", "bind"},
           lock[Conv(p)] # Unbound,
           \A r \in Runs : Table!Active(r) => lock[Conv(p)] # r,
           TakeLock(p), UNCHANGED <<row, run, seen>>
    PROVE  LockInv'
<1> USE StoreAssumption DEF TypeOK, Goto, TakeLock, Conv, HoldsUnbound
<1>1. OwnerInv'
  BY DEF LockInv, OwnerInv
<1>2. NoOrphanInv'
  <2>1. ASSUME NEW c \in Convs, lock'[c] = Unbound
        PROVE  \E q \in Procs : HoldsUnbound(q)' /\ Conv(q)' = c
    <3>1. CASE c = Conv(p)
      BY <3>1
    <3>2. CASE c # Conv(p)
      <4>1. PICK q \in Procs : HoldsUnbound(q) /\ Conv(q) = c
        BY <2>1, <3>2 DEF LockInv, NoOrphanInv
      <4> QED
        BY <4>1, <3>2
    <3> QED
      BY <3>1, <3>2
  <2> QED
    BY <2>1 DEF LockInv, NoOrphanInv
<1>3. SlotInv'
  <2> SUFFICES ASSUME NEW r \in Runs, Table!Active(r)
               PROVE  lock'[ConvOf[r]] = r \/ \E q \in Procs : pc'[q] = "bind" /\ run[q] = r
    BY DEF SlotInv, Table!Active
  <2>1. CASE lock[ConvOf[r]] = r
    <3>1. ConvOf[r] # Conv(p)
      BY <2>1
    <3> QED
      BY <2>1, <3>1
  <2>2. ASSUME NEW q \in Procs, pc[q] = "bind", run[q] = r
        PROVE  pc'[q] = "bind"
    BY <2>2
  <2> QED
    BY <2>1, <2>2 DEF LockInv, SlotInv
<1>4. HolderInv' /\ NeverPaused'
  BY DEF LockInv, HolderInv, NeverPaused, Started, Ended
<1> QED
  BY <1>1, <1>2, <1>3, <1>4 DEF LockInv

\* Nobody but the owner of an unbound lock stands behind an active run of its
\* conversation: what makes the row write, and the drop, safe.
LEMMA OwnerSeesFreeSlot ==
    ASSUME TypeOK, LockInv, NEW p \in Procs, pc[p] \in {"write", "drop"}
    PROVE  \A q \in Runs : ConvOf[q] = Conv(p) => ~Table!Active(q)
<1> SUFFICES ASSUME NEW q \in Runs, ConvOf[q] = Conv(p), Table!Active(q)
             PROVE  FALSE
  OBVIOUS
<1>1. lock[ConvOf[q]] = Unbound
  BY DEF LockInv, OwnerInv, HoldsUnbound
<1>2. PICK o \in Procs : pc[o] = "bind" /\ run[o] = q
  BY <1>1, StoreAssumption DEF LockInv, SlotInv
<1>3. o = p
  BY <1>2 DEF LockInv, OwnerInv, HoldsUnbound, Conv
<1> QED
  BY <1>2, <1>3

\* The row write under the lock keeps the invariant.
LEMMA WriteRowKeepsLockInv ==
    ASSUME TypeOK, LockInv, NEW p \in Procs, WriteRow(p)
    PROVE  LockInv'
<1> USE StoreAssumption DEF TypeOK, Conv, HoldsUnbound
<1>1. /\ pc[p] = "write" /\ run[p] \in Runs
      /\ row[run[p]] \in {"absent", "scheduled", "requires_action"}
      /\ row'[run[p]] \in {"queued", "running"}
      /\ \A r \in Runs \ {run[p]} : row'[r] = row[r]
      /\ pc' = [pc EXCEPT ![p] = "bind"]
      /\ UNCHANGED <<lock, aged, run, seen>>
  BY DEF WriteRow, RowMatches, Table!Set, Goto
<1>2. OwnerInv'
  BY <1>1 DEF LockInv, OwnerInv
<1>3. NoOrphanInv'
  <2>1. ASSUME NEW c \in Convs, lock[c] = Unbound
        PROVE  \E q \in Procs : HoldsUnbound(q)' /\ Conv(q)' = c
    <3>1. PICK q \in Procs : HoldsUnbound(q) /\ Conv(q) = c
      BY <2>1 DEF LockInv, NoOrphanInv
    <3> QED
      BY <3>1, <1>1
  <2> QED
    BY <2>1, <1>1 DEF LockInv, NoOrphanInv
<1>4. SlotInv'
  <2> SUFFICES ASSUME NEW r \in Runs, Table!Active(r)'
               PROVE  lock[ConvOf[r]] = r \/ \E q \in Procs : pc'[q] = "bind" /\ run[q] = r
    BY <1>1 DEF SlotInv
  <2>1. CASE r = run[p]
    BY <2>1, <1>1
  <2>2. CASE r # run[p]
    <3>1. Table!Active(r)
      BY <2>2, <1>1 DEF Table!Active
    <3>2. ASSUME NEW q \in Procs, pc[q] = "bind", run[q] = r
          PROVE  pc'[q] = "bind"
      BY <3>2, <1>1
    <3> QED
      BY <3>1, <3>2 DEF LockInv, SlotInv
  <2> QED
    BY <2>1, <2>2
<1>5. HolderInv'
  BY <1>1 DEF LockInv, HolderInv, Started, Ended, Table!TerminalStatuses
<1>6. NeverPaused'
  BY <1>1 DEF LockInv, NeverPaused
<1> QED
  BY <1>2, <1>3, <1>4, <1>5, <1>6 DEF LockInv

\* Binding the lock to the run keeps the invariant: the lock was still the caller's.
LEMMA BindLockKeepsLockInv ==
    ASSUME TypeOK, LockInv, NEW p \in Procs, BindLock(p)
    PROVE  LockInv'
<1> USE StoreAssumption DEF TypeOK, Conv, HoldsUnbound
<1>1. /\ pc[p] = "bind" /\ run[p] \in Runs /\ Conv(p) \in Convs
      /\ lock[Conv(p)] = Unbound
      /\ lock' = [lock EXCEPT ![Conv(p)] = run[p]]
      /\ pc' = [pc EXCEPT ![p] = "idle"]
      /\ UNCHANGED <<row, aged, run, seen>>
  BY DEF BindLock, Goto, LockInv, OwnerInv
<1>2. OwnerInv'
  BY <1>1 DEF LockInv, OwnerInv
<1>3. NoOrphanInv'
  <2>1. ASSUME NEW c \in Convs, lock'[c] = Unbound
        PROVE  \E q \in Procs : HoldsUnbound(q)' /\ Conv(q)' = c
    <3>1. c # Conv(p) /\ lock[c] = Unbound
      BY <2>1, <1>1
    <3>2. PICK q \in Procs : HoldsUnbound(q) /\ Conv(q) = c
      BY <3>1 DEF LockInv, NoOrphanInv
    <3> QED
      BY <3>1, <3>2, <1>1
  <2> QED
    BY <2>1, <1>1 DEF LockInv, NoOrphanInv
<1>4. SlotInv'
  <2> SUFFICES ASSUME NEW r \in Runs, Table!Active(r)
               PROVE  lock'[ConvOf[r]] = r \/ \E q \in Procs : pc'[q] = "bind" /\ run[q] = r
    BY <1>1 DEF SlotInv, Table!Active
  <2>1. CASE lock[ConvOf[r]] = r
    BY <2>1, <1>1
  <2>2. ASSUME NEW q \in Procs, pc[q] = "bind", run[q] = r
        PROVE  lock'[ConvOf[r]] = r \/ pc'[q] = "bind"
    BY <2>2, <1>1
  <2> QED
    BY <2>1, <2>2, <1>1 DEF LockInv, SlotInv
<1>5. HolderInv' /\ NeverPaused'
  BY <1>1 DEF LockInv, HolderInv, NeverPaused, Started, Ended, Table!Active,
              Table!ACTIVE_STATUSES, Table!TerminalStatuses
<1> QED
  BY <1>2, <1>3, <1>4, <1>5 DEF LockInv

\* Giving the lock back after a write that did not happen keeps the invariant.
LEMMA DropLockKeepsLockInv ==
    ASSUME TypeOK, LockInv, NEW p \in Procs, DropLock(p)
    PROVE  LockInv'
<1> USE StoreAssumption DEF TypeOK, Conv, HoldsUnbound
<1>1. /\ pc[p] = "drop" /\ run[p] \in Runs /\ Conv(p) \in Convs
      /\ lock[Conv(p)] = Unbound
      /\ lock' = [lock EXCEPT ![Conv(p)] = NoLock]
      /\ pc' = [pc EXCEPT ![p] = "idle"]
      /\ UNCHANGED <<row, aged, run, seen>>
  BY DEF DropLock, Goto, LockInv, OwnerInv
<1>2. OwnerInv'
  BY <1>1 DEF LockInv, OwnerInv
<1>3. NoOrphanInv'
  <2>1. ASSUME NEW c \in Convs, lock'[c] = Unbound
        PROVE  \E q \in Procs : HoldsUnbound(q)' /\ Conv(q)' = c
    <3>1. c # Conv(p) /\ lock[c] = Unbound
      BY <2>1, <1>1
    <3>2. PICK q \in Procs : HoldsUnbound(q) /\ Conv(q) = c
      BY <3>1 DEF LockInv, NoOrphanInv
    <3> QED
      BY <3>1, <3>2, <1>1
  <2> QED
    BY <2>1, <1>1 DEF LockInv, NoOrphanInv
<1>4. SlotInv'
  <2> SUFFICES ASSUME NEW r \in Runs, Table!Active(r)
               PROVE  lock'[ConvOf[r]] = r \/ \E q \in Procs : pc'[q] = "bind" /\ run[q] = r
    BY <1>1 DEF SlotInv, Table!Active
  <2>1. ConvOf[r] # Conv(p)
    BY <1>1, OwnerSeesFreeSlot
  <2>2. ASSUME NEW q \in Procs, pc[q] = "bind" PROVE pc'[q] = "bind"
    BY <2>2, <1>1
  <2> QED
    BY <2>1, <2>2, <1>1 DEF LockInv, SlotInv
<1>5. HolderInv' /\ NeverPaused'
  BY <1>1 DEF LockInv, HolderInv, NeverPaused, Started, Ended
<1> QED
  BY <1>2, <1>3, <1>4, <1>5 DEF LockInv

\* A delayed release keeps the invariant: it deletes the lock of an ended run only.
LEMMA ReleaseLockKeepsLockInv ==
    ASSUME TypeOK, LockInv, NEW p \in Procs, ReleaseLock(p)
    PROVE  LockInv'
<1> USE StoreAssumption DEF TypeOK, Conv, HoldsUnbound
<1>1. /\ pc[p] = "release" /\ run[p] \in Runs /\ Conv(p) \in Convs
      /\ lock' = [lock EXCEPT ![Conv(p)] = IF @ = run[p] THEN NoLock ELSE @]
      /\ pc' = [pc EXCEPT ![p] = "idle"]
      /\ UNCHANGED <<row, aged, run, seen>>
  BY DEF ReleaseLock, Goto
<1>2. OwnerInv'
  <2>1. ASSUME NEW q \in Procs, HoldsUnbound(q)'
        PROVE  HoldsUnbound(q) /\ lock'[Conv(q)] = Unbound
    BY <1>1, <2>1 DEF LockInv, OwnerInv
  <2> QED
    BY <1>1, <2>1 DEF LockInv, OwnerInv
<1>3. NoOrphanInv'
  <2>1. ASSUME NEW c \in Convs, lock'[c] = Unbound
        PROVE  \E q \in Procs : HoldsUnbound(q)' /\ Conv(q)' = c
    <3>1. lock[c] = Unbound
      BY <2>1, <1>1
    <3>2. PICK q \in Procs : HoldsUnbound(q) /\ Conv(q) = c
      BY <3>1 DEF LockInv, NoOrphanInv
    <3> QED
      BY <3>2, <1>1
  <2> QED
    BY <2>1, <1>1 DEF LockInv, NoOrphanInv
<1>4. SlotInv'
  <2> SUFFICES ASSUME NEW r \in Runs, Table!Active(r)
               PROVE  lock'[ConvOf[r]] = r \/ \E q \in Procs : pc'[q] = "bind" /\ run[q] = r
    BY <1>1 DEF SlotInv, Table!Active
  <2>1. r # run[p]
    BY <1>1 DEF LockInv, HolderInv, Ended, Table!Active, Table!ACTIVE_STATUSES,
                Table!TerminalStatuses
  <2>2. ASSUME NEW q \in Procs, pc[q] = "bind" PROVE pc'[q] = "bind"
    BY <2>2, <1>1
  <2> QED
    BY <2>1, <2>2, <1>1 DEF LockInv, SlotInv
<1>5. HolderInv' /\ NeverPaused'
  BY <1>1 DEF LockInv, HolderInv, NeverPaused, Started, Ended
<1> QED
  BY <1>2, <1>3, <1>4, <1>5 DEF LockInv

\* acquireAgentRunLock, the row write and the bind, drop or release keep the invariant.
LEMMA CallerStepKeepsLockInv ==
    ASSUME Undisturbed, TypeOK, TypeOK', LockInv, NEW p \in Procs, CallerStep(p)
    PROVE  LockInv'
<1> USE StoreAssumption
<1>1. CASE InsertLock(p)
  <2>1. lock[Conv(p)] # Unbound /\ \A r \in Runs : lock[Conv(p)] # r
    BY <1>1 DEF InsertLock
  <2> QED
    BY <1>1, <2>1, TakeLockKeepsLockInv DEF InsertLock
<1>2. CASE ReadLock(p)
  <2>1. lock[Conv(p)] # Unbound => lock[Conv(p)] \in Runs /\ Started(lock[Conv(p)])
    BY <1>2 DEF ReadLock, LockInv, HolderInv, TypeOK, Conv
  <2>2. lock[Conv(p)] = Unbound => ~aged[Conv(p)]
    BY <1>2 DEF LockInv, NoOrphanInv, TypeOK, Conv
  <2>3. \A q \in Procs : QuietCaller(q)
    BY <1>2, <2>1, <2>2 DEF ReadLock, Goto, TypeOK, QuietCaller, HoldsUnbound, Started, Ended
  <2> QED
    BY <1>2, <2>3, QuietStep DEF ReadLock, QuietRow
<1>3. CASE ReadHolder(p)
  <2>1. ~Table!Active(seen[p]) => seen[p] \in Runs /\ Ended(seen[p])
    BY <1>3 DEF ReadHolder, LockInv, HolderInv, Started, Ended, TypeOK, Table!Active, Table!Status
  <2>2. \/ pc' = [pc EXCEPT ![p] = "idle"]
        \/ pc' = [pc EXCEPT ![p] = "reclaim"] /\ ~Table!Active(seen[p])
    BY <1>3 DEF ReadHolder, Goto, Undisturbed
  <2>3. \A q \in Procs : QuietCaller(q)
    BY <1>3, <2>1, <2>2 DEF ReadHolder, TypeOK, QuietCaller, HoldsUnbound, Started, Ended
  <2> QED
    BY <1>3, <2>3, QuietStep DEF ReadHolder, QuietRow
<1>4. CASE ReclaimLock(p)
  <2>1. seen[p] \in Runs /\ Ended(seen[p]) /\ lock[Conv(p)] = seen[p]
    BY <1>4 DEF ReclaimLock, LockInv, HolderInv
  <2>2. \A r \in Runs : Table!Active(r) => lock[Conv(p)] # r
    BY <2>1 DEF Ended, Table!Active, Table!ACTIVE_STATUSES, Table!TerminalStatuses
  <2>3. lock[Conv(p)] # Unbound
    BY <2>1
  <2> QED
    BY <1>4, <2>2, <2>3, TakeLockKeepsLockInv DEF ReclaimLock
<1>5. CASE LoseReclaim(p)
  <2>1. \A q \in Procs : QuietCaller(q)
    BY <1>5 DEF LoseReclaim, Goto, TypeOK, QuietCaller, HoldsUnbound, Started, Ended
  <2> QED
    BY <1>5, <2>1, QuietStep DEF LoseReclaim, QuietRow
<1>6. CASE WriteRow(p)
  BY <1>6, WriteRowKeepsLockInv
<1>7. CASE WriteRowFails(p)
  <2>1. \A q \in Runs : ConvOf[q] = ConvOf[run[p]] => ~Table!Active(q)
    BY <1>7, OwnerSeesFreeSlot DEF WriteRowFails, Conv
  <2>2. Table!SlotFree(run[p])
    BY <2>1 DEF Table!SlotFree
  <2>3. pc' = [pc EXCEPT ![p] = "drop"]
    BY <1>7, <2>2 DEF WriteRowFails, Goto, Undisturbed
  <2>4. \A q \in Procs : QuietCaller(q)
    BY <1>7, <2>3 DEF WriteRowFails, TypeOK, QuietCaller, HoldsUnbound, Started, Ended
  <2> QED
    BY <1>7, <2>4, QuietStep DEF WriteRowFails, QuietRow
<1>8. CASE DropLock(p)
  BY <1>8, DropLockKeepsLockInv
<1>9. CASE BindLock(p)
  BY <1>9, BindLockKeepsLockInv
<1>10. CASE BindFails(p)
  BY <1>10 DEF BindFails, Undisturbed
<1>11. CASE ReleaseLock(p)
  BY <1>11, ReleaseLockKeepsLockInv
<1> QED
  BY <1>1, <1>2, <1>3, <1>4, <1>5, <1>6, <1>7, <1>8, <1>9, <1>10, <1>11 DEF CallerStep

\* Starting an operation, and ending a run by its row, keep the invariant.
LEMMA CallerBeginsKeepsLockInv ==
    ASSUME Undisturbed, TypeOK, TypeOK', LockInv, NEW p \in Procs, NEW r \in Runs,
           CallerBegins(p, r)
    PROVE  LockInv'
<1>1. ASSUME NEW o, Enter(p, o, r, "acquire"), UNCHANGED <<row, lock, aged, seen>>
      PROVE  LockInv'
  <2>1. \A q \in Procs : QuietCaller(q)
    BY <1>1 DEF Enter, Goto, TypeOK, QuietCaller, HoldsUnbound, Started, Ended
  <2> QED
    BY <1>1, <2>1, QuietStep DEF QuietRow
<1>2. ASSUME NEW statuses, NEW s \in Table!TerminalStatuses \cup {"deleted"},
             End(p, r, statuses, s)
      PROVE  LockInv'
  <2>1. row' = [row EXCEPT ![r] = s] /\ row \in [Runs -> Table!Status]
    BY <1>2 DEF End, Table!Set, TypeOK
  <2>2. \A q \in Runs : QuietRow(q)
    BY <2>1 DEF QuietRow
  <2>3. \A q \in Procs : QuietCaller(q)
    BY <1>2, <2>1 DEF End, Enter, Goto, TypeOK, QuietCaller, HoldsUnbound, Started, Ended
  <2> QED
    BY <1>2, <2>2, <2>3, QuietStep DEF End
<1>3. CASE CreateActiveRun(p, r)
  BY <1>3, <1>1 DEF CreateActiveRun
<1>4. CASE BeginPromote(p, r)
  BY <1>4, <1>1 DEF BeginPromote
<1>5. CASE BeginResume(p, r)
  BY <1>5, <1>1 DEF BeginResume
<1>6. CASE FinalizeRun(p, r)
  BY <1>6, <1>2 DEF FinalizeRun, Undisturbed
<1>7. CASE CancelRun(p, r)
  <2>1. "canceled" \in Table!TerminalStatuses
    BY DEF Table!TerminalStatuses
  <2> QED
    BY <1>7, <1>2, <2>1 DEF CancelRun
<1>8. CASE ExpireRun(p, r)
  <2>1. "failed" \in Table!TerminalStatuses
    BY DEF Table!TerminalStatuses
  <2> QED
    BY <1>8, <1>2, <2>1 DEF ExpireRun
<1>9. CASE DeleteRun(p, r)
  BY <1>9, <1>2 DEF DeleteRun
<1> QED
  BY <1>3, <1>4, <1>5, <1>6, <1>7, <1>8, <1>9 DEF CallerBegins

\* Every step keeps the invariant.
LEMMA LockInvInductive ==
    ASSUME Undisturbed, TypeOK, TypeOK', LockInv, [Next]_vars
    PROVE  LockInv'
<1>1. ASSUME NEW p \in Procs, CallerStep(p) PROVE LockInv'
  BY <1>1, CallerStepKeepsLockInv
<1>2. ASSUME NEW p \in Procs, CallerDies(p) PROVE LockInv'
  BY <1>2 DEF CallerDies, Undisturbed
<1>3. ASSUME NEW p \in Procs, NEW r \in Runs, CallerBegins(p, r) PROVE LockInv'
  BY <1>3, CallerBeginsKeepsLockInv
<1>4. ASSUME UNCHANGED <<lock, aged, pc, run, seen>>, \A q \in Runs : QuietRow(q)
      PROVE  LockInv'
  <2>1. \A q \in Procs : QuietCaller(q)
    BY <1>4 DEF QuietCaller, LockInv, HolderInv
  <2> QED
    BY <1>4, <2>1, QuietStep
<1>5. ASSUME NEW r \in Runs, CreateScheduledRun(r) PROVE LockInv'
  BY <1>5, <1>4 DEF CreateScheduledRun, Table!Set, QuietRow, TypeOK
<1>6. ASSUME NEW r \in Runs, ClaimRun(r) PROVE LockInv'
  BY <1>6, <1>4 DEF ClaimRun, Table!ClaimAgentRun, Table!Set, QuietRow, TypeOK
<1>7. ASSUME NEW r \in Runs, RetainedRowDeleted(r) PROVE LockInv'
  BY <1>7, <1>4 DEF RetainedRowDeleted, Table!Set, QuietRow, TypeOK
<1>8. ASSUME NEW c \in Convs, GraceElapses(c) PROVE LockInv'
  BY <1>8 DEF GraceElapses, LockInv, NoOrphanInv
<1>9. CASE UNCHANGED vars
  BY <1>9, <1>4 DEF vars, QuietRow
<1> QED
  BY <1>1, <1>2, <1>3, <1>5, <1>6, <1>7, <1>8, <1>9 DEF Next

\* The invariant holds of every reachable state of an undisturbed store.
THEOREM LockInvariant == Spec => [](Undisturbed => LockInv)
<1>1. Init => LockInv
  <2> SUFFICES ASSUME Init PROVE LockInv
    OBVIOUS
  <2>1. OwnerInv /\ NoOrphanInv
    BY StoreAssumption DEF Init, OwnerInv, NoOrphanInv, HoldsUnbound
  <2>2. SlotInv /\ HolderInv /\ NeverPaused
    BY StoreAssumption
       DEF Init, SlotInv, HolderInv, NeverPaused, Table!Init, Table!Active, Table!ACTIVE_STATUSES
  <2> QED
    BY <2>1, <2>2 DEF LockInv
<1>2. TypeOK /\ TypeOK' /\ (Undisturbed => LockInv) /\ [Next]_vars => (Undisturbed => LockInv)'
  BY LockInvInductive DEF Undisturbed
<1> QED
  BY <1>1, <1>2, TypeCorrect, PTL DEF Spec

\* The lock documents are enough for the one-active-run guarantee of createAgentRun,
\* promoteScheduledAgentRun and requeueAgentRunForResume, with or without the index,
\* as long as no turn pauses and no database call fails.
THEOREM LocksGiveOneActiveRun == Spec => [](Undisturbed => OneActiveRunPerConversation)
<1>1. TypeOK /\ LockInv => OneActiveRunPerConversation
  <2> SUFFICES ASSUME TypeOK, LockInv, NEW r \in Runs, NEW q \in Runs,
                      Table!Active(r), Table!Active(q), ConvOf[r] = ConvOf[q]
               PROVE  r = q
    BY DEF OneActiveRunPerConversation
  <2>1. ASSUME NEW p \in Procs, pc[p] = "bind"
        PROVE  lock[ConvOf[run[p]]] = Unbound
    BY <2>1 DEF LockInv, OwnerInv, HoldsUnbound, Conv
  <2>2. ASSUME NEW p \in Procs, NEW o \in Procs, pc[p] = "bind", pc[o] = "bind",
               ConvOf[run[p]] = ConvOf[run[o]]
        PROVE  run[p] = run[o]
    BY <2>2 DEF LockInv, OwnerInv, HoldsUnbound, Conv
  <2> QED
    BY <2>1, <2>2, StoreAssumption DEF LockInv, SlotInv
<1>2. TypeOK /\ (Undisturbed => LockInv) => (Undisturbed => OneActiveRunPerConversation)
  BY <1>1
<1> QED
  BY <1>2, TypeCorrect, LockInvariant, PTL

\* By the lock documents alone, the run a conversation counts as active is the one its lock
\* names, or its writer is about to bind it (ReleaseLock, ReclaimLock and DropLock never take
\* the lock of an active run).
THEOREM ActiveRunsHoldSlots == Spec => [](Undisturbed => ActiveRunHoldsSlot)
<1>1. LockInv => ActiveRunHoldsSlot
  BY StoreAssumption DEF LockInv, OwnerInv, HoldsUnbound, Conv, SlotInv, ActiveRunHoldsSlot
<1>2. (Undisturbed => LockInv) => (Undisturbed => ActiveRunHoldsSlot)
  BY <1>1
<1> QED
  BY <1>2, LockInvariant, PTL

-----------------------------------------------------------------------------
(***************************************************************************)
(* The contract                                                            *)
(***************************************************************************)

\* The steps at which a row becomes active find the slot free: by the index, or by
\* the lock of an undisturbed store.
Guarded == PartialIndex \/ Undisturbed

\* Every database call changes the rows by one operation of RunTable, or not at all.
LEMMA StepImplementsTable ==
    ASSUME Guarded, TypeOK, Undisturbed => LockInv, [Next]_vars
    PROVE  [Table!Next]_row
<1> USE DEF Table!Set
<1>1. ASSUME NEW p \in Procs, WriteRow(p) PROVE Table!Next
  <2>1. run[p] \in Runs
    BY DEF TypeOK
  <2>2. Table!SlotFree(run[p])
    <3>1. CASE PartialIndex
      BY <1>1, <3>1 DEF WriteRow
    <3>2. CASE Undisturbed
      <4>1. \A q \in Runs : ConvOf[q] = ConvOf[run[p]] => ~Table!Active(q)
        BY <1>1, <3>2, OwnerSeesFreeSlot DEF WriteRow, Conv
      <4> QED
        BY <4>1 DEF Table!SlotFree
    <3> QED
      BY <3>1, <3>2 DEF Guarded
  <2>3. CASE Creating(p) /\ row[run[p]] = "absent"
    <3>1. Table!CreateAgentRun(run[p])
      BY <1>1, <2>2, <2>3 DEF WriteRow, Table!CreateAgentRun, Table!ACTIVE_STATUSES
    <3> QED
      BY <2>1, <3>1 DEF Table!Next
  <2>4. CASE op[p] = "promote" /\ row[run[p]] = "scheduled"
    <3>1. Table!PromoteScheduledAgentRun(run[p])
      BY <1>1, <2>2, <2>4 DEF WriteRow, Table!PromoteScheduledAgentRun
    <3> QED
      BY <2>1, <3>1 DEF Table!Next
  <2>5. CASE op[p] = "resume" /\ row[run[p]] = "requires_action"
    <3>1. Table!RequeueAgentRunForResume(run[p])
      BY <1>1, <2>2, <2>5 DEF WriteRow, Table!RequeueAgentRunForResume
    <3> QED
      BY <2>1, <3>1 DEF Table!Next
  <2> QED
    BY <1>1, <2>3, <2>4, <2>5 DEF WriteRow, RowMatches
<1>2. ASSUME NEW p \in Procs, CallerStep(p), ~WriteRow(p) PROVE UNCHANGED row
  BY <1>2 DEF CallerStep, InsertLock, ReadLock, ReadHolder, ReclaimLock, LoseReclaim,
              WriteRowFails, DropLock, BindLock, BindFails, ReleaseLock
<1>3. ASSUME NEW p \in Procs, CallerDies(p) PROVE UNCHANGED row
  BY <1>3 DEF CallerDies
<1>4. ASSUME NEW p \in Procs, NEW r \in Runs, CallerBegins(p, r) PROVE [Table!Next]_row
  <2>1. CASE CreateActiveRun(p, r) \/ BeginPromote(p, r) \/ BeginResume(p, r)
    BY <2>1 DEF CreateActiveRun, BeginPromote, BeginResume
  <2>2. CASE FinalizeRun(p, r)
    <3>1. Table!FinalizeAgentRun(r)
      BY <2>2 DEF FinalizeRun, End, Table!FinalizeAgentRun
    <3> QED
      BY <3>1 DEF Table!Next
  <2>3. CASE CancelRun(p, r)
    <3>1. Table!RequestAgentRunCancel(r)
      BY <2>3 DEF CancelRun, End, Table!RequestAgentRunCancel
    <3> QED
      BY <3>1 DEF Table!Next
  <2>4. CASE ExpireRun(p, r)
    <3>1. Table!ExpireWaitingAgentRun(r)
      BY <2>4 DEF ExpireRun, End, Table!ExpireWaitingAgentRun
    <3> QED
      BY <3>1 DEF Table!Next
  <2>5. CASE DeleteRun(p, r)
    <3>1. Table!DeleteAgentRun(r)
      BY <2>5 DEF DeleteRun, End, Table!DeleteAgentRun
    <3> QED
      BY <3>1 DEF Table!Next
  <2> QED
    BY <1>4, <2>1, <2>2, <2>3, <2>4, <2>5 DEF CallerBegins
<1>5. ASSUME NEW r \in Runs, CreateScheduledRun(r) PROVE Table!Next
  <2>1. Table!CreateAgentRun(r)
    BY <1>5 DEF CreateScheduledRun, Table!CreateAgentRun, Table!ACTIVE_STATUSES
  <2> QED
    BY <2>1 DEF Table!Next
<1>6. ASSUME NEW r \in Runs, ClaimRun(r) PROVE Table!Next
  BY <1>6 DEF ClaimRun, Table!Next
<1>7. ASSUME NEW r \in Runs, RetainedRowDeleted(r) PROVE Table!Next
  <2>1. Table!DeleteAgentRun(r)
    BY <1>7 DEF RetainedRowDeleted, Table!DeleteAgentRun, Table!TerminalStatuses
  <2> QED
    BY <2>1 DEF Table!Next
<1>8. ASSUME NEW c \in Convs, GraceElapses(c) PROVE UNCHANGED row
  BY <1>8 DEF GraceElapses
<1>9. CASE UNCHANGED vars
  BY <1>9 DEF vars
<1> QED
  BY <1>1, <1>2, <1>3, <1>4, <1>5, <1>6, <1>7, <1>8, <1>9 DEF Next

\* The MongoDB protocol implements the contract the SQLite provider meets statement
\* by statement, with the partial index or undisturbed.
THEOREM StoreImplementsRunTable ==
    ASSUME Guarded
    PROVE  Spec => ImplementsRunTable
<1>1. Init => Table!Init
  BY DEF Init
<1>2. TypeOK /\ (Undisturbed => LockInv) /\ [Next]_vars => [Table!Next]_row
  BY StepImplementsTable
<1> QED
  BY <1>1, <1>2, TypeCorrect, LockInvariant, PTL DEF Spec, ImplementsRunTable, Table!Spec

\* The contract, and so both providers, keep a conversation down to one active run,
\* through pauses, failed calls and dead callers.
THEOREM OneActiveRun ==
    ASSUME Guarded
    PROVE  Spec => []OneActiveRunPerConversation
<1>1. Init => OneActiveRunPerConversation
  BY DEF Init, OneActiveRunPerConversation, Table!Init, Table!Active, Table!ACTIVE_STATUSES
<1>2. TypeOK /\ OneActiveRunPerConversation /\ [Table!Next]_row => OneActiveRunPerConversation'
  <2> SUFFICES ASSUME TypeOK, OneActiveRunPerConversation, [Table!Next]_row
               PROVE  OneActiveRunPerConversation'
    OBVIOUS
  <2> USE DEF OneActiveRunPerConversation, Table!Active, TypeOK
  <2>1. ASSUME NEW r \in Runs, NEW s, Table!Set(r, s),
               s \in Table!ACTIVE_STATUSES => (Table!Active(r) \/ Table!SlotFree(r))
        PROVE  OneActiveRunPerConversation'
    BY <2>1 DEF Table!Set, Table!SlotFree
  <2>2. CASE Table!Next
    <3>1. PICK r \in Runs :
              \/ Table!CreateAgentRun(r) \/ Table!ClaimAgentRun(r) \/ Table!RequestAgentRunCancel(r)
              \/ Table!FinalizeAgentRun(r) \/ Table!RequeueAgentRunForResume(r)
              \/ Table!PromoteScheduledAgentRun(r) \/ Table!ExpireWaitingAgentRun(r)
              \/ Table!DeleteAgentRun(r)
      BY <2>2 DEF Table!Next
    <3>2. \E s : /\ Table!Set(r, s)
                 /\ s \in Table!ACTIVE_STATUSES => (Table!Active(r) \/ Table!SlotFree(r))
      BY <3>1 DEF Table!CreateAgentRun, Table!ClaimAgentRun, Table!RequestAgentRunCancel,
                  Table!FinalizeAgentRun, Table!RequeueAgentRunForResume,
                  Table!PromoteScheduledAgentRun, Table!ExpireWaitingAgentRun,
                  Table!DeleteAgentRun, Table!ACTIVE_STATUSES, Table!TerminalStatuses
    <3> QED
      BY <3>2, <2>1
  <2> QED
    BY <2>2
<1> QED
  BY <1>1, <1>2, TypeCorrect, StoreImplementsRunTable, PTL
     DEF Spec, ImplementsRunTable, Table!Spec

=============================================================================
