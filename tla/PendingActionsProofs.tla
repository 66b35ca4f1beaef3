------------------------ MODULE PendingActionsProofs ------------------------
(***************************************************************************)
(* Proofs about module PendingActions, for every number of people who      *)
(* answer, sweeps, messages, cancels, pauses and runs.                     *)
(***************************************************************************)
EXTENDS PendingActions, TLAPS

USE NamesAssumption

Own == {First} \cup Extra          \* the background runs
Reserved == Inline \cup Messages   \* the rows that only hold the slot
Busy(r) == turn[r].at \in {"load", "invoke"}

\* Who answers, and the sweep, know the action they are about; the runs that somebody has
\* read as paused are no reservations.
ActorKnows ==
    /\ \A p \in Answerers \cup Sweepers : me[p].pc \notin {"idle", "done"} => me[p].cur \in Actions
    /\ \A p \in Actors : me[p].runs \cap Reserved = {}

\* Requests are raised by background runs, or by nobody's run.
RaisedByOwn == \A a \in Actions : raisedBy[a] \in Own \cup {None}

\* A reservation is made, held and deleted, and nothing else.
ReservedRows == \A r \in Reserved : row[r] \in {"absent", "running", "deleted"}

\* The turn of an inline continuation, and of a message, runs inside its request.
TurnInRequest == \A r \in Reserved : Busy(r) => me[r].pc = "turn"

TypeInv == TypeOK /\ ActorKnows /\ RaisedByOwn /\ ReservedRows /\ TurnInRequest

USE DEF Answerers, Actors, Runs, Own, Reserved, Busy, session, mishaps, Overtaken, Unsaved

LEMMA AtType ==
    /\ \A l \in {"idle", "reserve", "look", "record", "cancel", "done"} : At(l) \in Actor
    /\ \A l \in {"idle", "done"} : At(l).pc = l /\ At(l).runs = {}
BY DEF At, Actor

LEMMA InitTypeInv == Init => TypeInv
<1> SUFFICES ASSUME Init PROVE TypeInv OBVIOUS
<1>1. me \in [Actors -> Actor] /\ \A p \in Actors : me[p].pc = "idle" /\ me[p].runs = {}
  BY AtType DEF Init
<1>2. turn \in [Runs -> Turn] /\ \A r \in Runs : turn[r].at = "none" BY DEF Init, NoTurn, Turn
<1>3. row \in [Runs -> Table!Status] /\ act \in [Actions -> ActionStatus]
  BY DEF Init, ActionStatus, Table!Status
<1>4. paused \in 0..Len(Pauses) BY FreshRequests DEF Init
<1>5. TypeOK BY <1>1, <1>2, <1>3, <1>4 DEF Init, TypeOK
<1> QED BY <1>1, <1>2, <1>5 DEF Init, TypeInv, ActorKnows, RaisedByOwn, ReservedRows, TurnInRequest

-----------------------------------------------------------------------------
(***************************************************************************)
(* Steps of a turn                                                         *)
(***************************************************************************)

Lapses == {"unqueued", "lost", "unended", "overtaken", "unsaved", "unmarked"}

LEMMA FailsType == TypeInv /\ Fails => faults' \in 0..MaxFaults
BY DEF TypeInv, TypeOK, Fails

\* Where the turn of run r may go without a request's help.
LEMMA StepType ==
    ASSUME TypeInv, NEW r \in Runs,
           NEW l \in {"none", "load", "invoke", "completed", "paused", "aborted", "refused",
                      "failed", "reset"},
           Step(r, l) \/ Ends(r, l)
    PROVE  /\ turn' \in [Runs -> Turn] /\ turn'[r].at = l
           /\ \A k \in Runs : k # r => turn'[k] = turn[k]
<1>1. turn \in [Runs -> Turn] /\ turn[r] \in Turn BY DEF TypeInv, TypeOK
<1>2. [turn[r] EXCEPT !.at = l] \in Turn /\ [turn[r] EXCEPT !.at = l].at = l BY <1>1 DEF Turn
<1>3. [NoTurn EXCEPT !.at = l] \in Turn /\ [NoTurn EXCEPT !.at = l].at = l BY DEF Turn, NoTurn
<1>4. turn' = [turn EXCEPT ![r] = [turn[r] EXCEPT !.at = l]]
        \/ turn' = [turn EXCEPT ![r] = [NoTurn EXCEPT !.at = l]]
  BY DEF Step, Ends
<1> QED BY <1>1, <1>2, <1>3, <1>4

LEMMA RunOfType ==
    ASSUME TypeInv, NEW r \in Runs, turn[r].at = "invoke"
    PROVE  RunOf(r) \in Own \cup {None}
<1>1. CASE r \in Inline
  <2>1. me[r].cur \in Actions BY <1>1 DEF TypeInv, TurnInRequest, ActorKnows
  <2> QED BY <1>1, <2>1 DEF RunOf, TypeInv, RaisedByOwn
<1>2. CASE r \notin Inline BY <1>2 DEF RunOf
<1> QED BY <1>1, <1>2

\* However far the calls that store a turn get, what they write has its type.
LEMMA StoresType ==
    ASSUME TypeInv, NEW r \in Runs, NEW asked \in SUBSET Actions, NEW last, StoresUpTo(r, asked, last)
    PROVE  /\ act' \in [Actions -> ActionStatus] /\ raisedBy' \in [Actions -> Runs \cup {None}]
           /\ RaisedByOwn' /\ paused' \in 0..Len(Pauses)
           /\ msgs' \in Nat /\ snapshot' \subseteq Actions /\ spent' \subseteq Actions
<1> USE DEF TypeInv, TypeOK
<1>1. turn[r] \in Turn /\ turn[r].at = "invoke" BY DEF StoresUpTo
<1>2. RunOf(r) \in Own \cup {None} BY <1>1, RunOfType
<1>3. /\ act' \in [Actions -> ActionStatus] /\ raisedBy' \in [Actions -> Runs \cup {None}]
      /\ RaisedByOwn'
  BY <1>2 DEF StoresUpTo, OpenPause, ActionStatus, RaisedByOwn
<1>4. Len(Pauses) \in Nat BY FreshRequests
<1>5. paused' \in 0..Len(Pauses) BY <1>4 DEF StoresUpTo, OpenPause, MayAsk
<1>6. msgs' \in Nat /\ snapshot' \subseteq Actions /\ spent' \subseteq Actions
  BY <1>1 DEF StoresUpTo, AppendMessages, SaveState, Turn
<1> QED BY <1>3, <1>5, <1>6

\* The actions of a background run's worker and of every turn keep the types.
LEMMA TurnTypeInv ==
    ASSUME TypeInv, NEW r \in Runs,
           StartFirstTurn \/ ClaimRun(r) \/ TurnStep(r) \/ FinalizeRun(r) \/ ResetRuntime(r) \/ LoseWorker(r)
    PROVE  TypeInv'
<1> USE DEF TypeInv, TypeOK, ActorKnows, RaisedByOwn, ReservedRows, TurnInRequest
<1>1. CASE StartFirstTurn
  <2>1. turn' \in [Runs -> Turn] /\ \A k \in Runs : k # First => turn'[k] = turn[k]
    BY <1>1, StepType DEF StartFirstTurn
  <2>2. row' \in [Runs -> Table!Status] /\ \A k \in Reserved : row'[k] = row[k]
    BY <1>1 DEF StartFirstTurn, Table!Set, Table!Status, Table!ACTIVE_STATUSES
  <2> QED BY <1>1, <2>1, <2>2 DEF StartFirstTurn, pauseVars
<1>2. CASE ClaimRun(r)
  <2>1. turn' \in [Runs -> Turn] /\ \A k \in Runs : k # r => turn'[k] = turn[k]
    BY <1>2, StepType DEF ClaimRun
  <2>2. r \notin Reserved BY <1>2 DEF ClaimRun, Table!ClaimAgentRun
  <2> QED BY <1>2, <2>1, <2>2 DEF ClaimRun, Table!ClaimAgentRun, Table!Set, Table!Status,
                                  Table!ACTIVE_STATUSES, pauseVars
<1>3. CASE LoadFindsNothing(r)
  <2>1. turn' \in [Runs -> Turn] /\ turn'[r].at = "failed" /\ \A k \in Runs : k # r => turn'[k] = turn[k]
    BY <1>3, StepType DEF LoadFindsNothing
  <2> QED BY <1>3, <2>1 DEF LoadFindsNothing, pauseVars
<1>4. CASE LoadRefuses(r)
  <2>1. turn' \in [Runs -> Turn] /\ turn'[r].at = "refused" /\ \A k \in Runs : k # r => turn'[k] = turn[k]
    BY <1>4, StepType DEF LoadRefuses
  <2>2. /\ runtime' \in {"idle", "running", "requires_action"} /\ owner' \in Runs \cup {None}
        /\ faults' \in 0..MaxFaults
    BY <1>4, FailsType DEF LoadRefuses
  <2> QED BY <1>4, <2>1, <2>2 DEF LoadRefuses, pauseVars
<1>5. CASE Load(r)
  <2>1. [at |-> "invoke", using |-> snapshot, base |-> msgs] \in Turn BY DEF Turn
  <2>2. turn' \in [Runs -> Turn] /\ \A k \in Runs : k # r => turn'[k] = turn[k]
    BY <1>5, <2>1 DEF Load
  <2>3. Busy(r) BY <1>5 DEF Load
  <2> QED BY <1>5, <2>2, <2>3 DEF Load, pauseVars
<1>6. CASE StoreTurn(r)
  <2>1. PICK asked \in SUBSET Actions :
          /\ \E last \in Calls : StoresUpTo(r, asked, last)
          /\ Ends(r, IF asked = {} THEN "completed" ELSE "paused")
    BY <1>6 DEF StoreTurn, Calls
  <2>2. turn' \in [Runs -> Turn] /\ ~Busy(r)' /\ \A k \in Runs : k # r => turn'[k] = turn[k]
    BY <2>1, StepType
  <2>3. runtime' \in {"idle", "running", "requires_action"} /\ owner' \in Runs \cup {None}
    BY <1>6 DEF StoreTurn, WriteEnd
  <2>4. faults' \in 0..MaxFaults /\ lapses' \subseteq Lapses BY <1>6, FailsType DEF StoreTurn, Lapses
  <2> QED BY <1>6, <2>1, <2>2, <2>3, <2>4, StoresType DEF StoreTurn, Lapses
<1>7. CASE FailTurn(r)
  <2>1. PICK asked \in SUBSET Actions, last \in {"none", "requests"} :
          StoresUpTo(r, asked, last) /\ \E l \in {"failed", "aborted"} : Ends(r, l)
    BY <1>7 DEF FailTurn
  <2>2. turn' \in [Runs -> Turn] /\ ~Busy(r)' /\ \A k \in Runs : k # r => turn'[k] = turn[k]
    BY <2>1, StepType
  <2>3. runtime' \in {"idle", "running", "requires_action"} /\ owner' \in Runs \cup {None}
    BY <1>7 DEF FailTurn, WriteEnd
  <2>4. faults' \in 0..MaxFaults BY <1>7, FailsType DEF FailTurn
  <2> QED BY <1>7, <2>1, <2>2, <2>3, <2>4, StoresType DEF FailTurn
<1>8. CASE Superseded(r)
  <2>1. turn' \in [Runs -> Turn] /\ turn'[r].at = "none" /\ \A k \in Runs : k # r => turn'[k] = turn[k]
    BY <1>8, StepType DEF Superseded
  <2>2. runtime' \in {"idle", "running", "requires_action"} /\ owner' \in Runs \cup {None}
    BY <1>8 DEF Superseded, WriteEnd
  <2> QED BY <1>8, <2>1, <2>2 DEF Superseded, pauseVars
<1>9. CASE FinalizeRun(r)
  <2>1. turn' \in [Runs -> Turn] /\ \A k \in Runs : k # r => turn'[k] = turn[k]
    BY <1>9, StepType DEF FinalizeRun
  <2>2. row' \in [Runs -> Table!Status] /\ \A k \in Reserved : row'[k] = row[k]
    BY <1>9 DEF FinalizeRun, Table!Set, Table!Status, Table!TerminalStatuses
  <2> QED BY <1>9, <2>1, <2>2 DEF FinalizeRun, pauseVars
<1>10. CASE ResetRuntime(r)
  <2>1. turn' \in [Runs -> Turn] /\ turn'[r].at = "none" /\ \A k \in Runs : k # r => turn'[k] = turn[k]
    BY <1>10, StepType DEF ResetRuntime
  <2> QED BY <1>10, <2>1 DEF ResetRuntime, pauseVars
<1>11. CASE LoseWorker(r)
  <2>1. turn' \in [Runs -> Turn] /\ turn'[r].at = "none" /\ \A k \in Runs : k # r => turn'[k] = turn[k]
    BY <1>11, StepType DEF LoseWorker
  <2>2. row' \in [Runs -> Table!Status] /\ \A k \in Reserved : row'[k] = row[k]
    BY <1>11 DEF LoseWorker, Table!Set, Table!Status, Table!TerminalStatuses
  <2>3. runtime' \in {"idle", "running", "requires_action"} /\ owner' \in Runs \cup {None}
    BY <1>11 DEF LoseWorker
  <2>4. faults' \in 0..MaxFaults /\ lapses' \subseteq Lapses BY <1>11, FailsType DEF LoseWorker, Lapses
  <2>5. /\ act' \in [Actions -> ActionStatus] /\ raisedBy' \in [Actions -> Runs \cup {None}]
        /\ RaisedByOwn' /\ paused' \in 0..Len(Pauses)
        /\ msgs' \in Nat /\ snapshot' \subseteq Actions /\ spent' \subseteq Actions
    <3>1. CASE \E asked \in SUBSET Actions : \E last \in Calls : StoresUpTo(r, asked, last)
      BY <3>1, StoresType
    <3>2. CASE UNCHANGED <<act, raisedBy, paused, msgs, spent, snapshot>> BY <3>2
    <3> QED BY <1>11, <3>1, <3>2 DEF LoseWorker
  <2> QED BY <1>11, <2>1, <2>2, <2>3, <2>4, <2>5 DEF LoseWorker, Lapses
<1> QED BY <1>1, <1>2, <1>3, <1>4, <1>5, <1>6, <1>7, <1>8, <1>9, <1>10, <1>11 DEF TurnStep

-----------------------------------------------------------------------------
(***************************************************************************)
(* Steps of a request, of a sweep, of a message and of a cancel            *)
(***************************************************************************)

Pcs == {"idle", "reserve", "record", "copy", "open", "find", "queue", "undo", "undoCopy",
        "turn", "settle", "reopen", "release", "cancel", "look", "mark", "each", "drop",
        "unpause", "close", "end", "invoke", "done"}

\* p's new state is an actor's, about the same action, and p does not leave its turn.
LEMMA MoveType ==
    ASSUME TypeInv, NEW p \in Actors, NEW v \in Actor, me' = [me EXCEPT ![p] = v],
           \/ v.pc \in {"idle", "done"}
           \/ v.cur = me[p].cur /\ me[p].pc \notin {"idle", "done"}
           \/ v.cur \in Actions
           \/ p \notin Answerers \cup Sweepers,
           v.runs \cap Reserved = {} \/ v.runs = me[p].runs,
           me[p].pc # "turn" \/ p \notin Reserved \/ ~Busy(p), turn' = turn
    PROVE  me' \in [Actors -> Actor] /\ ActorKnows' /\ TurnInRequest'
<1>1. me \in [Actors -> Actor] /\ turn \in [Runs -> Turn] BY DEF TypeInv, TypeOK
<1>2. me' \in [Actors -> Actor] /\ me'[p] = v /\ \A k \in Actors : k # p => me'[k] = me[k]
  BY <1>1
<1>3. ActorKnows' BY <1>2 DEF TypeInv, ActorKnows
<1>4. TurnInRequest' BY <1>2 DEF TypeInv, TurnInRequest
<1> QED BY <1>2, <1>3, <1>4

LEMMA GotoType ==
    ASSUME TypeInv, NEW p \in Actors, NEW l \in Pcs, Goto(p, l),
           me[p].pc \notin {"idle", "done"} \/ p \notin Answerers \cup Sweepers,
           me[p].pc # "turn" \/ p \notin Reserved \/ ~Busy(p), turn' = turn
    PROVE  me' \in [Actors -> Actor] /\ ActorKnows' /\ TurnInRequest'
<1> DEFINE v == [me[p] EXCEPT !.pc = l]
<1>1. me[p] \in Actor BY DEF TypeInv, TypeOK
<1>2. v \in Actor /\ v.cur = me[p].cur /\ v.runs = me[p].runs BY <1>1 DEF Actor, Pcs
<1>3. me' = [me EXCEPT ![p] = v] BY DEF Goto
<1> HIDE DEF v
<1> QED BY <1>2, <1>3, MoveType

LEMMA LeaveType ==
    ASSUME TypeInv, NEW p \in Actors, Done(p) \/ Leave(p), me[p].pc # "turn", turn' = turn
    PROVE  me' \in [Actors -> Actor] /\ ActorKnows' /\ TurnInRequest'
<1>1. PICK l \in {"idle", "done"} : me' = [me EXCEPT ![p] = At(l)] BY DEF Done, Leave
<1> QED BY <1>1, AtType, MoveType

\* updateAgentPendingAction writes a status.
LEMMA CasType ==
    ASSUME TypeInv, NEW a, NEW from, NEW to \in ActionStatus, Cas(a, from, to)
    PROVE  act' \in [Actions -> ActionStatus]
BY DEF TypeInv, TypeOK, Cas

\* A row of a background run, or of the request's own reservation, is set.
LEMMA SetType ==
    ASSUME TypeInv, NEW r, NEW l \in Table!Status, Table!Set(r, l),
           r \in Reserved => l \in {"running", "deleted"}
    PROVE  row' \in [Runs -> Table!Status] /\ ReservedRows'
BY DEF TypeInv, TypeOK, ReservedRows, Table!Set

LEMMA Statuses ==
    {"queued", "running", "succeeded", "canceled", "requires_action", "deleted"} \subseteq Table!Status
BY DEF Table!Status, Table!ACTIVE_STATUSES, Table!TerminalStatuses

\* The actions of a request that answers keep the types.
LEMMA AnswerTypeInv ==
    ASSUME TypeInv, NEW p \in Actors,
           \/ p \in Answerers /\ BeginAnswer(p)
           \/ Reserve(p) \/ RecordAnswer(p) \/ WriteCopies(p) \/ ListOpen(p) \/ FindOwner(p)
           \/ QueueResume(p) \/ UndoAnswer(p) \/ UndoCopies(p) \/ InlineTurnEnds(p)
           \/ SettleOwner(p) \/ ReopenAnswer(p) \/ Release(p) \/ CallThrows(p)
    PROVE  TypeInv'
<1> USE DEF TypeInv, TypeOK, RaisedByOwn
<1>a. me[p] \in Actor OBVIOUS
<1>1. CASE p \in Answerers /\ BeginAnswer(p)
  <2>1. PICK a \in Actions :
          me' = [me EXCEPT ![p] = [At(IF p \in Inline THEN "reserve" ELSE "record")
                                     EXCEPT !.cur = a, !.seen = msgs]]
    BY <1>1 DEF BeginAnswer, Open
  <2> DEFINE v == [At(IF p \in Inline THEN "reserve" ELSE "record") EXCEPT !.cur = a, !.seen = msgs]
  <2>2. v \in Actor /\ v.cur = a /\ v.runs = {} BY DEF At, Actor
  <2>3. me' = [me EXCEPT ![p] = v] BY <2>1
  <2>4. turn' = turn /\ me[p].pc # "turn" BY <1>1 DEF BeginAnswer
  <2> HIDE DEF v
  <2>5. me' \in [Actors -> Actor] /\ ActorKnows' /\ TurnInRequest' BY <2>2, <2>3, <2>4, MoveType
  <2> QED BY <1>1, <2>5 DEF BeginAnswer, ReservedRows, pauseVars
<1>2. CASE Reserve(p)
  <2>1. me' \in [Actors -> Actor] /\ ActorKnows' /\ TurnInRequest'
    BY <1>2, GotoType, LeaveType DEF Reserve, Pcs
  <2>2. row' \in [Runs -> Table!Status] /\ ReservedRows'
    BY <1>2, SetType, Statuses DEF Reserve, ReservedRows
  <2> QED BY <1>2, <2>1, <2>2 DEF Reserve, pauseVars
<1>3. CASE RecordAnswer(p)
  <2>1. me' \in [Actors -> Actor] /\ ActorKnows' /\ TurnInRequest'
    BY <1>3, GotoType DEF RecordAnswer, Pcs
  <2>2. act' \in [Actions -> ActionStatus] BY <1>3, CasType DEF RecordAnswer, ActionStatus
  <2> QED BY <1>3, <2>1, <2>2 DEF RecordAnswer, ReservedRows, pauseVars
<1>4. CASE WriteCopies(p)
  <2>1. me' \in [Actors -> Actor] /\ ActorKnows' /\ TurnInRequest'
    BY <1>4, GotoType DEF WriteCopies, Pcs
  <2>2. msgs' \in Nat BY <1>a, <1>4 DEF WriteCopies, Actor
  <2> QED BY <1>4, <2>1, <2>2 DEF WriteCopies, ReservedRows, pauseVars
<1>5. CASE ListOpen(p)
  <2> DEFINE l == IF Open # {} THEN "release" ELSE IF p \in Inline THEN "turn" ELSE "find"
             v == [me[p] EXCEPT !.found = OwnerPaused(p), !.pc = l]
  <2>0. l \in {"release", "turn", "find"} OBVIOUS
  <2>1. OwnerPaused(p) \in BOOLEAN BY DEF OwnerPaused
  <2>2. me' = [me EXCEPT ![p] = v] BY <1>5 DEF ListOpen
  <2>3. v \in Actor /\ v.cur = me[p].cur /\ v.runs = me[p].runs /\ v.pc = l
    <3> HIDE DEF l
    <3> QED BY <1>a, <2>0, <2>1 DEF Actor
  <2>4. me' \in [Actors -> Actor] /\ me'[p] = v /\ \A k \in Actors : k # p => me'[k] = me[k]
    BY <2>2, <2>3
  <2>5. ActorKnows' BY <1>5, <2>3, <2>4 DEF ListOpen, ActorKnows
  <2>6. CASE p \in Inline /\ Open = {}
    <3>1. turn' \in [Runs -> Turn] /\ \A k \in Runs : k # p => turn'[k] = turn[k]
      BY <1>5, <2>6, StepType DEF ListOpen
    <3>2. me'[p].pc = "turn" BY <2>3, <2>4, <2>6
    <3>3. TurnInRequest' BY <2>4, <3>1, <3>2 DEF TurnInRequest
    <3> QED BY <1>5, <2>4, <2>5, <3>1, <3>3 DEF ListOpen, ReservedRows, pauseVars
  <2>7. CASE ~(p \in Inline /\ Open = {})
    <3>1. turn' = turn BY <1>5, <2>7 DEF ListOpen
    <3>2. p \in Reserved => ~Busy(p) BY <1>5 DEF ListOpen, TurnInRequest
    <3>3. TurnInRequest' BY <2>4, <3>1, <3>2 DEF TurnInRequest
    <3> QED BY <1>5, <2>4, <2>5, <3>1, <3>3 DEF ListOpen, ReservedRows, pauseVars
  <2> QED BY <2>6, <2>7
<1>6. CASE FindOwner(p)
  <2> DEFINE v == [me[p] EXCEPT !.found = OwnerPaused(p), !.pc = "queue"]
  <2>1. OwnerPaused(p) \in BOOLEAN BY DEF OwnerPaused
  <2>2. v \in Actor /\ v.cur = me[p].cur /\ v.runs = me[p].runs BY <1>a, <2>1 DEF Actor
  <2>3. me' = [me EXCEPT ![p] = v] BY <1>6 DEF FindOwner
  <2>4. turn' = turn /\ me[p].pc = "find" BY <1>6 DEF FindOwner
  <2> HIDE DEF v
  <2>5. me' \in [Actors -> Actor] /\ ActorKnows' /\ TurnInRequest' BY <2>2, <2>3, <2>4, MoveType
  <2> QED BY <1>6, <2>5 DEF FindOwner, ReservedRows, pauseVars
<1>7. CASE QueueResume(p)
  <2>1. CASE me[p].found /\ ~OwnerPaused(p)
    <3> DEFINE v == [me[p] EXCEPT !.found = FALSE]
    <3>1. v \in Actor /\ v.cur = me[p].cur /\ v.runs = me[p].runs BY <1>a DEF Actor
    <3>2. me' = [me EXCEPT ![p] = v] /\ row' = row /\ lapses' = lapses BY <1>7, <2>1 DEF QueueResume
    <3>3. turn' = turn /\ me[p].pc = "queue" BY <1>7 DEF QueueResume
    <3> HIDE DEF v
    <3>4. me' \in [Actors -> Actor] /\ ActorKnows' /\ TurnInRequest' BY <3>1, <3>2, <3>3, MoveType
    <3> QED BY <1>7, <3>2, <3>4 DEF QueueResume, ReservedRows, pauseVars
  <2>2. CASE ~(me[p].found /\ ~OwnerPaused(p))
    <3>1. PICK r \in Runs : /\ IF me[p].found THEN r = raisedBy[me[p].cur] ELSE NewRun(r)
                            /\ Queued(p, r) \/ Conflict(p, r)
      BY <1>7, <2>2 DEF QueueResume
    <3>2. r \notin Reserved
      <4>1. CASE me[p].found
        <5>1. row[r] = "requires_action" BY <2>2, <3>1, <4>1 DEF OwnerPaused
        <5> QED BY <5>1 DEF ReservedRows
      <4>2. CASE ~me[p].found BY <3>1, <4>2 DEF NewRun
      <4> QED BY <4>1, <4>2
    <3>3. row' \in [Runs -> Table!Status] /\ ReservedRows'
      BY <3>1, <3>2, SetType, Statuses DEF Queued, Conflict, ReservedRows
    <3>4. lapses' \subseteq Lapses BY <3>1 DEF Queued, Conflict, Lapses
    <3>5. turn' = turn /\ me[p].pc = "queue" BY <1>7 DEF QueueResume
    <3>6. me' \in [Actors -> Actor] /\ ActorKnows' /\ TurnInRequest'
      BY <3>1, <3>5, GotoType, LeaveType DEF Queued, Conflict, Pcs
    <3> QED BY <1>7, <3>3, <3>4, <3>6 DEF QueueResume, pauseVars, Lapses
  <2> QED BY <2>1, <2>2
<1>8. CASE UndoAnswer(p)
  <2>1. me' \in [Actors -> Actor] /\ ActorKnows' /\ TurnInRequest'
    BY <1>8, GotoType DEF UndoAnswer, Pcs
  <2>2. act' \in [Actions -> ActionStatus] BY <1>8, CasType DEF UndoAnswer, ActionStatus
  <2> QED BY <1>8, <2>1, <2>2 DEF UndoAnswer, ReservedRows, pauseVars
<1>9. CASE UndoCopies(p)
  <2>1. me' \in [Actors -> Actor] /\ ActorKnows' /\ TurnInRequest' BY <1>9, LeaveType DEF UndoCopies
  <2>2. msgs' \in Nat BY <1>a, <1>9 DEF UndoCopies, Actor
  <2> QED BY <1>9, <2>1, <2>2 DEF UndoCopies, ReservedRows, pauseVars
<1>10. CASE InlineTurnEnds(p)
  <2> DEFINE l == CASE turn[p].at = "refused" -> "reopen" [] turn[p].at = "failed" -> "release"
                    [] OTHER -> "settle"
             t == IF turn[p].at = "refused" THEN Answered ELSE {}
             v == [me[p] EXCEPT !.pc = l, !.todo = t]
  <2>1. l \in {"reopen", "release", "settle"} OBVIOUS
  <2>2. t \subseteq Actions BY DEF Answered
  <2>3. me' = [me EXCEPT ![p] = v] BY <1>10 DEF InlineTurnEnds
  <2>4. v \in Actor /\ v.cur = me[p].cur /\ v.runs = me[p].runs
    <3> HIDE DEF l, t
    <3> QED BY <1>a, <2>1, <2>2 DEF Actor
  <2>5. turn' = turn /\ me[p].pc = "turn" /\ ~Busy(p) BY <1>10 DEF InlineTurnEnds
  <2> HIDE DEF v
  <2>6. me' \in [Actors -> Actor] /\ ActorKnows' /\ TurnInRequest' BY <2>3, <2>4, <2>5, MoveType
  <2> QED BY <1>10, <2>6 DEF InlineTurnEnds, ReservedRows, pauseVars
<1>11. CASE SettleOwner(p)
  <2>1. me' \in [Actors -> Actor] /\ ActorKnows' /\ TurnInRequest'
    BY <1>11, GotoType DEF SettleOwner, Pcs
  <2>2. row' \in [Runs -> Table!Status] /\ ReservedRows'
    <3>1. CASE row' = row BY <3>1 DEF ReservedRows
    <3>2. CASE OwnerPaused(p) /\ Table!Set(raisedBy[me[p].cur], "succeeded")
      <4>1. raisedBy[me[p].cur] \notin Reserved BY <3>2 DEF OwnerPaused, ReservedRows
      <4> QED BY <3>2, <4>1, SetType, Statuses
    <3> QED BY <1>11, <3>1, <3>2 DEF SettleOwner
  <2> QED BY <1>11, <2>1, <2>2 DEF SettleOwner, pauseVars
<1>12. CASE ReopenAnswer(p)
  <2>1. CASE me[p].todo = {} /\ Goto(p, "release") /\ UNCHANGED act
    <3>1. me' \in [Actors -> Actor] /\ ActorKnows' /\ TurnInRequest'
      BY <1>12, <2>1, GotoType DEF ReopenAnswer, Pcs
    <3> QED BY <1>12, <2>1, <3>1 DEF ReopenAnswer, ReservedRows, pauseVars
  <2>2. ASSUME NEW a \in me[p].todo, Cas(a, "resolved", "pending"),
               me' = [me EXCEPT ![p].todo = @ \ {a}]
        PROVE  TypeInv'
    <3> DEFINE v == [me[p] EXCEPT !.todo = me[p].todo \ {a}]
    <3>1. v \in Actor /\ v.cur = me[p].cur /\ v.runs = me[p].runs BY <1>a DEF Actor
    <3>2. me' = [me EXCEPT ![p] = v] BY <2>2
    <3>3. turn' = turn /\ me[p].pc = "reopen" BY <1>12 DEF ReopenAnswer
    <3> HIDE DEF v
    <3>4. me' \in [Actors -> Actor] /\ ActorKnows' /\ TurnInRequest' BY <3>1, <3>2, <3>3, MoveType
    <3>5. act' \in [Actions -> ActionStatus] BY <2>2, CasType DEF ActionStatus
    <3> QED BY <1>12, <3>4, <3>5 DEF ReopenAnswer, ReservedRows, pauseVars
  <2> QED BY <1>12, <2>1, <2>2 DEF ReopenAnswer
<1>13. CASE Release(p)
  <2>1. me' \in [Actors -> Actor] /\ ActorKnows' /\ TurnInRequest' BY <1>13, LeaveType DEF Release
  <2>2. row' \in [Runs -> Table!Status] /\ ReservedRows'
    BY <1>13, SetType, Statuses DEF Release, Table!DeleteAgentRun, ReservedRows
  <2> QED BY <1>13, <2>1, <2>2 DEF Release, pauseVars
<1>14. CASE CallThrows(p)
  <2>1. turn' = turn /\ me[p].pc \in {"copy", "open", "find", "queue", "unpause", "close"}
    BY <1>14 DEF CallThrows
  <2>2. me' \in [Actors -> Actor] /\ ActorKnows' /\ TurnInRequest'
    BY <1>14, <2>1, GotoType, LeaveType DEF CallThrows, Pcs
  <2>3. faults' \in 0..MaxFaults /\ lapses' \subseteq Lapses BY <1>14, FailsType DEF CallThrows, Lapses
  <2> QED BY <1>14, <2>2, <2>3 DEF CallThrows, ReservedRows, pauseVars, Lapses
<1> QED BY <1>1, <1>2, <1>3, <1>4, <1>5, <1>6, <1>7, <1>8, <1>9, <1>10, <1>11, <1>12, <1>13, <1>14

\* finalizeAgentRun by one who has read a run as paused
LEMMA EndRunType ==
    ASSUME TypeInv, NEW p \in Actors, NEW r \in me[p].runs, EndRun(r)
    PROVE  /\ r \in Runs \ Reserved /\ row' \in [Runs -> Table!Status] /\ ReservedRows'
           /\ lapses' \subseteq Lapses
<1>1. me[p] \in Actor /\ me[p].runs \cap Reserved = {} BY DEF TypeInv, TypeOK, ActorKnows
<1>2. r \in Runs \ Reserved BY <1>1 DEF Actor
<1>3. row' \in [Runs -> Table!Status] /\ ReservedRows'
  BY <1>2, SetType, Statuses DEF EndRun, TypeInv, TypeOK, ReservedRows
<1>4. lapses' \subseteq Lapses BY DEF EndRun, TypeInv, TypeOK, Lapses
<1> QED BY <1>2, <1>3, <1>4

\* The actions of those who end the wait without an answer keep the types.
LEMMA WithdrawTypeInv ==
    ASSUME TypeInv, NEW p \in Actors,
           \/ p \in Sweepers /\ SweepLists(p)
           \/ p \in Messages /\ BeginMessage(p)
           \/ p \in Cancelers /\ BeginCancel(p)
           \/ CancelPausedRun(p)
           \/ Look(p) \/ MarkRunning(p) \/ HandleOne(p) \/ HandledAll(p) \/ SweepListsOpen(p)
           \/ DropPausedSnapshot(p) \/ SetIdle(p) \/ ListPausedRuns(p) \/ EndListedRun(p)
           \/ EndedRuns(p) \/ BeginMessageTurn(p) \/ MessageTurnEnds(p)
    PROVE  TypeInv'
<1> USE DEF TypeInv, TypeOK, RaisedByOwn
<1>a. me[p] \in Actor OBVIOUS
<1>1. CASE p \in Sweepers /\ SweepLists(p)
  <2>1. PICK a \in Actions :
          me' = [me EXCEPT ![p] = [At("look") EXCEPT !.cur = a, !.todo = Open \cap due]]
    BY <1>1 DEF SweepLists, Open
  <2> DEFINE v == [At("look") EXCEPT !.cur = a, !.todo = Open \cap due]
  <2>2. v \in Actor /\ v.cur = a /\ v.runs = {} BY DEF At, Actor
  <2>3. me' = [me EXCEPT ![p] = v] BY <2>1
  <2>4. turn' = turn /\ me[p].pc # "turn" BY <1>1 DEF SweepLists
  <2> HIDE DEF v
  <2>5. me' \in [Actors -> Actor] /\ ActorKnows' /\ TurnInRequest' BY <2>2, <2>3, <2>4, MoveType
  <2> QED BY <1>1, <2>5 DEF SweepLists, ReservedRows, pauseVars
<1>2. CASE p \in Messages /\ BeginMessage(p)
  <2>1. me' \in [Actors -> Actor] /\ ActorKnows' /\ TurnInRequest'
    BY <1>2, GotoType DEF BeginMessage, Pcs
  <2> QED BY <1>2, <2>1 DEF BeginMessage, ReservedRows, pauseVars
<1>3. CASE p \in Cancelers /\ BeginCancel(p)
  <2>1. PICK r \in Runs :
          row[r] = "requires_action" /\ me' = [me EXCEPT ![p] = [At("cancel") EXCEPT !.runs = {r}]]
    BY <1>3 DEF BeginCancel
  <2>2. r \notin Reserved BY <2>1 DEF ReservedRows
  <2> DEFINE v == [At("cancel") EXCEPT !.runs = {r}]
  <2>3. v \in Actor /\ v.runs = {r} BY DEF At, Actor
  <2>4. me' = [me EXCEPT ![p] = v] BY <2>1
  <2>5. turn' = turn /\ me[p].pc # "turn" BY <1>3 DEF BeginCancel
  <2> HIDE DEF v
  <2>6. p \notin Answerers \cup Sweepers /\ v.runs \cap Reserved = {} BY <1>3, <2>2, <2>3
  <2>7. me' \in [Actors -> Actor] /\ ActorKnows' /\ TurnInRequest'
    BY <2>3, <2>4, <2>5, <2>6, MoveType
  <2> QED BY <1>3, <2>7 DEF BeginCancel, ReservedRows, pauseVars
<1>14. CASE CancelPausedRun(p)
  <2>1. turn' = turn /\ me[p].pc = "cancel" BY <1>14 DEF CancelPausedRun
  <2>2. me' \in [Actors -> Actor] /\ ActorKnows' /\ TurnInRequest'
    BY <1>14, <2>1, GotoType, LeaveType DEF CancelPausedRun, Pcs
  <2>3. row' \in [Runs -> Table!Status] /\ ReservedRows' /\ lapses' \subseteq Lapses
    BY <1>14, EndRunType DEF CancelPausedRun, ReservedRows, Lapses
  <2>4. faults' \in 0..MaxFaults BY <1>14, FailsType DEF CancelPausedRun
  <2> QED BY <1>14, <2>2, <2>3, <2>4 DEF CancelPausedRun, pauseVars, Lapses
<1>4. CASE Look(p)
  <2> DEFINE waiting == runtime = "requires_action"
             refused == waiting /\ OnMessage = "reject" /\ Open # {}
             t == IF p \in Sweepers THEN me[p].todo ELSE IF waiting THEN Open ELSE {}
             l == CASE p \in Sweepers -> "each"
                    [] p \in Cancelers -> IF waiting THEN "each" ELSE "done"
                    [] OTHER -> IF refused THEN "release" ELSE "mark"
             v == [me[p] EXCEPT !.seen = msgs, !.found = waiting, !.todo = t, !.pc = l]
  <2>1. l \in {"each", "done", "release", "mark"} OBVIOUS
  <2>2. t \subseteq Actions BY <1>a DEF Open, Actor
  <2>3. me' = [me EXCEPT ![p] = v] BY <1>4 DEF Look
  <2>4. waiting \in BOOLEAN OBVIOUS
  <2>5. v \in Actor /\ v.cur = me[p].cur /\ v.runs = me[p].runs
    <3> HIDE DEF l, t, waiting
    <3> QED BY <1>a, <2>1, <2>2, <2>4 DEF Actor
  <2>6. turn' = turn /\ me[p].pc = "look" BY <1>4 DEF Look
  <2> HIDE DEF v
  <2>7. me' \in [Actors -> Actor] /\ ActorKnows' /\ TurnInRequest' BY <2>3, <2>5, <2>6, MoveType
  <2> QED BY <1>4, <2>7 DEF Look, ReservedRows, pauseVars
<1>5. CASE MarkRunning(p)
  <2>1. me' \in [Actors -> Actor] /\ ActorKnows' /\ TurnInRequest'
    BY <1>5, GotoType DEF MarkRunning, Pcs
  <2> QED BY <1>5, <2>1 DEF MarkRunning, ReservedRows, pauseVars
<1>6. CASE HandleOne(p)
  <2>1. PICK a \in me[p].todo :
          /\ Cas(a, "pending", Verdict(p, a))
          /\ me' = [me EXCEPT
               ![p].todo = @ \ {a},
               ![p].hit = IF act[a] # "pending" \/ @ = "resolved" THEN @
                          ELSE IF Verdict(p, a) = "resolved" THEN "resolved" ELSE "closed"]
    BY <1>6 DEF HandleOne
  <2>2. Verdict(p, a) \in ActionStatus BY DEF Verdict, ActionStatus
  <2>3. act' \in [Actions -> ActionStatus] BY <2>1, <2>2, CasType
  <2> DEFINE h == IF act[a] # "pending" \/ me[p].hit = "resolved" THEN me[p].hit
                  ELSE IF Verdict(p, a) = "resolved" THEN "resolved" ELSE "closed"
             v == [me[p] EXCEPT !.todo = me[p].todo \ {a}, !.hit = h]
  <2>4. h \in {"none", "closed", "resolved"} BY <1>a DEF Actor
  <2>5. me' = [me EXCEPT ![p] = v] BY <2>1
  <2>6. v \in Actor /\ v.cur = me[p].cur /\ v.runs = me[p].runs
    <3> HIDE DEF h
    <3> QED BY <1>a, <2>4 DEF Actor
  <2>7. turn' = turn /\ me[p].pc = "each" BY <1>6 DEF HandleOne
  <2> HIDE DEF v
  <2>8. me' \in [Actors -> Actor] /\ ActorKnows' /\ TurnInRequest' BY <2>5, <2>6, <2>7, MoveType
  <2> QED BY <1>6, <2>3, <2>8 DEF HandleOne, ReservedRows, pauseVars
<1>7. CASE HandledAll(p)
  <2>1. me' \in [Actors -> Actor] /\ ActorKnows' /\ TurnInRequest'
    BY <1>7, GotoType, LeaveType DEF HandledAll, Pcs
  <2> QED BY <1>7, <2>1 DEF HandledAll, ReservedRows, pauseVars
<1>8. CASE SweepListsOpen(p)
  <2>1. me' \in [Actors -> Actor] /\ ActorKnows' /\ TurnInRequest'
    BY <1>8, GotoType, LeaveType DEF SweepListsOpen, Pcs
  <2> QED BY <1>8, <2>1 DEF SweepListsOpen, ReservedRows, pauseVars
<1>9. CASE DropPausedSnapshot(p)
  <2>1. me' \in [Actors -> Actor] /\ ActorKnows' /\ TurnInRequest'
    BY <1>9, GotoType DEF DropPausedSnapshot, Pcs
  <2>2. faults' \in 0..MaxFaults BY <1>9, FailsType DEF DropPausedSnapshot
  <2> QED BY <1>9, <2>1, <2>2 DEF DropPausedSnapshot, ReservedRows
<1>10. CASE SetIdle(p)
  <2>1. me' \in [Actors -> Actor] /\ ActorKnows' /\ TurnInRequest'
    BY <1>10, GotoType, LeaveType DEF SetIdle, Pcs
  <2> QED BY <1>10, <2>1 DEF SetIdle, ReservedRows, pauseVars
<1>11. CASE ListPausedRuns(p)
  <2> DEFINE w == {r \in Runs : row[r] = "requires_action"}
             v == [me[p] EXCEPT !.runs = w, !.pc = "end"]
  <2>1. w \subseteq Runs /\ w \cap Reserved = {} BY DEF ReservedRows
  <2>2. me' = [me EXCEPT ![p] = v] BY <1>11 DEF ListPausedRuns
  <2>3. v \in Actor /\ v.cur = me[p].cur /\ v.runs = w
    <3> HIDE DEF w
    <3> QED BY <1>a, <2>1 DEF Actor
  <2>4. turn' = turn /\ me[p].pc = "close" BY <1>11 DEF ListPausedRuns
  <2> HIDE DEF v, w
  <2>5. me' \in [Actors -> Actor] /\ ActorKnows' /\ TurnInRequest' BY <2>1, <2>2, <2>3, <2>4, MoveType
  <2> QED BY <1>11, <2>5 DEF ListPausedRuns, ReservedRows, pauseVars
<1>15. CASE EndListedRun(p)
  <2>1. PICK r \in me[p].runs :
          /\ me' = [me EXCEPT ![p].runs = @ \ {r}]
          /\ \/ EndRun(r) /\ UNCHANGED faults
             \/ Fails /\ lapses' = lapses \cup {"unended"} /\ UNCHANGED row
    BY <1>15 DEF EndListedRun
  <2> DEFINE v == [me[p] EXCEPT !.runs = me[p].runs \ {r}]
  <2>2. me' = [me EXCEPT ![p] = v] BY <2>1
  <2>3. v \in Actor /\ v.cur = me[p].cur /\ v.runs \subseteq me[p].runs BY <1>a DEF Actor
  <2>4. v.runs \cap Reserved = {} BY <2>3 DEF ActorKnows
  <2>5. turn' = turn /\ me[p].pc = "end" BY <1>15 DEF EndListedRun
  <2> HIDE DEF v
  <2>6. me' \in [Actors -> Actor] /\ ActorKnows' /\ TurnInRequest'
    BY <2>2, <2>3, <2>4, <2>5, MoveType
  <2>7. row' \in [Runs -> Table!Status] /\ ReservedRows' /\ lapses' \subseteq Lapses
    BY <2>1, EndRunType DEF ReservedRows, Lapses
  <2>8. faults' \in 0..MaxFaults BY <2>1, FailsType
  <2> QED BY <1>15, <2>6, <2>7, <2>8 DEF EndListedRun, pauseVars, Lapses
<1>16. CASE EndedRuns(p)
  <2>1. me' \in [Actors -> Actor] /\ ActorKnows' /\ TurnInRequest'
    BY <1>16, GotoType, LeaveType DEF EndedRuns, Closed, Pcs
  <2> QED BY <1>16, <2>1 DEF EndedRuns, ReservedRows, pauseVars
<1>12. CASE BeginMessageTurn(p)
  <2> DEFINE v == [me[p] EXCEPT !.pc = "turn"]
             t == [at |-> "invoke", using |-> {}, base |-> me[p].seen]
  <2>1. v \in Actor /\ v.cur = me[p].cur /\ v.runs = me[p].runs /\ v.pc = "turn" BY <1>a DEF Actor
  <2>2. me' = [me EXCEPT ![p] = v] BY <1>12 DEF BeginMessageTurn, Goto
  <2> HIDE DEF v
  <2>3. me' \in [Actors -> Actor] /\ me'[p] = v /\ \A k \in Actors : k # p => me'[k] = me[k]
    BY <2>1, <2>2
  <2>4. ActorKnows' BY <1>12, <2>1, <2>3 DEF BeginMessageTurn, ActorKnows
  <2>5. t \in Turn BY <1>a DEF Actor, Turn
  <2>6. turn' \in [Runs -> Turn] /\ \A k \in Runs : k # p => turn'[k] = turn[k]
    BY <1>12, <2>5 DEF BeginMessageTurn
  <2>7. TurnInRequest' BY <2>1, <2>3, <2>6 DEF TurnInRequest
  <2> QED BY <1>12, <2>3, <2>4, <2>6, <2>7 DEF BeginMessageTurn, ReservedRows, pauseVars
<1>13. CASE MessageTurnEnds(p)
  <2>1. me' \in [Actors -> Actor] /\ ActorKnows' /\ TurnInRequest'
    BY <1>13, GotoType DEF MessageTurnEnds, Pcs
  <2> QED BY <1>13, <2>1 DEF MessageTurnEnds, ReservedRows, pauseVars
<1> QED BY <1>1, <1>2, <1>3, <1>4, <1>5, <1>6, <1>7, <1>8, <1>9, <1>10, <1>11, <1>12, <1>13, <1>14,
           <1>15, <1>16

LEMMA NextTypeInv == TypeInv /\ [Next]_vars => TypeInv'
<1> SUFFICES ASSUME TypeInv, [Next]_vars PROVE TypeInv' OBVIOUS
<1>1. ASSUME NEW r \in Runs,
             StartFirstTurn \/ ClaimRun(r) \/ TurnStep(r) \/ FinalizeRun(r) \/ ResetRuntime(r) \/ LoseWorker(r)
      PROVE  TypeInv'
  BY <1>1, TurnTypeInv
<1>2. ASSUME NEW a \in Actions, ExpiryPasses(a) PROVE TypeInv'
  BY <1>2 DEF ExpiryPasses, TypeInv, TypeOK, ActorKnows, RaisedByOwn, ReservedRows, TurnInRequest
<1>3. ASSUME NEW p \in Actors, ActorStep(p) PROVE TypeInv'
  BY <1>3, AnswerTypeInv, WithdrawTypeInv DEF ActorStep
<1>4. ASSUME NEW p \in Answerers, BeginAnswer(p) PROVE TypeInv' BY <1>4, AnswerTypeInv
<1>5. ASSUME NEW s \in Sweepers, SweepLists(s) PROVE TypeInv' BY <1>5, WithdrawTypeInv
<1>6. ASSUME NEW m \in Messages, BeginMessage(m) PROVE TypeInv' BY <1>6, WithdrawTypeInv
<1>7. ASSUME NEW c \in Cancelers, BeginCancel(c) PROVE TypeInv' BY <1>7, WithdrawTypeInv
<1>8. CASE UNCHANGED vars
  BY <1>8 DEF vars, pauseVars, TypeInv, TypeOK, ActorKnows, RaisedByOwn, ReservedRows, TurnInRequest
<1> QED BY <1>1, <1>2, <1>3, <1>4, <1>5, <1>6, <1>7, <1>8 DEF Next

\* Requests, runs and the conversation keep their types, in every order of answers,
\* timeouts, messages and cancels.
THEOREM TypeCorrect == Spec => []TypeOK
<1>1. TypeInv => TypeOK BY DEF TypeInv
<1> QED BY <1>1, InitTypeInv, NextTypeInv, PTL DEF Spec

-----------------------------------------------------------------------------
(***************************************************************************)
(* An answer is applied once                                               *)
(***************************************************************************)

Inside(p) == me[p].pc \notin {"idle", "reserve", "done"}
Raised == UNION {Pauses[k] : k \in 1..paused}

\* A request that goes on behind its reservation has it.
HoldsSlot == \A p \in Reserved : Inside(p) => row[p] = "running"

\* The conversation has one active run.
OneSlot == \A r, q \in Runs : row[r] \in Table!ACTIVE_STATUSES /\ row[q] \in Table!ACTIVE_STATUSES => r = q

\* A turn is that of a running run, so there is one at a time; only one that has called
\* the model has answers in hand.
BusyIsRunning == \A r \in Runs : Busy(r) => row[r] = "running"
UsingIsInvoke == \A r \in Runs : turn[r].using # {} => turn[r].at = "invoke"

\* The stored pause has not been applied, if every state was saved; everything applied was
\* raised before.
SnapshotUnspent == Unsaved \/ snapshot \cap spent = {}
OnlyRaised == snapshot \subseteq Raised /\ spent \subseteq Raised /\ \A r \in Runs : turn[r].using \subseteq Raised

\* What holds as long as no run is ended under its turn.
AppliedInv ==
    /\ TypeInv /\ HoldsSlot /\ OneSlot /\ BusyIsRunning /\ UsingIsInvoke
    /\ SnapshotUnspent /\ OnlyRaised /\ AppliedOnce

LEMMA InitAppliedInv == Init => AppliedInv
<1> SUFFICES ASSUME Init PROVE AppliedInv OBVIOUS
<1>1. \A p \in Actors : me[p].pc = "idle" BY AtType DEF Init
<1>2. \A r \in Runs : turn[r].at = "none" /\ turn[r].using = {} BY DEF Init, NoTurn
<1> QED BY <1>1, <1>2, InitTypeInv
        DEF Init, AppliedInv, HoldsSlot, OneSlot, BusyIsRunning, UsingIsInvoke, SnapshotUnspent,
            OnlyRaised, AppliedOnce, Inside, Table!ACTIVE_STATUSES

\* A lapse is not made up for.
LEMMA LapsesStay == [Next]_vars => lapses \subseteq lapses'
<1> SUFFICES ASSUME [Next]_vars PROVE lapses \subseteq lapses' OBVIOUS
<1>1. ASSUME NEW r \in Runs,
             StartFirstTurn \/ ClaimRun(r) \/ TurnStep(r) \/ FinalizeRun(r) \/ ResetRuntime(r) \/ LoseWorker(r)
      PROVE  lapses \subseteq lapses'
  BY <1>1 DEF StartFirstTurn, ClaimRun, TurnStep, FinalizeRun, ResetRuntime, LoseWorker, LoadFindsNothing,
       LoadRefuses, Load, StoreTurn, FailTurn, Superseded
<1>2. ASSUME NEW p \in Actors, ActorStep(p) PROVE lapses \subseteq lapses'
  <2>1. CASE QueueResume(p) \/ CallThrows(p) \/ CancelPausedRun(p) \/ EndListedRun(p)
    BY <2>1 DEF QueueResume, Queued, Conflict, CallThrows, CancelPausedRun, EndListedRun, EndRun
  <2>2. CASE ~(QueueResume(p) \/ CallThrows(p) \/ CancelPausedRun(p) \/ EndListedRun(p))
    BY <1>2, <2>2 DEF ActorStep, Reserve, RecordAnswer, WriteCopies, ListOpen, FindOwner, UndoAnswer,
         UndoCopies, InlineTurnEnds, SettleOwner, ReopenAnswer, Release, Look, MarkRunning, HandleOne,
         HandledAll, SweepListsOpen, DropPausedSnapshot, SetIdle, ListPausedRuns, EndedRuns,
         BeginMessageTurn, MessageTurnEnds
  <2> QED BY <2>1, <2>2
<1>3. ASSUME NEW p \in Actors,
             BeginAnswer(p) \/ SweepLists(p) \/ BeginMessage(p) \/ BeginCancel(p)
      PROVE  lapses \subseteq lapses'
  BY <1>3 DEF BeginAnswer, SweepLists, BeginMessage, BeginCancel
<1>4. ASSUME NEW a \in Actions, ExpiryPasses(a) PROVE lapses \subseteq lapses'
  BY <1>4 DEF ExpiryPasses
<1>5. CASE UNCHANGED vars BY <1>5 DEF vars
<1>6. First \in Runs OBVIOUS
<1> QED BY <1>1, <1>2, <1>3, <1>4, <1>5, <1>6 DEF Next

\* A step that starts no turn, stores nothing and takes no slot.
LEMMA QuietStep ==
    ASSUME AppliedInv, TypeInv', lapses \subseteq lapses', row' = row, turn' = turn, spent' = spent, paused' = paused,
           snapshot' \subseteq snapshot, \A p \in Reserved : Inside(p)' => Inside(p)
    PROVE  AppliedInv'
BY DEF AppliedInv, HoldsSlot, OneSlot, BusyIsRunning, UsingIsInvoke, SnapshotUnspent, OnlyRaised,
       AppliedOnce, Raised

\* A step that writes the row of a run whose turn is not under way.
LEMMA RowStep ==
    ASSUME AppliedInv, TypeInv', lapses \subseteq lapses', NEW r \in Runs, NEW l, row' = [row EXCEPT ![r] = l], ~Busy(r),
           l \in Table!ACTIVE_STATUSES => Table!SlotFree(r) \/ row[r] \in Table!ACTIVE_STATUSES,
           r \in Reserved => l = "running" \/ ~Inside(r)',
           turn' = turn, spent' = spent, paused' = paused, snapshot' = snapshot,
           \A p \in Reserved \ {r} : Inside(p)' => Inside(p)
    PROVE  AppliedInv'
<1>1. row \in [Runs -> Table!Status] BY DEF AppliedInv, TypeInv, TypeOK
<1>2. row'[r] = l /\ \A k \in Runs : k # r => row'[k] = row[k] BY <1>1
<1>3. HoldsSlot' BY <1>2 DEF AppliedInv, HoldsSlot
<1>4. OneSlot'
  <2>1. l \in Table!ACTIVE_STATUSES => \A k \in Runs : k # r => row[k] \notin Table!ACTIVE_STATUSES
    BY DEF AppliedInv, OneSlot, Table!SlotFree, Table!Active
  <2> QED BY <1>2, <2>1 DEF AppliedInv, OneSlot
<1>5. BusyIsRunning' BY <1>2 DEF AppliedInv, BusyIsRunning
<1> QED BY <1>3, <1>4, <1>5 DEF AppliedInv, UsingIsInvoke, SnapshotUnspent, OnlyRaised, AppliedOnce, Raised

\* While one turn is under way, no other is, and no other has answers in hand.
LEMMA OneTurn ==
    ASSUME AppliedInv, NEW r \in Runs, Busy(r), NEW k \in Runs, k # r
    PROVE  ~Busy(k) /\ turn[k].using = {}
BY DEF AppliedInv, OneSlot, BusyIsRunning, UsingIsInvoke, Table!ACTIVE_STATUSES

\* A turn that goes on without storing anything, and holds no answers afterwards.
LEMMA TurnGoesOn ==
    ASSUME AppliedInv, TypeInv', lapses \subseteq lapses', NEW r \in Runs, turn'[r].using = {},
           \A k \in Runs : k # r => turn'[k] = turn[k],
           row' = row, Busy(r)' => row[r] = "running",
           spent' = spent, paused' = paused, snapshot' = snapshot,
           \A p \in Reserved : Inside(p)' => Inside(p)
    PROVE  AppliedInv'
BY DEF AppliedInv, HoldsSlot, OneSlot, BusyIsRunning, UsingIsInvoke, SnapshotUnspent, OnlyRaised,
       AppliedOnce, Raised

\* However far the calls that store a turn get, unless they end between the messages and
\* the state: the stored pause has not been applied.
LEMMA StoresUnspent ==
    ASSUME AppliedInv, TypeInv', lapses \subseteq lapses', NEW r \in Runs,
           NEW asked \in SUBSET Actions, NEW last \in Calls, StoresUpTo(r, asked, last),
           last = "messages" => Unsaved'
    PROVE  /\ SnapshotUnspent' /\ Raised \subseteq Raised'
           /\ snapshot' \subseteq Raised' /\ spent' \subseteq Raised'
<1>1. paused \in Nat /\ paused <= Len(Pauses) /\ Len(Pauses) \in Nat
  BY FreshRequests DEF AppliedInv, TypeInv, TypeOK
<1>2. \/ paused' = paused
      \/ paused < Len(Pauses) /\ paused' = paused + 1 /\ asked = Pauses[paused + 1]
  BY DEF StoresUpTo, OpenPause, MayAsk
<1>3. Raised \subseteq Raised' BY <1>1, <1>2 DEF Raised
<1>4. spent' \subseteq Raised
  BY DEF StoresUpTo, AppendMessages, AppliedInv, OnlyRaised
<1>5. CASE last # "state"
  <2>1. snapshot' = snapshot BY <1>5 DEF StoresUpTo
  <2>2. last = "messages" \/ spent' = spent BY <1>5 DEF StoresUpTo, Calls
  <2>3. SnapshotUnspent' BY <2>1, <2>2 DEF AppliedInv, SnapshotUnspent
  <2> QED BY <1>3, <1>4, <2>1, <2>3 DEF AppliedInv, OnlyRaised
<1>6. CASE last = "state"
  <2>1. snapshot' = asked BY <1>6 DEF StoresUpTo, SaveState
  <2>2. CASE asked = {} BY <1>3, <1>4, <2>1, <2>2 DEF SnapshotUnspent
  <2>3. CASE asked # {}
    <3>1. paused < Len(Pauses) /\ paused' = paused + 1 /\ asked = Pauses[paused + 1]
      BY <1>6, <2>3 DEF StoresUpTo, OpenPause, MayAsk
    <3>2. asked \subseteq Raised' BY <1>1, <3>1 DEF Raised
    <3>3. \A k \in 1..paused : Pauses[k] \cap Pauses[paused + 1] = {} BY <1>1, <3>1, FreshRequests
    <3>4. Raised \cap asked = {} BY <3>1, <3>3 DEF Raised
    <3> QED BY <1>3, <1>4, <2>1, <3>2, <3>4 DEF SnapshotUnspent
  <2> QED BY <2>2, <2>3
<1> QED BY <1>5, <1>6

\* A turn that is over, whatever was stored of it: its answers may be spent, and no other
\* turn has them.
LEMMA TurnIsOver ==
    ASSUME AppliedInv, TypeInv', lapses \subseteq lapses', NEW r \in Runs,
           NEW l, Ends(r, l), l \notin {"load", "invoke"}, me' = me,
           \/ row' = row
           \/ r \notin Reserved /\ \E st : row' = [row EXCEPT ![r] = st] /\ st \notin Table!ACTIVE_STATUSES,
           Busy(r) \/ spent' = spent,
           SnapshotUnspent', Raised \subseteq Raised', snapshot' \subseteq Raised', spent' \subseteq Raised'
    PROVE  AppliedInv'
<1>1. turn'[r].at = l /\ turn'[r].using = {} /\ \A k \in Runs : k # r => turn'[k] = turn[k]
  BY DEF Ends, NoTurn, AppliedInv, TypeInv, TypeOK
<1>2. spent' = spent \/ \A k \in Runs : turn'[k].using = {} BY <1>1, OneTurn
<1>3. \A k \in Runs : turn'[k].using \subseteq turn[k].using BY <1>1
<1>4. \A k \in Runs : k # r => row'[k] = row[k] BY DEF AppliedInv, TypeInv, TypeOK
<1>5. row'[r] = row[r] \/ (row'[r] \notin Table!ACTIVE_STATUSES /\ r \notin Reserved)
  BY DEF AppliedInv, TypeInv, TypeOK
<1>6. HoldsSlot' /\ OneSlot' BY <1>4, <1>5 DEF AppliedInv, HoldsSlot, OneSlot, Inside
<1>7. BusyIsRunning' /\ UsingIsInvoke' BY <1>1, <1>4 DEF AppliedInv, BusyIsRunning, UsingIsInvoke
<1>8. AppliedOnce' BY <1>2, <1>3 DEF AppliedInv, AppliedOnce
<1>9. OnlyRaised' BY <1>3 DEF AppliedInv, OnlyRaised
<1> QED BY <1>6, <1>7, <1>8, <1>9 DEF AppliedInv

\* The steps of a turn and of its worker.
LEMMA TurnAppliedInv ==
    ASSUME AppliedInv, TypeInv', lapses \subseteq lapses', NEW r \in Runs,
           StartFirstTurn \/ ClaimRun(r) \/ TurnStep(r) \/ FinalizeRun(r) \/ ResetRuntime(r) \/ LoseWorker(r)
    PROVE  AppliedInv'
<1>a. turn \in [Runs -> Turn] /\ row \in [Runs -> Table!Status] BY DEF AppliedInv, TypeInv, TypeOK
<1>b. ASSUME NEW q \in Runs, NEW l, Step(q, l)
      PROVE  /\ turn'[q].at = l /\ turn'[q].using = turn[q].using
             /\ \A k \in Runs : k # q => turn'[k] = turn[k]
  BY <1>a, <1>b DEF Step, Turn
<1>c. ASSUME NEW l, Ends(r, l)
      PROVE  /\ turn'[r].at = l /\ turn'[r].using = {}
             /\ \A k \in Runs : k # r => turn'[k] = turn[k]
  BY <1>a, <1>c DEF Ends, NoTurn
<1>1. CASE StartFirstTurn
  <2>1. /\ turn'[First].at = "invoke" /\ turn'[First].using = turn[First].using
        /\ \A k \in Runs : k # First => turn'[k] = turn[k]
    BY <1>1, <1>b DEF StartFirstTurn
  <2>2. turn[First].using = {} BY <1>1 DEF StartFirstTurn, AppliedInv, BusyIsRunning, UsingIsInvoke
  <2>3. row'[First] = "running" /\ \A k \in Runs : k # First => row'[k] = row[k]
    BY <1>1, <1>a DEF StartFirstTurn, Table!Set
  <2>4. \A k \in Runs : k # First => row[k] \notin Table!ACTIVE_STATUSES
    BY <1>1 DEF StartFirstTurn, Table!SlotFree, Table!Active
  <2>5. OneSlot' /\ HoldsSlot'
    BY <1>1, <2>3, <2>4 DEF StartFirstTurn, AppliedInv, OneSlot, HoldsSlot, Inside
  <2>6. BusyIsRunning' /\ UsingIsInvoke'
    BY <2>1, <2>2, <2>3 DEF AppliedInv, BusyIsRunning, UsingIsInvoke
  <2>7. SnapshotUnspent' /\ OnlyRaised' /\ AppliedOnce'
    BY <1>1, <2>1, <2>2 DEF StartFirstTurn, pauseVars, AppliedInv, SnapshotUnspent, OnlyRaised, AppliedOnce, Raised
  <2> QED BY <2>5, <2>6, <2>7 DEF AppliedInv
<1>2. CASE ClaimRun(r)
  <2>1. turn'[r].at = "load" /\ turn'[r].using = turn[r].using /\ \A k \in Runs : k # r => turn'[k] = turn[k]
    BY <1>2, <1>b DEF ClaimRun
  <2>2. row[r] = "queued" /\ row'[r] = "running" /\ \A k \in Runs : k # r => row'[k] = row[k]
    BY <1>2, <1>a DEF ClaimRun, Table!ClaimAgentRun, Table!Set
  <2>3. turn[r].using = {} BY <2>2 DEF AppliedInv, BusyIsRunning, UsingIsInvoke
  <2>4. OneSlot' /\ HoldsSlot'
    BY <1>2, <2>2 DEF ClaimRun, AppliedInv, OneSlot, HoldsSlot, Inside, Table!ACTIVE_STATUSES
  <2>5. BusyIsRunning' /\ UsingIsInvoke'
    BY <2>1, <2>2, <2>3 DEF AppliedInv, BusyIsRunning, UsingIsInvoke
  <2>6. SnapshotUnspent' /\ OnlyRaised' /\ AppliedOnce'
    BY <1>2, <2>1, <2>3 DEF ClaimRun, pauseVars, AppliedInv, SnapshotUnspent, OnlyRaised, AppliedOnce, Raised
  <2> QED BY <2>4, <2>5, <2>6 DEF AppliedInv
<1>3. CASE LoadFindsNothing(r)
  BY <1>3, <1>c, TurnGoesOn DEF LoadFindsNothing, pauseVars, Inside
<1>4. CASE LoadRefuses(r)
  BY <1>4, <1>c, TurnGoesOn DEF LoadRefuses, pauseVars, Inside
<1>5. CASE Load(r)
  <2>1. turn'[r].at = "invoke" /\ turn'[r].using = snapshot /\ \A k \in Runs : k # r => turn'[k] = turn[k]
    BY <1>5, <1>a DEF Load
  <2>2. row[r] = "running" BY <1>5 DEF Load, AppliedInv, BusyIsRunning
  <2> QED BY <1>5, <2>1, <2>2
          DEF Load, pauseVars, AppliedInv, HoldsSlot, OneSlot, BusyIsRunning, UsingIsInvoke,
              SnapshotUnspent, OnlyRaised, AppliedOnce, Raised, Inside
<1>6. CASE StoreTurn(r)
  <2>1. PICK asked \in SUBSET Actions, last \in Calls :
          /\ StoresUpTo(r, asked, last) /\ (last = "messages" => Unsaved')
          /\ Ends(r, IF asked = {} THEN "completed" ELSE "paused")
    BY <1>6 DEF StoreTurn, Calls
  <2>2. Busy(r) BY <2>1 DEF StoresUpTo
  <2>3. row' = row /\ me' = me BY <1>6 DEF StoreTurn
  <2> QED BY <2>1, <2>2, <2>3, StoresUnspent, TurnIsOver
<1>7. CASE FailTurn(r)
  <2>1. PICK asked \in SUBSET Actions, last \in {"none", "requests"} :
          StoresUpTo(r, asked, last) /\ \E l \in {"failed", "aborted"} : Ends(r, l)
    BY <1>7 DEF FailTurn
  <2>2. Busy(r) /\ last \in Calls /\ last # "messages" BY <2>1 DEF StoresUpTo, Calls
  <2>3. row' = row /\ me' = me BY <1>7 DEF FailTurn
  <2> QED BY <2>1, <2>2, <2>3, StoresUnspent, TurnIsOver
<1>8. CASE Superseded(r) BY <1>8 DEF Superseded, AppliedInv, BusyIsRunning
<1>9. CASE FinalizeRun(r)
  <2>1. PICK l \in {"none", "reset"}, s \in {"succeeded", "requires_action", "failed"} :
          Step(r, l) /\ Table!Set(r, s)
    BY <1>9 DEF FinalizeRun
  <2>2. turn'[r].at = l /\ turn'[r].using = turn[r].using /\ \A k \in Runs : k # r => turn'[k] = turn[k]
    BY <2>1, <1>b
  <2>3. turn[r].using = {} BY <1>9 DEF FinalizeRun, AppliedInv, UsingIsInvoke
  <2>4. row'[r] = s /\ \A k \in Runs : k # r => row'[k] = row[k] BY <1>a, <2>1 DEF Table!Set
  <2>5. OneSlot' /\ HoldsSlot'
    BY <1>9, <2>4 DEF FinalizeRun, AppliedInv, OneSlot, HoldsSlot, Inside, Table!ACTIVE_STATUSES
  <2>6. BusyIsRunning' /\ UsingIsInvoke'
    BY <2>2, <2>3, <2>4 DEF AppliedInv, BusyIsRunning, UsingIsInvoke
  <2>7. SnapshotUnspent' /\ OnlyRaised' /\ AppliedOnce'
    BY <1>9, <2>2, <2>3 DEF FinalizeRun, pauseVars, AppliedInv, SnapshotUnspent, OnlyRaised, AppliedOnce, Raised
  <2> QED BY <2>5, <2>6, <2>7 DEF AppliedInv
<1>10. CASE ResetRuntime(r)
  <2>1. turn[r].using = {} BY <1>10 DEF ResetRuntime, AppliedInv, UsingIsInvoke
  <2> QED BY <1>10, <1>b, <2>1, TurnGoesOn DEF ResetRuntime, pauseVars, Inside
<1>11. CASE LoseWorker(r)
  <2>1. /\ Ends(r, "none") /\ me' = me /\ r \notin Reserved
        /\ row' = [row EXCEPT ![r] = "failed"] /\ "failed" \notin Table!ACTIVE_STATUSES
    BY <1>11 DEF LoseWorker, Table!Set, Table!ACTIVE_STATUSES
  <2>2. CASE \E asked \in SUBSET Actions : \E last \in Calls :
               StoresUpTo(r, asked, last) /\ (last = "messages" => Unsaved')
    <3>1. Busy(r) BY <2>2 DEF StoresUpTo
    <3>2. /\ SnapshotUnspent' /\ Raised \subseteq Raised'
          /\ snapshot' \subseteq Raised' /\ spent' \subseteq Raised'
      BY <2>2, StoresUnspent
    <3> QED BY <2>1, <3>1, <3>2, TurnIsOver
  <2>3. CASE UNCHANGED <<act, raisedBy, paused, msgs, spent, snapshot>>
    <3>1. /\ SnapshotUnspent' /\ Raised \subseteq Raised'
          /\ snapshot' \subseteq Raised' /\ spent' \subseteq Raised'
      BY <2>3 DEF AppliedInv, SnapshotUnspent, OnlyRaised, Raised
    <3> QED BY <2>1, <2>3, <3>1, TurnIsOver
  <2> QED BY <1>11, <2>2, <2>3 DEF LoseWorker
<1> QED BY <1>1, <1>2, <1>3, <1>4, <1>5, <1>6, <1>7, <1>8, <1>9, <1>10, <1>11 DEF TurnStep

\* The steps of an actor that write no run and start no turn.
LEMMA QuietActorStep ==
    ASSUME AppliedInv, TypeInv', lapses \subseteq lapses', NEW p \in Actors,
           \/ p \in Answerers /\ BeginAnswer(p)
           \/ RecordAnswer(p) \/ WriteCopies(p) \/ FindOwner(p)
           \/ UndoAnswer(p) \/ UndoCopies(p) \/ InlineTurnEnds(p) \/ ReopenAnswer(p)
           \/ p \in Sweepers /\ SweepLists(p)
           \/ p \in Messages /\ BeginMessage(p)
           \/ p \in Cancelers /\ BeginCancel(p)
           \/ CallThrows(p) \/ ListPausedRuns(p) \/ EndedRuns(p)
           \/ Look(p) \/ MarkRunning(p) \/ HandleOne(p) \/ HandledAll(p) \/ SweepListsOpen(p)
           \/ DropPausedSnapshot(p) \/ SetIdle(p) \/ MessageTurnEnds(p)
    PROVE  AppliedInv'
<1>0. me \in [Actors -> Actor] BY DEF AppliedInv, TypeInv, TypeOK
<1>1. /\ row' = row /\ turn' = turn /\ spent' = spent /\ paused' = paused
      /\ snapshot' \subseteq snapshot
  BY DEF BeginAnswer, RecordAnswer, WriteCopies, FindOwner, UndoAnswer, UndoCopies, InlineTurnEnds,
         ReopenAnswer, SweepLists, BeginMessage, Look, MarkRunning, HandleOne, HandledAll,
         SweepListsOpen, DropPausedSnapshot, SetIdle, MessageTurnEnds, BeginCancel, CallThrows,
         ListPausedRuns, EndedRuns, pauseVars
<1>2. \A k \in Actors : k # p => me'[k] = me[k]
  BY <1>0 DEF BeginAnswer, RecordAnswer, WriteCopies, FindOwner, UndoAnswer, UndoCopies,
         InlineTurnEnds, ReopenAnswer, SweepLists, BeginMessage, Look, MarkRunning, HandleOne,
         HandledAll, SweepListsOpen, DropPausedSnapshot, SetIdle, MessageTurnEnds, BeginCancel,
         CallThrows, ListPausedRuns, EndedRuns, Closed, Goto, Done, Leave
<1>3. p \in Reserved /\ Inside(p)' => Inside(p)
  <2>1. CASE p \in Answerers /\ BeginAnswer(p)
    <3>1. ASSUME p \in Inline PROVE me'[p].pc = "reserve"
      <4>1. PICK a \in Actions : me' = [me EXCEPT ![p] = [At("reserve") EXCEPT !.cur = a, !.seen = msgs]]
        BY <2>1, <3>1 DEF BeginAnswer, Open
      <4>2. [At("reserve") EXCEPT !.cur = a, !.seen = msgs].pc = "reserve" BY DEF At
      <4> QED BY <1>0, <4>1, <4>2
    <3>2. p \in Reserved => p \in Inline BY <2>1
    <3> QED BY <3>1, <3>2 DEF Inside
  <2>2. CASE p \in Sweepers /\ SweepLists(p) BY <2>2
  <2>3. CASE p \in Messages /\ BeginMessage(p)
    <3>1. me'[p].pc = "reserve" BY <1>0, <2>3 DEF BeginMessage, Goto, Actor
    <3> QED BY <3>1 DEF Inside
  <2>4. CASE ~(\/ p \in Answerers /\ BeginAnswer(p)
               \/ p \in Sweepers /\ SweepLists(p)
               \/ p \in Messages /\ BeginMessage(p)
               \/ p \in Cancelers /\ BeginCancel(p))
    BY <2>4 DEF Inside, RecordAnswer, WriteCopies, FindOwner, UndoAnswer, UndoCopies,
         InlineTurnEnds, ReopenAnswer, Look, MarkRunning, HandleOne, HandledAll, SweepListsOpen,
         DropPausedSnapshot, SetIdle, MessageTurnEnds, CallThrows, ListPausedRuns, EndedRuns
  <2>5. CASE p \in Cancelers /\ BeginCancel(p) BY <2>5
  <2> QED BY <2>1, <2>2, <2>3, <2>4, <2>5
<1>4. \A k \in Reserved : Inside(k)' => Inside(k) BY <1>2, <1>3 DEF Inside
<1> QED BY <1>1, <1>4, QuietStep

\* The steps of an actor that write a run, or start a turn.
LEMMA WritingActorStep ==
    ASSUME AppliedInv, TypeInv', lapses \subseteq lapses', ~Overtaken', NEW p \in Actors,
           \/ Reserve(p) \/ ListOpen(p) \/ QueueResume(p) \/ SettleOwner(p) \/ Release(p)
           \/ CancelPausedRun(p) \/ EndListedRun(p) \/ BeginMessageTurn(p)
    PROVE  AppliedInv'
<1>0. /\ me \in [Actors -> Actor] /\ turn \in [Runs -> Turn] /\ row \in [Runs -> Table!Status]
      /\ TypeInv
  BY DEF AppliedInv, TypeInv, TypeOK
<1>a. ASSUME NEW r \in Runs, row[r] # "running" PROVE ~Busy(r)
  BY <1>a DEF AppliedInv, BusyIsRunning
<1>1. CASE Reserve(p)
  <2>1. /\ turn' = turn /\ spent' = spent /\ paused' = paused /\ snapshot' = snapshot
        /\ me[p].pc = "reserve" /\ \A k \in Actors : k # p => me'[k] = me[k]
    BY <1>0, <1>1 DEF Reserve, pauseVars, Goto, Done
  <2>2. CASE Table!SlotFree(p) /\ Table!Set(p, "running")
    <3>1. CASE p \in Reserved
      <4>1. ~Busy(p) BY <1>0, <2>1, <3>1 DEF TypeInv, TurnInRequest
      <4>2. \A k \in Reserved \ {p} : Inside(k)' => Inside(k) BY <2>1 DEF Inside
      <4> QED BY <2>1, <2>2, <3>1, <4>1, <4>2, RowStep DEF Table!Set
    <3>2. CASE p \notin Reserved
      <4>1. p \notin Runs BY <3>2
      <4>2. row' = row BY <1>0, <2>2, <4>1 DEF Table!Set
      <4>3. \A k \in Reserved : Inside(k)' => Inside(k) BY <2>1, <3>2 DEF Inside
      <4> QED BY <2>1, <4>2, <4>3, QuietStep
    <3> QED BY <3>1, <3>2
  <2>3. CASE Done(p) /\ UNCHANGED row
    <3>1. \A k \in Reserved : Inside(k)' => Inside(k) BY <1>0, <2>1, <2>3, AtType DEF Inside, Done
    <3> QED BY <2>1, <2>3, <3>1, QuietStep
  <2> QED BY <1>1, <2>2, <2>3 DEF Reserve
<1>2. CASE ListOpen(p)
  <2>1. /\ row' = row /\ spent' = spent /\ paused' = paused /\ snapshot' = snapshot
        /\ me[p].pc = "open" /\ \A k \in Actors : k # p => me'[k] = me[k]
    BY <1>0, <1>2 DEF ListOpen, pauseVars
  <2>2. \A k \in Reserved : Inside(k)' => Inside(k) BY <2>1 DEF Inside
  <2>3. CASE p \in Inline /\ Step(p, "load")
    <3>1. row[p] = "running" BY <2>1, <2>3 DEF AppliedInv, HoldsSlot, Inside
    <3>2. ~Busy(p) BY <1>0, <2>1, <2>3 DEF TypeInv, TurnInRequest
    <3>3. turn[p].using = {} BY <2>3, <3>2 DEF AppliedInv, UsingIsInvoke
    <3>4. turn'[p].using = {} /\ \A k \in Runs : k # p => turn'[k] = turn[k]
      BY <1>0, <2>3, <3>3 DEF Step, Turn
    <3> QED BY <2>1, <2>2, <2>3, <3>1, <3>4, TurnGoesOn
  <2>4. CASE turn' = turn BY <2>1, <2>2, <2>4, QuietStep
  <2> QED BY <1>2, <2>3, <2>4 DEF ListOpen
<1>3. CASE QueueResume(p)
  <2>1. /\ turn' = turn /\ spent' = spent /\ paused' = paused /\ snapshot' = snapshot
        /\ me[p].pc = "queue" /\ \A k \in Actors : k # p => me'[k] = me[k]
    BY <1>0, <1>3 DEF QueueResume, Queued, Conflict, Leave, Goto, pauseVars
  <2>2. \A k \in Reserved : Inside(k)' => Inside(k) BY <2>1 DEF Inside
  <2>3. CASE row' = row BY <2>1, <2>2, <2>3, QuietStep
  <2>4. ASSUME NEW r \in Runs, IF me[p].found THEN r = raisedBy[me[p].cur] ELSE NewRun(r),
               ~(me[p].found /\ ~OwnerPaused(p)), Queued(p, r)
        PROVE  AppliedInv'
    <3>1. row[r] \in {"requires_action", "absent"} BY <2>4 DEF OwnerPaused, NewRun
    <3>2. ~Busy(r) BY <1>a, <3>1
    <3>3. r \notin Reserved
      <4>1. CASE me[p].found
        <5>1. row[r] = "requires_action" BY <2>4, <4>1 DEF OwnerPaused
        <5> QED BY <1>0, <5>1 DEF TypeInv, ReservedRows
      <4>2. CASE ~me[p].found BY <2>4, <4>2 DEF NewRun
      <4> QED BY <4>1, <4>2
    <3> QED BY <2>1, <2>2, <2>4, <3>2, <3>3, RowStep DEF Queued, Table!Set
  <2> QED BY <1>3, <2>3, <2>4 DEF QueueResume, Conflict
<1>4. CASE SettleOwner(p)
  <2>1. /\ turn' = turn /\ spent' = spent /\ paused' = paused /\ snapshot' = snapshot
        /\ me[p].pc = "settle" /\ \A k \in Actors : k # p => me'[k] = me[k]
    BY <1>0, <1>4 DEF SettleOwner, Goto, pauseVars
  <2>2. \A k \in Reserved : Inside(k)' => Inside(k) BY <2>1 DEF Inside
  <2>3. CASE row' = row BY <2>1, <2>2, <2>3, QuietStep
  <2>4. CASE OwnerPaused(p) /\ Table!Set(raisedBy[me[p].cur], "succeeded")
    <3> DEFINE r == raisedBy[me[p].cur]
    <3>1. row[r] = "requires_action" BY <2>4 DEF OwnerPaused
    <3>2. CASE r \in Runs
      <4>1. ~Busy(r) /\ r \notin Reserved BY <1>0, <1>a, <3>1, <3>2 DEF TypeInv, ReservedRows
      <4>2. "succeeded" \notin Table!ACTIVE_STATUSES BY DEF Table!ACTIVE_STATUSES
      <4>3. row' = [row EXCEPT ![r] = "succeeded"] BY <2>4 DEF Table!Set
      <4> HIDE DEF r
      <4> QED BY <2>1, <2>2, <3>2, <4>1, <4>2, <4>3, RowStep
    <3>3. CASE r \notin Runs
      <4>1. row' = row BY <1>0, <2>4, <3>3 DEF Table!Set
      <4> QED BY <2>3, <4>1
    <3> QED BY <3>2, <3>3
  <2> QED BY <1>4, <2>3, <2>4 DEF SettleOwner
<1>5. CASE Release(p)
  <2>1. /\ turn' = turn /\ spent' = spent /\ paused' = paused /\ snapshot' = snapshot
        /\ me[p].pc = "release" /\ Done(p) /\ \A k \in Actors : k # p => me'[k] = me[k]
    BY <1>0, <1>5 DEF Release, Done, pauseVars
  <2>2. \A k \in Reserved : Inside(k)' => Inside(k) BY <2>1 DEF Inside
  <2>3. ~Inside(p)' BY <1>0, <2>1, AtType DEF Done, Inside
  <2>4. CASE row' = row BY <2>1, <2>2, <2>4, QuietStep
  <2>5. CASE Table!DeleteAgentRun(p)
    <3>1. CASE p \in Reserved
      <4>1. ~Busy(p) BY <1>0, <2>1, <3>1 DEF TypeInv, TurnInRequest
      <4>2. "deleted" \notin Table!ACTIVE_STATUSES BY DEF Table!ACTIVE_STATUSES
      <4> QED BY <2>1, <2>2, <2>3, <2>5, <3>1, <4>1, <4>2, RowStep DEF Table!DeleteAgentRun, Table!Set
    <3>2. CASE p \notin Reserved
      <4>1. p \notin Runs BY <3>2
      <4>2. row' = row BY <1>0, <2>5, <4>1 DEF Table!DeleteAgentRun, Table!Set
      <4> QED BY <2>4, <4>2
    <3> QED BY <3>1, <3>2
  <2> QED BY <1>5, <2>4, <2>5 DEF Release
<1>6. CASE CancelPausedRun(p) \/ EndListedRun(p)
  <2>1. /\ turn' = turn /\ spent' = spent /\ paused' = paused /\ snapshot' = snapshot
        /\ me[p].pc \in {"cancel", "end"} /\ \A k \in Actors : k # p => me'[k] = me[k]
    BY <1>0, <1>6 DEF CancelPausedRun, EndListedRun, Goto, Done, pauseVars
  <2>2. \A k \in Reserved : Inside(k)' => Inside(k) BY <2>1 DEF Inside
  <2>3. CASE row' = row BY <2>1, <2>2, <2>3, QuietStep
  <2>4. ASSUME NEW r \in me[p].runs, EndRun(r), row' # row
        PROVE  AppliedInv'
    <3>1. r \in Runs \ Reserved BY <1>0, <2>4, EndRunType
    <3>2. row[r] = "requires_action" /\ Table!Set(r, "canceled") BY <2>4 DEF EndRun
    <3>3. ~Busy(r) BY <1>a, <3>1, <3>2
    <3>4. "canceled" \notin Table!ACTIVE_STATUSES BY DEF Table!ACTIVE_STATUSES
    <3> QED BY <2>1, <2>2, <3>1, <3>2, <3>3, <3>4, RowStep DEF Table!Set
  <2> QED BY <1>6, <2>3, <2>4 DEF CancelPausedRun, EndListedRun
<1>7. CASE BeginMessageTurn(p)
  <2>1. /\ row' = row /\ spent' = spent /\ paused' = paused /\ snapshot' = snapshot
        /\ me[p].pc = "invoke" /\ \A k \in Actors : k # p => me'[k] = me[k]
    BY <1>0, <1>7 DEF BeginMessageTurn, Goto, pauseVars
  <2>2. \A k \in Reserved : Inside(k)' => Inside(k) BY <2>1 DEF Inside
  <2>3. CASE p \in Reserved
    <3>1. row[p] = "running" BY <2>1, <2>3 DEF AppliedInv, HoldsSlot, Inside
    <3>2. turn'[p].using = {} /\ \A k \in Runs : k # p => turn'[k] = turn[k]
      BY <1>0, <1>7, <2>3 DEF BeginMessageTurn
    <3> QED BY <2>1, <2>2, <2>3, <3>1, <3>2, TurnGoesOn
  <2>4. CASE p \notin Reserved
    <3>1. p \notin Runs BY <2>4
    <3>2. turn' = turn BY <1>0, <1>7, <3>1 DEF BeginMessageTurn
    <3> QED BY <2>1, <2>2, <3>2, QuietStep
  <2> QED BY <2>3, <2>4
<1> QED BY <1>1, <1>2, <1>3, <1>4, <1>5, <1>6, <1>7

LEMMA NextAppliedInv == AppliedInv /\ [Next]_vars /\ ~Overtaken' => AppliedInv'
<1> SUFFICES ASSUME AppliedInv, [Next]_vars, ~Overtaken' PROVE AppliedInv' OBVIOUS
<1>0. TypeInv' /\ lapses \subseteq lapses' BY NextTypeInv, LapsesStay DEF AppliedInv
<1>1. ASSUME NEW r \in Runs,
             StartFirstTurn \/ ClaimRun(r) \/ TurnStep(r) \/ FinalizeRun(r) \/ ResetRuntime(r) \/ LoseWorker(r)
      PROVE  AppliedInv'
  BY <1>0, <1>1, TurnAppliedInv
<1>2. ASSUME NEW a \in Actions, ExpiryPasses(a) PROVE AppliedInv'
  BY <1>0, <1>2, QuietStep DEF ExpiryPasses, Inside
<1>3. ASSUME NEW p \in Actors, ActorStep(p) PROVE AppliedInv'
  BY <1>0, <1>3, QuietActorStep, WritingActorStep DEF ActorStep
<1>4. ASSUME NEW p \in Answerers, BeginAnswer(p) PROVE AppliedInv' BY <1>0, <1>4, QuietActorStep
<1>5. ASSUME NEW s \in Sweepers, SweepLists(s) PROVE AppliedInv' BY <1>0, <1>5, QuietActorStep
<1>6. ASSUME NEW m \in Messages, BeginMessage(m) PROVE AppliedInv' BY <1>0, <1>6, QuietActorStep
<1>7. ASSUME NEW c \in Cancelers, BeginCancel(c) PROVE AppliedInv' BY <1>0, <1>7, QuietActorStep
<1>8. CASE UNCHANGED vars BY <1>0, <1>8, QuietStep DEF vars, pauseVars, Inside
<1> QED BY <1>1, <1>2, <1>3, <1>4, <1>5, <1>6, <1>7, <1>8 DEF Next

\* A person's answer, or the timeout's in its place, reaches the model through one stored
\* turn only, however many of them queue or run a continuation of the same pause, and
\* whichever call fails or worker dies; with the two exceptions AppliedOnce names, a run
\* that a cancel read as paused and ends under its turn, and a turn whose state is not saved.
THEOREM AnswersAppliedOnce == Spec => []AppliedOnce
<1>1. AppliedInv \/ Overtaken => AppliedOnce BY DEF AppliedInv, AppliedOnce
<1>2. Overtaken /\ [Next]_vars => Overtaken' BY LapsesStay
<1> QED BY <1>1, <1>2, InitAppliedInv, NextAppliedInv, PTL DEF Spec

-----------------------------------------------------------------------------
(***************************************************************************)
(* The rows are the table of module RunTable.  A request that reserves the *)
(* conversation inserts a new row: it has not had one before, because it   *)
(* reserves once.                                                          *)
(***************************************************************************)
Early(p) == me[p].pc \in {"idle", "reserve"}
NoRowYet == \A p \in Reserved : Early(p) => row[p] = "absent"

\* Where an actor may go: a request does not go back to where it has no row; only the sweep
\* and an answer in the background queue a continuation, and only the latter takes the answer
\* back; only an inline answer re-opens.
MayGo(p, l) ==
    /\ p \in Reserved => l \notin {"idle", "reserve"}
    /\ l = "find" => p \in Background \cup Sweepers
    /\ l = "queue" => me[p].pc \in {"find", "queue"}
    /\ l = "undo" => me[p].pc = "queue" /\ p \notin Sweepers
    /\ l = "reopen" => p \in Inline \/ me[p].pc = "reopen"

LEMMA GoesOn ==
    ASSUME TypeInv, NEW p \in Actors, ActorStep(p)
    PROVE  (\A k \in Actors : k # p => me'[k] = me[k]) /\ MayGo(p, me'[p].pc)
<1>0. me \in [Actors -> Actor] /\ me[p] \in Actor BY DEF TypeInv, TypeOK
<1>1. ASSUME NEW l, Goto(p, l)
      PROVE  me'[p].pc = l /\ \A k \in Actors : k # p => me'[k] = me[k]
  BY <1>0, <1>1 DEF Goto, Actor
<1>2. ASSUME Done(p) \/ Leave(p)
      PROVE  /\ \A k \in Actors : k # p => me'[k] = me[k]
             /\ me'[p].pc \in {"idle", "done"} /\ (p \in Reserved => me'[p].pc = "done")
  <2>1. PICK l \in {"idle", "done"} : me' = [me EXCEPT ![p] = At(l)] /\ (p \in Reserved => l = "done")
    BY <1>2 DEF Done, Leave
  <2> QED BY <1>0, <2>1, AtType
<1>3. CASE Reserve(p) \/ RecordAnswer(p) \/ WriteCopies(p) \/ UndoAnswer(p) \/ UndoCopies(p)
  BY <1>1, <1>2, <1>3 DEF Reserve, RecordAnswer, WriteCopies, UndoAnswer, UndoCopies, MayGo
<1>4. CASE SettleOwner(p) \/ Release(p) \/ MarkRunning(p) \/ HandledAll(p) \/ SweepListsOpen(p)
  BY <1>1, <1>2, <1>4 DEF SettleOwner, Release, MarkRunning, HandledAll, SweepListsOpen, MayGo
<1>5. CASE DropPausedSnapshot(p) \/ SetIdle(p) \/ BeginMessageTurn(p) \/ MessageTurnEnds(p)
  BY <1>1, <1>2, <1>5 DEF DropPausedSnapshot, SetIdle, BeginMessageTurn, MessageTurnEnds, MayGo
<1>6. CASE EndedRuns(p) \/ CancelPausedRun(p) \/ CallThrows(p)
  BY <1>1, <1>2, <1>6 DEF EndedRuns, Closed, CancelPausedRun, CallThrows, MayGo
<1>7. ASSUME NEW v \in Actor, me' = [me EXCEPT ![p] = v], MayGo(p, v.pc)
      PROVE  (\A k \in Actors : k # p => me'[k] = me[k]) /\ MayGo(p, me'[p].pc)
  BY <1>0, <1>7
<1>8. CASE ListOpen(p)
  <2> DEFINE l == IF Open # {} THEN "release" ELSE IF p \in Inline THEN "turn" ELSE "find"
             v == [me[p] EXCEPT !.found = OwnerPaused(p), !.pc = l]
  <2>1. OwnerPaused(p) \in BOOLEAN BY DEF OwnerPaused
  <2>2. me' = [me EXCEPT ![p] = v] BY <1>8 DEF ListOpen
  <2>3. l \in {"release", "turn", "find"} OBVIOUS
  <2>4. v \in Actor /\ v.pc = l
    <3> HIDE DEF l
    <3> QED BY <1>0, <2>1, <2>3 DEF Actor
  <2>5. MayGo(p, l) BY <1>8 DEF ListOpen, MayGo
  <2> HIDE DEF v, l
  <2> QED BY <1>7, <2>2, <2>4, <2>5
<1>9. CASE FindOwner(p)
  <2> DEFINE v == [me[p] EXCEPT !.found = OwnerPaused(p), !.pc = "queue"]
  <2>1. OwnerPaused(p) \in BOOLEAN BY DEF OwnerPaused
  <2>2. v \in Actor /\ v.pc = "queue" BY <1>0, <2>1 DEF Actor
  <2>3. me' = [me EXCEPT ![p] = v] BY <1>9 DEF FindOwner
  <2>4. MayGo(p, "queue") BY <1>9 DEF FindOwner, MayGo
  <2> HIDE DEF v
  <2> QED BY <1>7, <2>2, <2>3, <2>4
<1>10. CASE QueueResume(p)
  <2>1. CASE me' = [me EXCEPT ![p].found = FALSE]
    <3> DEFINE v == [me[p] EXCEPT !.found = FALSE]
    <3>1. v \in Actor /\ v.pc = "queue" BY <1>0, <1>10 DEF QueueResume, Actor
    <3>2. me' = [me EXCEPT ![p] = v] BY <2>1
    <3>3. MayGo(p, "queue") BY <1>10 DEF QueueResume, MayGo
    <3> HIDE DEF v
    <3> QED BY <1>7, <3>1, <3>2, <3>3
  <2>2. CASE Leave(p) \/ (p \notin Sweepers /\ Goto(p, "undo"))
    BY <1>1, <1>2, <1>10, <2>2 DEF QueueResume, MayGo
  <2> QED BY <1>10, <2>1, <2>2 DEF QueueResume, Queued, Conflict
<1>11. CASE InlineTurnEnds(p)
  <2> DEFINE l == CASE turn[p].at = "refused" -> "reopen" [] turn[p].at = "failed" -> "release"
                    [] OTHER -> "settle"
             t == IF turn[p].at = "refused" THEN Answered ELSE {}
             v == [me[p] EXCEPT !.pc = l, !.todo = t]
  <2>1. l \in {"reopen", "release", "settle"} OBVIOUS
  <2>2. t \subseteq Actions BY DEF Answered, TypeInv, TypeOK
  <2>3. me' = [me EXCEPT ![p] = v] BY <1>11 DEF InlineTurnEnds
  <2>4. v \in Actor /\ v.pc = l
    <3> HIDE DEF l, t
    <3> QED BY <1>0, <2>1, <2>2 DEF Actor
  <2>5. MayGo(p, l) BY <1>11, <2>1 DEF InlineTurnEnds, MayGo
  <2> HIDE DEF v, l
  <2> QED BY <1>7, <2>3, <2>4, <2>5
<1>12. CASE ReopenAnswer(p)
  <2>1. CASE Goto(p, "release") BY <1>1, <2>1 DEF MayGo
  <2>2. ASSUME NEW a \in me[p].todo, me' = [me EXCEPT ![p].todo = @ \ {a}]
        PROVE  (\A k \in Actors : k # p => me'[k] = me[k]) /\ MayGo(p, me'[p].pc)
    <3> DEFINE v == [me[p] EXCEPT !.todo = me[p].todo \ {a}]
    <3>1. v \in Actor /\ v.pc = "reopen" BY <1>0, <1>12 DEF ReopenAnswer, Actor
    <3>2. me' = [me EXCEPT ![p] = v] BY <2>2
    <3>3. MayGo(p, "reopen") BY <1>12 DEF ReopenAnswer, MayGo
    <3> HIDE DEF v
    <3> QED BY <1>7, <3>1, <3>2, <3>3
  <2> QED BY <1>12, <2>1, <2>2 DEF ReopenAnswer
<1>13. CASE Look(p)
  <2> DEFINE waiting == runtime = "requires_action"
             refused == waiting /\ OnMessage = "reject" /\ Open # {}
             t == IF p \in Sweepers THEN me[p].todo ELSE IF waiting THEN Open ELSE {}
             l == CASE p \in Sweepers -> "each"
                    [] p \in Cancelers -> IF waiting THEN "each" ELSE "done"
                    [] OTHER -> IF refused THEN "release" ELSE "mark"
             v == [me[p] EXCEPT !.seen = msgs, !.found = waiting, !.todo = t, !.pc = l]
  <2>1. l \in {"each", "done", "release", "mark"} OBVIOUS
  <2>2. t \subseteq Actions BY <1>0 DEF Open, Actor
  <2>3. me' = [me EXCEPT ![p] = v] BY <1>13 DEF Look
  <2>4. waiting \in BOOLEAN /\ msgs \in Nat BY DEF TypeInv, TypeOK
  <2>5. v \in Actor /\ v.pc = l
    <3> HIDE DEF l, t, waiting
    <3> QED BY <1>0, <2>1, <2>2, <2>4 DEF Actor
  <2>6. MayGo(p, l) BY <2>1 DEF MayGo
  <2> HIDE DEF v, l
  <2> QED BY <1>7, <2>3, <2>5, <2>6
<1>14. CASE HandleOne(p)
  <2>1. PICK a \in me[p].todo : me' = [me EXCEPT
               ![p].todo = @ \ {a},
               ![p].hit = IF act[a] # "pending" \/ @ = "resolved" THEN @
                          ELSE IF Verdict(p, a) = "resolved" THEN "resolved" ELSE "closed"]
    BY <1>14 DEF HandleOne
  <2> DEFINE h == IF act[a] # "pending" \/ me[p].hit = "resolved" THEN me[p].hit
                  ELSE IF Verdict(p, a) = "resolved" THEN "resolved" ELSE "closed"
             v == [me[p] EXCEPT !.todo = me[p].todo \ {a}, !.hit = h]
  <2>2. h \in {"none", "closed", "resolved"} BY <1>0 DEF Actor
  <2>3. me' = [me EXCEPT ![p] = v] BY <2>1
  <2>4. v \in Actor /\ v.pc = "each"
    <3> HIDE DEF h
    <3> QED BY <1>0, <1>14, <2>2 DEF HandleOne, Actor
  <2>5. MayGo(p, "each") BY DEF MayGo
  <2> HIDE DEF v
  <2> QED BY <1>7, <2>3, <2>4, <2>5
<1>15. CASE ListPausedRuns(p)
  <2> DEFINE w == {r \in Runs : row[r] = "requires_action"}
             v == [me[p] EXCEPT !.runs = w, !.pc = "end"]
  <2>1. w \subseteq Runs OBVIOUS
  <2>2. me' = [me EXCEPT ![p] = v] BY <1>15 DEF ListPausedRuns
  <2>3. v \in Actor /\ v.pc = "end"
    <3> HIDE DEF w
    <3> QED BY <1>0, <2>1 DEF Actor
  <2>4. MayGo(p, "end") BY DEF MayGo
  <2> HIDE DEF v
  <2> QED BY <1>7, <2>2, <2>3, <2>4
<1>16. CASE EndListedRun(p)
  <2>1. PICK r \in me[p].runs : me' = [me EXCEPT ![p].runs = @ \ {r}] BY <1>16 DEF EndListedRun
  <2> DEFINE v == [me[p] EXCEPT !.runs = me[p].runs \ {r}]
  <2>2. me' = [me EXCEPT ![p] = v] BY <2>1
  <2>3. v \in Actor /\ v.pc = "end" BY <1>0, <1>16 DEF EndListedRun, Actor
  <2>4. MayGo(p, "end") BY DEF MayGo
  <2> HIDE DEF v
  <2> QED BY <1>7, <2>2, <2>3, <2>4
<1> QED BY <1>3, <1>4, <1>5, <1>6, <1>8, <1>9, <1>10, <1>11, <1>12, <1>13, <1>14, <1>15, <1>16
        DEF ActorStep

\* The row writes of an actor, as steps of the table.  Nobody but the request itself
\* writes the row of its reservation.
LEMMA ActorTableStep ==
    ASSUME TypeInv, NoRowYet, NEW p \in Actors, ActorStep(p)
    PROVE  /\ row' = row \/ Table!Next
           /\ \A k \in Reserved \ {p} : row'[k] = row[k]
<1>0. row \in [Runs -> Table!Status] BY DEF TypeInv, TypeOK
<1>1. ASSUME NEW r, NEW l, Table!Set(r, l), r \notin Runs PROVE row' = row
  BY <1>0, <1>1 DEF Table!Set
<1>2. ASSUME NEW r \in Runs, NEW l \in {"queued", "succeeded", "canceled"}, Table!Set(r, l),
             row[r] = "requires_action", l = "queued" => Table!SlotFree(r)
      PROVE  Table!Next /\ \A k \in Reserved : row'[k] = row[k]
  <2>1. Table!RequeueAgentRunForResume(r) \/ Table!FinalizeAgentRun(r)
    BY <1>2 DEF Table!RequeueAgentRunForResume, Table!FinalizeAgentRun, Table!TerminalStatuses
  <2>2. Table!Next BY <2>1 DEF Table!Next
  <2>3. r \notin Reserved BY <1>2 DEF TypeInv, ReservedRows
  <2> QED BY <1>0, <1>2, <2>2, <2>3 DEF Table!Set
<1>3. ASSUME NEW r \in Runs, NEW l \in {"queued", "running"}, Table!Set(r, l), row[r] = "absent",
             Table!SlotFree(r)
      PROVE  Table!Next
  <2>1. Table!CreateAgentRun(r) BY <1>3 DEF Table!CreateAgentRun, Table!ACTIVE_STATUSES
  <2> QED BY <2>1 DEF Table!Next
<1>4. CASE Reserve(p)
  <2>1. CASE UNCHANGED row BY <2>1
  <2>2. CASE Table!SlotFree(p) /\ Table!Set(p, "running")
    <3>1. CASE p \in Runs
      <4>1. p \in Reserved /\ row[p] = "absent" BY <1>4, <3>1 DEF Reserve, NoRowYet, Early
      <4> QED BY <1>0, <1>3, <2>2, <3>1, <4>1 DEF Table!Set
    <3> QED BY <1>1, <2>2, <3>1
  <2> QED BY <1>4, <2>1, <2>2 DEF Reserve
<1>5. CASE QueueResume(p)
  <2>1. CASE UNCHANGED row BY <2>1
  <2>2. ASSUME NEW r \in Runs, IF me[p].found THEN r = raisedBy[me[p].cur] ELSE NewRun(r),
               ~(me[p].found /\ ~OwnerPaused(p)), Queued(p, r)
        PROVE  Table!Next /\ \A k \in Reserved : row'[k] = row[k]
    <3>1. CASE me[p].found BY <1>2, <2>2, <3>1 DEF Queued, OwnerPaused
    <3>2. CASE ~me[p].found
      <4>1. row[r] = "absent" /\ r \notin Reserved BY <2>2, <3>2 DEF NewRun
      <4> QED BY <1>0, <1>3, <2>2, <4>1 DEF Queued, Table!Set
    <3> QED BY <3>1, <3>2
  <2> QED BY <1>5, <2>1, <2>2 DEF QueueResume, Conflict
<1>6. CASE SettleOwner(p)
  <2>1. CASE UNCHANGED row BY <2>1
  <2>2. CASE OwnerPaused(p) /\ Table!Set(raisedBy[me[p].cur], "succeeded")
    BY <1>1, <1>2, <2>2 DEF OwnerPaused
  <2> QED BY <1>6, <2>1, <2>2 DEF SettleOwner
<1>7. CASE Release(p)
  <2>1. CASE UNCHANGED row BY <2>1
  <2>2. CASE Table!DeleteAgentRun(p)
    <3>1. CASE p \in Runs BY <1>0, <2>2, <3>1 DEF Table!Next, Table!DeleteAgentRun, Table!Set
    <3> QED BY <1>1, <2>2, <3>1 DEF Table!DeleteAgentRun
  <2> QED BY <1>7, <2>1, <2>2 DEF Release
<1>8. CASE CancelPausedRun(p) \/ EndListedRun(p)
  <2>1. CASE UNCHANGED row BY <2>1
  <2>2. ASSUME NEW r \in me[p].runs, EndRun(r), row' # row
        PROVE  Table!Next /\ \A k \in Reserved : row'[k] = row[k]
    <3>1. r \in Runs \ Reserved BY <2>2, EndRunType
    <3>2. row[r] \in {"running", "requires_action"} /\ Table!Set(r, "canceled") BY <2>2 DEF EndRun
    <3>3. Table!FinalizeAgentRun(r) BY <3>2 DEF Table!FinalizeAgentRun, Table!TerminalStatuses
    <3> QED BY <1>0, <3>1, <3>2, <3>3 DEF Table!Next, Table!Set
  <2> QED BY <1>8, <2>1, <2>2 DEF CancelPausedRun, EndListedRun
<1>9. CASE RecordAnswer(p) \/ WriteCopies(p) \/ ListOpen(p) \/ FindOwner(p) \/ UndoAnswer(p)
           \/ UndoCopies(p) \/ InlineTurnEnds(p) \/ ReopenAnswer(p) \/ Look(p) \/ MarkRunning(p)
           \/ HandleOne(p) \/ HandledAll(p) \/ SweepListsOpen(p) \/ DropPausedSnapshot(p)
           \/ SetIdle(p) \/ BeginMessageTurn(p) \/ MessageTurnEnds(p) \/ CallThrows(p)
           \/ ListPausedRuns(p) \/ EndedRuns(p)
  <2>1. row' = row
    BY <1>9 DEF RecordAnswer, WriteCopies, ListOpen, FindOwner, UndoAnswer, UndoCopies, InlineTurnEnds,
         ReopenAnswer, Look, MarkRunning, HandleOne, HandledAll, SweepListsOpen, DropPausedSnapshot,
         SetIdle, BeginMessageTurn, MessageTurnEnds, CallThrows, ListPausedRuns, EndedRuns
  <2> QED BY <2>1
<1> QED BY <1>4, <1>5, <1>6, <1>7, <1>8, <1>9 DEF ActorStep

\* The row writes of the background runs' workers, and of the reconciler for them.
LEMMA RunTableStep ==
    ASSUME TypeInv, NEW r \in Runs,
           StartFirstTurn \/ ClaimRun(r) \/ TurnStep(r) \/ FinalizeRun(r) \/ ResetRuntime(r) \/ LoseWorker(r)
    PROVE  /\ row' = row \/ Table!Next
           /\ \A k \in Reserved : row'[k] = row[k]
<1>0. row \in [Runs -> Table!Status] BY DEF TypeInv, TypeOK
<1>a. ASSUME NEW k \in Runs, NEW l, Table!Set(k, l), k \notin Reserved
      PROVE  \A q \in Reserved : row'[q] = row[q]
  BY <1>0, <1>a DEF Table!Set
<1>1. CASE StartFirstTurn
  <2>1. Table!CreateAgentRun(First)
    BY <1>1 DEF StartFirstTurn, Table!CreateAgentRun, Table!ACTIVE_STATUSES
  <2> QED BY <1>1, <1>a, <2>1 DEF StartFirstTurn, Table!Next
<1>2. CASE ClaimRun(r)
  <2>1. r \notin Reserved BY <1>2 DEF ClaimRun, Table!ClaimAgentRun, TypeInv, ReservedRows
  <2> QED BY <1>2, <1>a, <2>1 DEF ClaimRun, Table!ClaimAgentRun, Table!Next
<1>3. CASE TurnStep(r) \/ ResetRuntime(r)
  <2>1. row' = row
    BY <1>3 DEF TurnStep, LoadFindsNothing, LoadRefuses, Load, StoreTurn, FailTurn, Superseded,
         ResetRuntime
  <2> QED BY <2>1
<1>4. CASE FinalizeRun(r)
  <2>1. Table!FinalizeAgentRun(r)
    BY <1>4 DEF FinalizeRun, Table!FinalizeAgentRun, Table!TerminalStatuses
  <2> QED BY <1>4, <1>a, <2>1 DEF FinalizeRun, Table!Next
<1>5. CASE LoseWorker(r)
  <2>1. Table!FinalizeAgentRun(r)
    BY <1>5 DEF LoseWorker, Table!FinalizeAgentRun, Table!TerminalStatuses
  <2> QED BY <1>5, <1>a, <2>1 DEF LoseWorker, Table!Next
<1> QED BY <1>1, <1>2, <1>3, <1>4, <1>5

LEMMA NextTableStep ==
    ASSUME TypeInv, NoRowYet, [Next]_vars
    PROVE  NoRowYet' /\ [Table!Next]_row
<1>0. me \in [Actors -> Actor] BY DEF TypeInv, TypeOK
<1>1. ASSUME NEW p \in Actors, ActorStep(p) PROVE NoRowYet' /\ [Table!Next]_row
  BY <1>1, GoesOn, ActorTableStep DEF NoRowYet, Early, MayGo
<1>2. ASSUME NEW r \in Runs,
             StartFirstTurn \/ ClaimRun(r) \/ TurnStep(r) \/ FinalizeRun(r) \/ ResetRuntime(r) \/ LoseWorker(r)
      PROVE  NoRowYet' /\ [Table!Next]_row
  <2>1. me' = me
    BY <1>2 DEF StartFirstTurn, ClaimRun, TurnStep, FinalizeRun, ResetRuntime, LoseWorker,
         LoadFindsNothing, LoadRefuses, Load, StoreTurn, FailTurn, Superseded
  <2> QED BY <1>2, <2>1, RunTableStep DEF NoRowYet, Early
<1>3. ASSUME NEW c \in Cancelers, BeginCancel(c) PROVE NoRowYet' /\ [Table!Next]_row
  <2>1. \A k \in Reserved : me'[k] = me[k] BY <1>0, <1>3 DEF BeginCancel
  <2> QED BY <1>3, <2>1 DEF BeginCancel, NoRowYet, Early
<1>4. ASSUME NEW p \in Actors, me[p].pc = "idle", \A k \in Actors : k # p => me'[k] = me[k], row' = row
      PROVE  NoRowYet' /\ [Table!Next]_row
  BY <1>4 DEF NoRowYet, Early
<1>5. ASSUME NEW p \in Answerers, BeginAnswer(p) PROVE NoRowYet' /\ [Table!Next]_row
  <2>1. \A k \in Actors : k # p => me'[k] = me[k] BY <1>0, <1>5 DEF BeginAnswer
  <2> QED BY <1>4, <1>5, <2>1 DEF BeginAnswer
<1>6. ASSUME NEW s \in Sweepers, SweepLists(s) PROVE NoRowYet' /\ [Table!Next]_row
  <2>1. \A k \in Actors : k # s => me'[k] = me[k] BY <1>0, <1>6 DEF SweepLists
  <2> QED BY <1>4, <1>6, <2>1 DEF SweepLists
<1>7. ASSUME NEW m \in Messages, BeginMessage(m) PROVE NoRowYet' /\ [Table!Next]_row
  <2>1. \A k \in Actors : k # m => me'[k] = me[k] BY <1>0, <1>7 DEF BeginMessage, Goto
  <2> QED BY <1>4, <1>7, <2>1 DEF BeginMessage
<1>8. ASSUME NEW a \in Actions, ExpiryPasses(a) PROVE NoRowYet' /\ [Table!Next]_row
  BY <1>8 DEF ExpiryPasses, NoRowYet, Early
<1>9. CASE UNCHANGED vars BY <1>9 DEF vars, NoRowYet, Early
<1>10. First \in Runs OBVIOUS
<1> QED BY <1>1, <1>2, <1>3, <1>5, <1>6, <1>7, <1>8, <1>9, <1>10 DEF Next

\* However answers, sweeps, messages, cancels and workers interleave, they write the rows of
\* a conversation as the run table allows: a continuation or a reservation becomes active only
\* while nothing else is, and what ended stays ended.
THEOREM PendingImplementsRunTable == Spec => ImplementsRunTable
<1>1. Init => Table!Init /\ NoRowYet BY DEF Init, Table!Init, NoRowYet
<1>2. TypeInv /\ NoRowYet /\ [Next]_vars => NoRowYet' /\ [Table!Next]_row BY NextTableStep
<1> QED BY <1>1, <1>2, InitTypeInv, NextTypeInv, PTL DEF Spec, ImplementsRunTable, Table!Spec

-----------------------------------------------------------------------------
(***************************************************************************)
(* The answers a turn applies.  Two operations take an answer back.        *)
(* reopenAnsweredActions does it while its request still holds the slot,   *)
(* after its own turn was refused, so no turn is under way.                *)
(* undoResolution does it when another one holds the slot: without an      *)
(* answer in the background nobody comes there.                            *)
(***************************************************************************)
NobodyUndoes ==
    \A p \in Actors : /\ me[p].pc \in {"find", "queue"} => p \in Sweepers
                      /\ me[p].pc # "undo"
                      /\ me[p].pc = "reopen" => p \in Inline

LEMMA NextNobodyUndoes ==
    ASSUME Background = {}, TypeInv, NobodyUndoes, [Next]_vars
    PROVE  NobodyUndoes'
<1>0. me \in [Actors -> Actor] BY DEF TypeInv, TypeOK
<1>1. ASSUME NEW p \in Actors, ActorStep(p) PROVE NobodyUndoes'
  BY <1>1, GoesOn DEF NobodyUndoes, MayGo
<1>2. ASSUME me' = me PROVE NobodyUndoes'
  BY <1>2 DEF NobodyUndoes
<1>3. ASSUME NEW r \in Runs,
             StartFirstTurn \/ ClaimRun(r) \/ TurnStep(r) \/ FinalizeRun(r) \/ ResetRuntime(r) \/ LoseWorker(r)
      PROVE  me' = me
  BY <1>3 DEF StartFirstTurn, ClaimRun, TurnStep, FinalizeRun, ResetRuntime, LoseWorker,
         LoadFindsNothing, LoadRefuses, Load, StoreTurn, FailTurn, Superseded
<1>4. ASSUME NEW p \in Actors, NEW v, me' = [me EXCEPT ![p] = v], v.pc \in {"reserve", "record", "look", "cancel"}
      PROVE  NobodyUndoes'
  BY <1>0, <1>4 DEF NobodyUndoes
<1>5. ASSUME NEW p \in Answerers, BeginAnswer(p) PROVE NobodyUndoes'
  <2>1. PICK a \in Open \ due :
          me' = [me EXCEPT ![p] = [At(IF p \in Inline THEN "reserve" ELSE "record")
                                     EXCEPT !.cur = a, !.seen = msgs]]
    BY <1>5 DEF BeginAnswer
  <2>2. [At(IF p \in Inline THEN "reserve" ELSE "record") EXCEPT !.cur = a, !.seen = msgs].pc
          \in {"reserve", "record"}
    BY DEF At
  <2> QED BY <1>4, <2>1, <2>2
<1>6. ASSUME NEW p \in Sweepers, SweepLists(p) PROVE NobodyUndoes'
  <2>1. PICK a \in Open \cap due :
          me' = [me EXCEPT ![p] = [At("look") EXCEPT !.cur = a, !.todo = Open \cap due]]
    BY <1>6 DEF SweepLists
  <2>2. [At("look") EXCEPT !.cur = a, !.todo = Open \cap due].pc = "look" BY DEF At
  <2> QED BY <1>4, <2>1, <2>2
<1>11. ASSUME NEW p \in Cancelers, BeginCancel(p) PROVE NobodyUndoes'
  <2>1. PICK r \in Runs : me' = [me EXCEPT ![p] = [At("cancel") EXCEPT !.runs = {r}]]
    BY <1>11 DEF BeginCancel
  <2>2. [At("cancel") EXCEPT !.runs = {r}].pc = "cancel" BY DEF At
  <2> QED BY <1>4, <2>1, <2>2
<1>7. ASSUME NEW p \in Messages, BeginMessage(p) PROVE NobodyUndoes'
  <2>1. Goto(p, "reserve") BY <1>7 DEF BeginMessage
  <2>2. me'[p].pc = "reserve" /\ \A k \in Actors : k # p => me'[k] = me[k]
    BY <1>0, <2>1 DEF Goto, Actor
  <2> QED BY <2>2 DEF NobodyUndoes
<1>8. ASSUME NEW a \in Actions, ExpiryPasses(a) PROVE me' = me
  BY <1>8 DEF ExpiryPasses
<1>9. CASE UNCHANGED vars BY <1>2, <1>9 DEF vars
<1>10. First \in Runs OBVIOUS
<1> QED BY <1>1, <1>2, <1>3, <1>5, <1>6, <1>7, <1>8, <1>9, <1>10, <1>11 DEF Next

\* An answer is not taken back while a turn is under way, and a turn begins with answers.
LEMMA NextApplied ==
    ASSUME AppliedInv, NobodyUndoes, AppliedStaysAnswered, [Next]_vars
    PROVE  AppliedStaysAnswered'
<1>0. /\ turn \in [Runs -> Turn] /\ act \in [Actions -> ActionStatus] /\ me \in [Actors -> Actor]
  BY DEF AppliedInv, TypeInv, TypeOK
<1>1. ASSUME Answered \subseteq Answered', \A r \in Runs : turn'[r].using \subseteq turn[r].using
      PROVE  AppliedStaysAnswered'
  BY <1>1 DEF AppliedStaysAnswered
<1>2. ASSUME NEW r \in Runs, NEW l, Step(r, l) \/ Ends(r, l)
      PROVE  \A k \in Runs : turn'[k].using \subseteq turn[k].using
  <2>1. \A k \in Runs : k # r => turn'[k] = turn[k] BY <1>0, <1>2 DEF Step, Ends
  <2>2. turn'[r].using \in {{}, turn[r].using} BY <1>0, <1>2 DEF Step, Ends, NoTurn, Turn
  <2> QED BY <2>1, <2>2
<1>3. ASSUME act' = act PROVE Answered' = Answered
  BY <1>3 DEF Answered
<1>4. ASSUME NEW a, NEW l, Cas(a, "pending", l) PROVE Answered \subseteq Answered'
  BY <1>0, <1>4 DEF Cas, Answered
<1>5. ASSUME NEW r \in Runs,
             StartFirstTurn \/ ClaimRun(r) \/ TurnStep(r) \/ FinalizeRun(r) \/ ResetRuntime(r) \/ LoseWorker(r)
      PROVE  AppliedStaysAnswered'
  <2>1. CASE StartFirstTurn BY <1>1, <1>2, <1>3, <2>1 DEF StartFirstTurn
  <2>2. CASE ClaimRun(r) \/ FinalizeRun(r) \/ ResetRuntime(r)
    BY <1>1, <1>2, <1>3, <2>2 DEF ClaimRun, FinalizeRun, ResetRuntime
  <2>3. CASE LoadFindsNothing(r) \/ LoadRefuses(r) \/ Superseded(r)
    BY <1>1, <1>2, <1>3, <2>3 DEF LoadFindsNothing, LoadRefuses, Superseded
  <2>4. CASE Load(r)
    <3>1. turn'[r].using = snapshot /\ \A k \in Runs : k # r => turn'[k] = turn[k]
      BY <1>0, <2>4 DEF Load
    <3>2. snapshot \subseteq Answered /\ Answered' = Answered BY <1>3, <2>4 DEF Load
    <3> QED BY <3>1, <3>2 DEF AppliedStaysAnswered
  <2>5. ASSUME NEW asked, NEW last, StoresUpTo(r, asked, last), NEW l, Ends(r, l)
        PROVE  AppliedStaysAnswered'
    <3>1. turn'[r].using = {} /\ \A k \in Runs : k # r => turn'[k] = turn[k]
      BY <1>0, <2>5 DEF Ends, NoTurn
    <3>2. Busy(r) BY <2>5 DEF StoresUpTo
    <3>3. \A k \in Runs : k # r => turn[k].using = {} BY <3>2, OneTurn
    <3> QED BY <3>1, <3>3 DEF AppliedStaysAnswered
  <2>6. CASE StoreTurn(r) \/ FailTurn(r) BY <2>5, <2>6 DEF StoreTurn, FailTurn
  <2>7. CASE LoseWorker(r)
    <3>1. CASE act' = act BY <1>1, <1>2, <1>3, <2>7, <3>1 DEF LoseWorker
    <3> QED BY <2>5, <2>7, <3>1 DEF LoseWorker
  <2> QED BY <1>5, <2>1, <2>2, <2>3, <2>4, <2>6, <2>7 DEF TurnStep
<1>6. ASSUME NEW p \in Actors, ActorStep(p) PROVE AppliedStaysAnswered'
  <2>1. CASE RecordAnswer(p) \/ HandleOne(p)
    BY <1>1, <1>4, <2>1 DEF RecordAnswer, HandleOne
  <2>2. CASE UndoAnswer(p) BY <2>2 DEF UndoAnswer, NobodyUndoes
  <2>3. CASE ReopenAnswer(p)
    <3>1. me[p].pc = "reopen" /\ p \in Inline BY <2>3 DEF ReopenAnswer, NobodyUndoes
    <3>2. row[p] = "running" /\ ~Busy(p)
      BY <3>1 DEF AppliedInv, HoldsSlot, Inside, TypeInv, TurnInRequest
    <3>3. \A r \in Runs : ~Busy(r)
      BY <3>1, <3>2 DEF AppliedInv, BusyIsRunning, OneSlot, Table!ACTIVE_STATUSES
    <3>4. \A r \in Runs : turn[r].using = {} BY <3>3 DEF AppliedInv, UsingIsInvoke
    <3> QED BY <2>3, <3>4 DEF ReopenAnswer, AppliedStaysAnswered
  <2>4. CASE ListOpen(p)
    <3>1. CASE p \in Inline /\ Step(p, "load") BY <1>1, <1>2, <1>3, <2>4, <3>1 DEF ListOpen
    <3>2. CASE turn' = turn BY <1>1, <1>3, <2>4, <3>2 DEF ListOpen
    <3> QED BY <2>4, <3>1, <3>2 DEF ListOpen
  <2>5. CASE BeginMessageTurn(p)
    <3>1. \A k \in Runs : turn'[k].using \subseteq turn[k].using BY <1>0, <2>5 DEF BeginMessageTurn
    <3> QED BY <1>1, <1>3, <2>5, <3>1 DEF BeginMessageTurn
  <2>6. CASE Reserve(p) \/ WriteCopies(p) \/ FindOwner(p) \/ QueueResume(p) \/ UndoCopies(p)
             \/ InlineTurnEnds(p) \/ SettleOwner(p) \/ Release(p) \/ Look(p) \/ MarkRunning(p)
             \/ HandledAll(p) \/ SweepListsOpen(p) \/ DropPausedSnapshot(p) \/ SetIdle(p)
             \/ CallThrows(p) \/ CancelPausedRun(p) \/ ListPausedRuns(p) \/ EndListedRun(p)
             \/ EndedRuns(p) \/ MessageTurnEnds(p)
    <3>1. act' = act /\ turn' = turn
      BY <2>6 DEF Reserve, WriteCopies, FindOwner, QueueResume, UndoCopies, InlineTurnEnds, SettleOwner,
           Release, Look, MarkRunning, HandledAll, SweepListsOpen, DropPausedSnapshot, SetIdle,
           CallThrows, CancelPausedRun, ListPausedRuns, EndListedRun, EndedRuns, MessageTurnEnds
    <3> QED BY <1>1, <1>3, <3>1
  <2> QED BY <1>6, <2>1, <2>2, <2>3, <2>4, <2>5, <2>6 DEF ActorStep
<1>7. ASSUME act' = act, turn' = turn PROVE AppliedStaysAnswered'
  BY <1>1, <1>3, <1>7
<1>8. ASSUME NEW p \in Actors, BeginAnswer(p) \/ SweepLists(p) \/ BeginMessage(p) \/ BeginCancel(p)
      PROVE  act' = act /\ turn' = turn
  BY <1>8 DEF BeginAnswer, SweepLists, BeginMessage, BeginCancel
<1>9. ASSUME NEW a \in Actions, ExpiryPasses(a) PROVE act' = act /\ turn' = turn
  BY <1>9 DEF ExpiryPasses
<1>10. CASE UNCHANGED vars BY <1>7, <1>10 DEF vars
<1>11. First \in Runs OBVIOUS
<1> QED BY <1>5, <1>6, <1>7, <1>8, <1>9, <1>10, <1>11 DEF Next

\* "Once the SDK invoke starts, the approval is spent": where all answers are given inline,
\* no answer is taken back under the turn that applies it, by whichever sweep, message,
\* refusal, failure or death; unless a cancel has ended a run under its turn, which lets
\* a second turn begin beside it.  The answer in the background is the other exception.
THEOREM InlineAnswersStayAnswered ==
    ASSUME Background = {} PROVE Spec => [](Overtaken \/ AppliedStaysAnswered)
<1>1. Init => NobodyUndoes /\ AppliedStaysAnswered
  <2> SUFFICES ASSUME Init PROVE NobodyUndoes /\ AppliedStaysAnswered OBVIOUS
  <2>1. \A p \in Actors : me[p].pc = "idle" BY AtType DEF Init
  <2>2. \A r \in Runs : turn[r].using = {} BY DEF Init, NoTurn
  <2> QED BY <2>1, <2>2 DEF NobodyUndoes, AppliedStaysAnswered
<1>2. TypeInv /\ NobodyUndoes /\ [Next]_vars => NobodyUndoes' BY NextNobodyUndoes
<1>3. AppliedInv /\ NobodyUndoes /\ AppliedStaysAnswered /\ [Next]_vars => AppliedStaysAnswered'
  BY NextApplied
<1>4. Overtaken /\ [Next]_vars => Overtaken' BY LapsesStay
<1> QED BY <1>1, <1>2, <1>3, <1>4, InitTypeInv, NextTypeInv, InitAppliedInv, NextAppliedInv, PTL DEF Spec

=============================================================================
