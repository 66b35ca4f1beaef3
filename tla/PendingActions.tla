--------------------------- MODULE PendingActions ---------------------------
(***************************************************************************)
(* The requests a paused turn waits on, and everyone who ends the wait     *)
(* (src/src/lib/services/agents/agentActionResolution.ts,                  *)
(* agentPendingActions.ts, and the continuation in agentService.ts):       *)
(* people who answer, in the background or inline, the timeout sweep of    *)
(* every node, a new message, and the cancel of the paused run.            *)
(*                                                                         *)
(* One conversation.  Its run rows are the table of module RunTable, whose *)
(* steps the actions below take; an inline continuation and a new message  *)
(* hold the conversation's slot by a row of their own, named like the      *)
(* request.  Each action is one database call, or a few of them that are   *)
(* made one after the other; a request that answers does so once.          *)
(***************************************************************************)
EXTENDS Naturals, Sequences

CONSTANTS
    Actions,        \* ids of pending actions
    Pauses,         \* Pauses[k]: the actions the k-th pause raises; bounds the pauses
    ClientTools,    \* the actions of kind client_tool
    Inline,         \* requests that answer with mode "sync"
    Background,     \* requests that answer with mode "background"
    Sweepers,       \* the nodes' reconcilers, as far as they sweep timed-out actions
    Messages,       \* new messages of the conversation
    Cancelers,      \* calls of cancelAgentRun on the paused run
    First,          \* the run whose turn pauses first
    Extra,          \* numbers: the runs queueAgentRunResume may create; bounds them
    OnTimeout,      \* hitl.onTimeout: "deny" or "cancel"
    OnMessage,      \* hitl.onUserMessageWhilePending: "reject" or "cancel_pending"
    MaxFaults,      \* bounds the calls, turns and workers that fail
    None

Answerers == Inline \cup Background
Actors == Answerers \cup Sweepers \cup Messages \cup Cancelers
Runs == {First} \cup Extra \cup Inline \cup Messages

ASSUME NamesAssumption ==
    /\ Extra \subseteq Nat /\ MaxFaults \in Nat
    /\ None \notin Runs \cup Actions
    /\ Answerers \cap (Sweepers \cup Messages \cup Cancelers) = {}
    /\ Sweepers \cap (Messages \cup Cancelers) = {}
    /\ Inline \cap Background = {} /\ Messages \cap Cancelers = {}
    /\ ({First} \cup Extra) \cap Actors = {}

\* A pause asks for something, and the ids of its requests are new (openPause makes them).
ASSUME FreshRequests ==
    /\ Pauses \in Seq((SUBSET Actions) \ {{}})
    /\ \A j, k \in 1..Len(Pauses) : j # k => Pauses[j] \cap Pauses[k] = {}

VARIABLES
    act,        \* act[a]: the row's status
    raisedBy,   \* raisedBy[a]: its runId
    due,        \* the actions whose expiresAt has passed
    snapshot,   \* the requests of the stored pausedSnapshot, {} when there is none
    runtime,    \* the conversation's runtimeStatus
    msgs,       \* how many messages the conversation has
    row,        \* the agent-run rows
    paused,     \* pauses so far
    me,         \* me[p]: where actor p is, and its locals
    turn,       \* turn[r]: where the turn of run r is, and its locals
    spent,      \* the requests a stored turn has applied
    owner,      \* the turn that may write its end to the session (runtimeTurnId)
    faults,     \* how many calls, turns and workers have failed
    lapses      \* what has gone wrong that nobody makes up for: "unqueued", answers are
                \* recorded and the continuation was not queued; "lost", its worker died
                \* before the session said running; "unended", the end of a paused run
                \* failed; "overtaken", one that was read as paused ended under its turn;
                \* "unsaved", a turn's message is stored and its state is not;
                \* "unmarked", a stored turn's end is not in the session

pauseVars == <<raisedBy, due, snapshot, paused>>
session == <<runtime, owner>>
mishaps == <<faults, lapses>>
vars == <<act, pauseVars, session, msgs, row, me, turn, spent, mishaps>>

Table == INSTANCE RunTable WITH Convs <- {First}, ConvOf <- [r \in Runs |-> First]

ActionStatus == {"none", "pending", "resolved", "expired", "cancelled"}

\* cur: the action p answers, or the first one the sweep found due; todo: the actions p
\* has listed and not handled yet; seen: the messages of the conversation p has read;
\* found: did p find the run that owns the pause, or the session waiting; hit: what p's
\* compare-and-sets have done; runs: the runs p has read as paused and means to end
Actor == [pc : {"idle", "reserve", "record", "copy", "open", "find", "queue", "undo", "undoCopy",
                "turn", "settle", "reopen", "release", "cancel", "look", "mark", "each", "drop",
                "unpause", "close", "end", "invoke", "done"},
          cur : Actions \cup {None}, todo : SUBSET Actions, seen : Nat, found : BOOLEAN,
          hit : {"none", "closed", "resolved"}, runs : SUBSET Runs]
At(l) == [pc |-> l, cur |-> None, todo |-> {}, seen |-> 0, found |-> FALSE, hit |-> "none",
          runs |-> {}]

\* using: the requests whose answers the turn applies; base: the messages it has loaded
Turn == [at : {"none", "load", "invoke", "completed", "paused", "aborted", "refused", "failed",
               "reset"},
         using : SUBSET Actions, base : Nat]
NoTurn == [at |-> "none", using |-> {}, base |-> 0]

TypeOK ==
    /\ act \in [Actions -> ActionStatus] /\ raisedBy \in [Actions -> Runs \cup {None}]
    /\ due \subseteq Actions /\ snapshot \subseteq Actions /\ spent \subseteq Actions
    /\ runtime \in {"idle", "running", "requires_action"}
    /\ msgs \in Nat /\ paused \in 0..Len(Pauses) /\ faults \in 0..MaxFaults
    /\ row \in [Runs -> Table!Status] /\ owner \in Runs \cup {None}
    /\ lapses \subseteq {"unqueued", "lost", "unended", "overtaken", "unsaved", "unmarked"}
    /\ me \in [Actors -> Actor] /\ turn \in [Runs -> Turn]

Open == {a \in Actions : act[a] = "pending"}
Answered == {a \in Actions : act[a] = "resolved"}
Fails == faults < MaxFaults /\ faults' = faults + 1
Goto(p, l) == me' = [me EXCEPT ![p].pc = l]
Done(p) == me' = [me EXCEPT ![p] = At("done")]

\* updateAgentPendingAction: the compare-and-set of a row
Cas(a, from, to) == act' = IF act[a] = from THEN [act EXCEPT ![a] = to] ELSE act

Init ==
    /\ act = [a \in Actions |-> "none"] /\ raisedBy = [a \in Actions |-> None]
    /\ due = {} /\ snapshot = {} /\ spent = {}
    /\ runtime = "idle" /\ msgs = 0 /\ paused = 0 /\ owner = None
    /\ faults = 0 /\ lapses = {}
    /\ row = [r \in Runs |-> "absent"]
    /\ me = [p \in Actors |-> At("idle")] /\ turn = [r \in Runs |-> NoTurn]

-----------------------------------------------------------------------------
(***************************************************************************)
(* The turn of run r                                                       *)
(***************************************************************************)

Step(r, l) == turn' = [turn EXCEPT ![r].at = l]
Ends(r, l) == turn' = [turn EXCEPT ![r] = [NoTurn EXCEPT !.at = l]]

\* The first turn of the conversation starts; it is taken to pause.
StartFirstTurn ==
    /\ row[First] = "absent" /\ Table!SlotFree(First) /\ Table!Set(First, "running")
    /\ Step(First, "invoke")
    /\ runtime' = "running" /\ owner' = First
    /\ UNCHANGED <<act, pauseVars, msgs, me, spent, mishaps>>

\* The worker claims a queued continuation.
ClaimRun(r) ==
    /\ Table!ClaimAgentRun(r)
    /\ Step(r, "load")
    /\ UNCHANGED <<act, pauseVars, session, msgs, me, spent, mishaps>>

\* loadPausedRun: there is no stored pause; the session is not waiting any more
LoadFindsNothing(r) ==
    /\ turn[r].at = "load" /\ snapshot = {}
    /\ runtime' = "idle"
    /\ Ends(r, "failed")
    /\ UNCHANGED <<act, pauseVars, owner, msgs, row, me, spent, mishaps>>

\* A request is not answered; or, though all are, the turn is refused before its model
\* call (a spend limit, a missing model), the session marked running already or not.
LoadRefuses(r) ==
    /\ turn[r].at = "load" /\ snapshot # {}
    /\ IF snapshot \subseteq Answered
         THEN Fails /\ (UNCHANGED session \/ (runtime' = "idle" /\ owner' = r))
         ELSE UNCHANGED <<session, faults>>
    /\ Ends(r, "refused")
    /\ UNCHANGED <<act, pauseVars, msgs, row, me, spent, lapses>>

\* Every request is answered: the answers go into the state and the model is called.
Load(r) ==
    /\ turn[r].at = "load" /\ snapshot # {} /\ snapshot \subseteq Answered
    /\ turn' = [turn EXCEPT ![r] = [at |-> "invoke", using |-> snapshot, base |-> msgs]]
    /\ runtime' = "running" /\ owner' = r
    /\ UNCHANGED <<act, pauseVars, msgs, row, me, spent, mishaps>>

\* The run a turn's requests are raised by.  An inline continuation is that of the run it
\* found paused.
RunOf(r) ==
    CASE r \in Inline -> IF me[r].found THEN raisedBy[me[r].cur] ELSE None
      [] r \in Messages -> None
      [] OTHER -> r

\* What the turn of r may ask for at its end: the next pause's requests, or nothing.  The
\* first turn is taken to pause.
MayAsk(asked) ==
    IF asked = {} THEN paused > 0 ELSE paused < Len(Pauses) /\ asked = Pauses[paused + 1]

\* openPause inserts the requests.
OpenPause(r, asked) ==
    /\ act' = [a \in Actions |-> IF a \in asked THEN "pending" ELSE act[a]]
    /\ raisedBy' = [a \in Actions |-> IF a \in asked THEN RunOf(r) ELSE raisedBy[a]]
    /\ paused' = IF asked = {} THEN paused ELSE paused + 1

\* The turn's message is appended to those it has loaded; the answers it applied are spent.
AppendMessages(r) == msgs' = turn[r].base + 1 /\ spent' = spent \cup turn[r].using

\* (a bug) a save without a pause leaves the stored one in place
SaveKeepsPause(asked) == snapshot' = IF asked = {} THEN snapshot ELSE asked

\* saveConversationState: with the new pause, or without one, which unsets an earlier one
SaveState(asked) == snapshot' = asked

\* How far the calls that store a turn get: the requests, the messages, the state.
Calls == {"none", "requests", "messages", "state"}
StoresUpTo(r, asked, last) ==
    /\ turn[r].at = "invoke" /\ MayAsk(asked)
    /\ IF last = "none" THEN UNCHANGED <<act, raisedBy, paused>> ELSE OpenPause(r, asked)
    /\ IF last \in {"messages", "state"} THEN AppendMessages(r) ELSE UNCHANGED <<msgs, spent>>
    /\ IF last = "state" THEN SaveState(asked) ELSE UNCHANGED snapshot

\* settle of the turn's events: the end goes into the session only while the turn owns it.
WriteEnd(r, status) == runtime' = (IF owner = r THEN status ELSE runtime) /\ UNCHANGED owner

\* The turn is stored and ends.  A failure to save the state, or to write the session's
\* status, is swallowed.
StoreTurn(r) ==
    /\ \E asked \in SUBSET Actions :
         /\ \/ StoresUpTo(r, asked, "state") /\ UNCHANGED mishaps
               /\ WriteEnd(r, IF asked = {} THEN "idle" ELSE "requires_action")
            \/ StoresUpTo(r, asked, "messages") /\ Fails /\ lapses' = lapses \cup {"unsaved"}
               /\ WriteEnd(r, IF asked = {} THEN "idle" ELSE "requires_action")
            \/ StoresUpTo(r, asked, "state") /\ Fails /\ lapses' = lapses \cup {"unmarked"}
               /\ UNCHANGED session
         /\ Ends(r, IF asked = {} THEN "completed" ELSE "paused")
    /\ UNCHANGED <<due, row, me>>

\* The model call, or one of the calls that store the turn, throws, or the request that
\* waits for the turn is aborted.
FailTurn(r) ==
    /\ Fails
    /\ \E asked \in SUBSET Actions : \E last \in {"none", "requests"} :
         /\ StoresUpTo(r, asked, last)
         /\ \/ Ends(r, "failed")
            \/ r \in Inline /\ last = "none" /\ Ends(r, "aborted")
    /\ WriteEnd(r, "idle")
    /\ UNCHANGED <<due, row, me, lapses>>

\* The worker sees that the row was ended under its turn: nothing is stored.
Superseded(r) ==
    /\ turn[r].at = "invoke" /\ row[r] # "running"
    /\ Ends(r, "none")
    /\ WriteEnd(r, "idle")
    /\ UNCHANGED <<act, pauseVars, msgs, row, me, spent, mishaps>>

\* The worker of a background run dies, between any two of its calls, and the reconciler
\* ends the run; of the session it resets only one that says running.
LoseWorker(r) ==
    /\ Fails /\ r \notin Inline \cup Messages
    /\ row[r] = "running" /\ Table!Set(r, "failed")
    /\ \/ \E asked \in SUBSET Actions : \E last \in Calls :
            /\ StoresUpTo(r, asked, last)
            /\ lapses' = IF last = "messages" THEN lapses \cup {"unsaved"} ELSE lapses
       \/ /\ turn[r].at # "invoke"
          /\ lapses' = IF turn[r].at \in {"load", "refused"} THEN lapses \cup {"lost"} ELSE lapses
          /\ UNCHANGED <<act, raisedBy, paused, msgs, spent, snapshot>>
    /\ Ends(r, "none")
    /\ IF runtime = "running" THEN runtime' = "idle" /\ owner' = None ELSE UNCHANGED session
    /\ UNCHANGED <<due, me>>

\* The worker of a background run records how the turn ended, if the run is still its own.
FinalizeRun(r) ==
    /\ r \notin Inline \cup Messages
    /\ row[r] \in {"running", "requires_action"}
    /\ \/ turn[r].at = "completed" /\ Table!Set(r, "succeeded") /\ Step(r, "none")
       \/ turn[r].at = "paused" /\ Table!Set(r, "requires_action") /\ Step(r, "none")
       \/ turn[r].at \in {"refused", "failed"} /\ Table!Set(r, "failed") /\ Step(r, "reset")
    /\ UNCHANGED <<act, pauseVars, session, msgs, me, spent, mishaps>>

\* "A continuation that died leaves the conversation marked as waiting"
ResetRuntime(r) ==
    /\ turn[r].at = "reset"
    /\ runtime' = "idle"
    /\ Step(r, "none")
    /\ UNCHANGED <<act, pauseVars, owner, msgs, row, me, spent, mishaps>>

-----------------------------------------------------------------------------
(***************************************************************************)
(* resolveAgentPendingAction: request p answers an action                  *)
(***************************************************************************)

\* The action is open and not out of time; the conversation is read.
BeginAnswer(p) ==
    /\ me[p].pc = "idle"
    /\ \E a \in Open \ due :
          me' = [me EXCEPT ![p] = [At(IF p \in Inline THEN "reserve" ELSE "record")
                                     EXCEPT !.cur = a, !.seen = msgs]]
    /\ UNCHANGED <<act, pauseVars, session, msgs, row, turn, spent, mishaps>>

\* reserveConversationForSyncTurn, for an answer or for a new message
Reserve(p) ==
    /\ me[p].pc = "reserve"
    /\ IF Table!SlotFree(p)
         THEN Table!Set(p, "running") /\ Goto(p, IF p \in Messages THEN "look" ELSE "record")
         ELSE Done(p) /\ UNCHANGED row
    /\ UNCHANGED <<act, pauseVars, session, msgs, turn, spent, mishaps>>

RecordAnswer(p) ==
    /\ me[p].pc = "record"
    /\ Cas(me[p].cur, "pending", "resolved")
    /\ Goto(p, IF act[me[p].cur] = "pending" THEN "copy" ELSE "release")
    /\ UNCHANGED <<pauseVars, session, msgs, row, turn, spent, mishaps>>

\* The message copies of what p changed are written into the messages p has read.
WriteCopies(p) ==
    /\ me[p].pc = "copy"
    /\ msgs' = me[p].seen
    /\ Goto(p, IF p \in Messages \cup Cancelers THEN "drop" ELSE "open")
    /\ UNCHANGED <<act, pauseVars, session, row, turn, spent, mishaps>>

\* findPausedOwnerRun
OwnerPaused(p) ==
    LET r == raisedBy[me[p].cur] IN r # None /\ row[r] = "requires_action"

\* Nothing may be open any more before the turn goes on.
ListOpen(p) ==
    /\ me[p].pc = "open" /\ p \in Answerers
    /\ me' = [me EXCEPT ![p].found = OwnerPaused(p),
                        ![p].pc = IF Open # {} THEN "release"
                                  ELSE IF p \in Inline THEN "turn" ELSE "find"]
    /\ IF p \in Inline /\ Open = {} THEN Step(p, "load") ELSE UNCHANGED turn
    /\ UNCHANGED <<act, pauseVars, session, msgs, row, spent, mishaps>>

\* queueAgentRunResume, called by an answer in the background and by the sweep:
\* findPausedOwnerRun, then requeueAgentRunForResume, else createAgentRun
FindOwner(p) ==
    /\ me[p].pc = "find"
    /\ me' = [me EXCEPT ![p].found = OwnerPaused(p), ![p].pc = "queue"]
    /\ UNCHANGED <<act, pauseVars, session, msgs, row, turn, spent, mishaps>>

\* The sweep takes up the next conversation; a request answers its caller.
Leave(p) == me' = [me EXCEPT ![p] = At(IF p \in Sweepers THEN "idle" ELSE "done")]

\* (a bug) a row is queued beside an active one
QueuedBesideActive(p, r) == Table!Set(r, "queued") /\ Leave(p) /\ UNCHANGED lapses

Queued(p, r) == Table!SlotFree(r) /\ Table!Set(r, "queued") /\ Leave(p) /\ UNCHANGED lapses

\* (a bug) the answer stands although nothing continues the turn
ConflictKeepsAnswer(p, r) ==
    /\ ~Table!SlotFree(r)
    /\ Leave(p)
    /\ lapses' = IF p \in Sweepers THEN lapses \cup {"unqueued"} ELSE lapses
    /\ UNCHANGED row

\* The conversation is busy: an answer is taken back, the sweep only writes a log line.
Conflict(p, r) ==
    /\ ~Table!SlotFree(r)
    /\ IF p \in Sweepers THEN Leave(p) ELSE Goto(p, "undo")
    /\ lapses' = IF p \in Sweepers THEN lapses \cup {"unqueued"} ELSE lapses
    /\ UNCHANGED row

\* The number of the next run that is created.
NewRun(n) == n \in Extra /\ row[n] = "absent" /\ \A k \in Extra : k < n => row[k] # "absent"

QueueResume(p) ==
    /\ me[p].pc = "queue"
    /\ IF me[p].found /\ ~OwnerPaused(p)
         THEN me' = [me EXCEPT ![p].found = FALSE] /\ UNCHANGED <<row, lapses>>
         ELSE \E r \in Runs :
                /\ IF me[p].found THEN r = raisedBy[me[p].cur] ELSE NewRun(r)
                /\ Queued(p, r) \/ Conflict(p, r)
    /\ UNCHANGED <<act, pauseVars, session, msgs, turn, spent, faults>>

\* A call throws after an answer was recorded and before its continuation is queued
\* (assertAgentsEnabled of queueAgentRunResume, or any call that fails): only a conflict
\* takes the answer back, a request releases what it holds, the sweep writes a log line.
\* The sweep may also be cut short after it has dropped the pause.
CallThrows(p) ==
    /\ Fails
    /\ \/ /\ p \in Answerers \cup Sweepers /\ me[p].pc \in {"copy", "open", "find", "queue"}
          /\ lapses' = lapses \cup {"unqueued"}
       \/ /\ p \in Sweepers /\ me[p].pc \in {"unpause", "close"}
          /\ lapses' = lapses \cup {"unended"}
    /\ IF p \in Sweepers THEN Leave(p) ELSE Goto(p, "release")
    /\ UNCHANGED <<act, pauseVars, session, msgs, row, turn, spent>>

\* undoResolution: the row, then the message copy
UndoAnswer(p) ==
    /\ me[p].pc = "undo"
    /\ Cas(me[p].cur, "resolved", "pending")
    /\ Goto(p, "undoCopy")
    /\ UNCHANGED <<pauseVars, session, msgs, row, turn, spent, mishaps>>

UndoCopies(p) ==
    /\ me[p].pc = "undoCopy"
    /\ msgs' = me[p].seen
    /\ Done(p)
    /\ UNCHANGED <<act, pauseVars, session, row, turn, spent, mishaps>>

\* The inline turn is over: a refused one re-opens the answers, one that was invoked
\* and ended settles the run.
InlineTurnEnds(p) ==
    /\ p \in Inline /\ me[p].pc = "turn"
    /\ turn[p].at \in {"completed", "paused", "aborted", "refused", "failed"}
    /\ me' = [me EXCEPT ![p].pc = CASE turn[p].at = "refused" -> "reopen"
                                    [] turn[p].at = "failed" -> "release"
                                    [] OTHER -> "settle",
                        ![p].todo = IF turn[p].at = "refused" THEN Answered ELSE {}]
    /\ UNCHANGED <<act, pauseVars, session, msgs, row, turn, spent, mishaps>>

\* settlePausedAgentRuns: a pause again leaves the run as it is
SettleOwner(p) ==
    /\ me[p].pc = "settle"
    /\ IF me[p].found /\ OwnerPaused(p) /\ turn[p].at # "paused"
         THEN Table!Set(raisedBy[me[p].cur], "succeeded")
         ELSE UNCHANGED row
    /\ Goto(p, "release")
    /\ UNCHANGED <<act, pauseVars, session, msgs, turn, spent, mishaps>>

\* reopenAnsweredActions, one answered action of the conversation after the other; the
\* conversation is read again for each
ReopenAnswer(p) ==
    /\ me[p].pc = "reopen"
    /\ \/ \E a \in me[p].todo :
            Cas(a, "resolved", "pending") /\ me' = [me EXCEPT ![p].todo = @ \ {a}]
       \/ me[p].todo = {} /\ Goto(p, "release") /\ UNCHANGED act
    /\ UNCHANGED <<pauseVars, session, msgs, row, turn, spent, mishaps>>

\* release of the reservation; an answer in the background has none
Release(p) ==
    /\ me[p].pc = "release"
    /\ IF p \in Background THEN UNCHANGED row ELSE Table!DeleteAgentRun(p)
    /\ Done(p)
    /\ UNCHANGED <<act, pauseVars, session, msgs, turn, spent, mishaps>>

-----------------------------------------------------------------------------
(***************************************************************************)
(* Those who end the wait without an answer: the sweep, a new message, a   *)
(* cancel.  They list, look at the conversation, handle one action after   *)
(* the other, write the copies, and drop the stored pause.                 *)
(***************************************************************************)

\* The time of a request runs out, a minute or more after its turn has paused: the run
\* that raised it has been recorded as paused by then.
ExpiryPasses(a) ==
    /\ act[a] = "pending" /\ a \notin due
    /\ raisedBy[a] # None => row[raisedBy[a]] # "running"
    /\ due' = due \cup {a}
    /\ UNCHANGED <<act, raisedBy, snapshot, paused, session, msgs, row, me, turn, spent, mishaps>>

\* listExpiredAgentPendingActions
SweepLists(s) ==
    /\ me[s].pc = "idle"
    /\ \E a \in Open \cap due :
          me' = [me EXCEPT ![s] = [At("look") EXCEPT !.cur = a, !.todo = Open \cap due]]
    /\ UNCHANGED <<act, pauseVars, session, msgs, row, turn, spent, mishaps>>

\* A message arrives.
BeginMessage(m) ==
    /\ me[m].pc = "idle" /\ paused > 0
    /\ Goto(m, "reserve")
    /\ UNCHANGED <<act, pauseVars, session, msgs, row, turn, spent, mishaps>>

\* finalizeAgentRun with `canceled`, by one who has read r as paused: it ends a running run
\* as well, and does nothing to one that has ended.
EndRun(r) ==
    IF row[r] \in {"running", "requires_action"}
      THEN /\ Table!Set(r, "canceled")
           /\ lapses' = IF row[r] = "running" THEN lapses \cup {"overtaken"} ELSE lapses
      ELSE UNCHANGED <<row, lapses>>

\* cancelAgentRun reads a paused run, cancelPausedRun ends it; the requests are dropped only
\* by who has ended the run.
BeginCancel(c) ==
    /\ me[c].pc = "idle"
    /\ \E r \in Runs : row[r] = "requires_action" /\ me' = [me EXCEPT ![c] = [At("cancel") EXCEPT !.runs = {r}]]
    /\ UNCHANGED <<act, pauseVars, session, msgs, row, turn, spent, mishaps>>

CancelPausedRun(c) ==
    /\ me[c].pc = "cancel"
    /\ \E r \in me[c].runs :
          \/ /\ EndRun(r) /\ UNCHANGED faults
             /\ Goto(c, IF row[r] \in {"running", "requires_action"} THEN "look" ELSE "done")
          \/ Fails /\ Done(c) /\ UNCHANGED <<row, lapses>>
    /\ UNCHANGED <<act, pauseVars, session, msgs, turn, spent>>

\* The conversation is read, and by all but the sweep the open actions.  A message is
\* refused (assertNoBlockingPending), or its turn begins.
Look(p) ==
    /\ me[p].pc = "look"
    /\ LET waiting == runtime = "requires_action"
           refused == waiting /\ OnMessage = "reject" /\ Open # {}
       IN  me' = [me EXCEPT
             ![p].seen = msgs, ![p].found = waiting,
             ![p].todo = IF p \in Sweepers THEN @ ELSE IF waiting THEN Open ELSE {},
             ![p].pc = CASE p \in Sweepers -> "each"
                         [] p \in Cancelers -> IF waiting THEN "each" ELSE "done"
                         [] OTHER -> IF refused THEN "release" ELSE "mark"]
    /\ UNCHANGED <<act, pauseVars, session, msgs, row, turn, spent, mishaps>>

\* startSessionTurnEvents: the session says running before the pause is dropped
MarkRunning(m) ==
    /\ m \in Messages /\ me[m].pc = "mark"
    /\ runtime' = "running" /\ owner' = m
    /\ Goto(m, IF me[m].found /\ OnMessage = "cancel_pending" THEN "each" ELSE "invoke")
    /\ UNCHANGED <<act, pauseVars, msgs, row, turn, spent, mishaps>>

\* (a bug) the agent's policy is written as the status
VerdictIsPolicy(p, a) == IF p \in Sweepers /\ me[p].found THEN OnTimeout ELSE "cancelled"

\* What p does with action a: the sweep expires it or answers it for the person, or
\* cancels it when the session has moved on.
Verdict(p, a) ==
    IF p \in Sweepers /\ me[p].found
      THEN IF OnTimeout = "cancel" /\ a \notin ClientTools THEN "expired" ELSE "resolved"
      ELSE "cancelled"

HandleOne(p) ==
    /\ me[p].pc = "each"
    /\ \E a \in me[p].todo :
          /\ Cas(a, "pending", Verdict(p, a))
          /\ me' = [me EXCEPT
               ![p].todo = @ \ {a},
               ![p].hit = IF act[a] # "pending" \/ @ = "resolved" THEN @
                          ELSE IF Verdict(p, a) = "resolved" THEN "resolved" ELSE "closed"]
    /\ UNCHANGED <<pauseVars, session, msgs, row, turn, spent, mishaps>>

HandledAll(p) ==
    /\ me[p].pc = "each" /\ me[p].todo = {}
    /\ IF p \in Sweepers /\ (~me[p].found \/ me[p].hit = "none")
         THEN Leave(p)
         ELSE Goto(p, IF me[p].hit = "none" THEN "drop" ELSE "copy")
    /\ UNCHANGED <<act, pauseVars, session, msgs, row, turn, spent, mishaps>>

SweepListsOpen(s) ==
    /\ me[s].pc = "open" /\ s \in Sweepers
    /\ IF Open # {} THEN Leave(s)
       ELSE Goto(s, IF OnTimeout = "cancel" /\ me[s].hit # "resolved" THEN "drop" ELSE "find")
    /\ UNCHANGED <<act, pauseVars, session, msgs, row, turn, spent, mishaps>>

\* A failure to drop it is swallowed.
DropPausedSnapshot(p) ==
    /\ me[p].pc = "drop"
    /\ \/ snapshot' = {} /\ UNCHANGED faults
       \/ Fails /\ UNCHANGED snapshot
    /\ Goto(p, IF p \in Messages THEN "close" ELSE "unpause")
    /\ UNCHANGED <<act, raisedBy, due, paused, session, msgs, row, turn, spent, lapses>>

SetIdle(p) ==
    /\ me[p].pc = "unpause"
    /\ runtime' = "idle"
    /\ IF p \in Sweepers THEN Goto(p, "close") ELSE Done(p)
    /\ UNCHANGED <<act, pauseVars, owner, msgs, row, turn, spent, mishaps>>

\* The sweep is done with the conversation, a message goes on to its turn.
Closed(p) == IF p \in Sweepers THEN Leave(p) ELSE Goto(p, "invoke")

\* (a bug) the pause is dropped and its run left to wait
ClosesNoRun(p) ==
    /\ me[p].pc = "close"
    /\ Closed(p)
    /\ UNCHANGED <<act, pauseVars, session, msgs, row, turn, spent, mishaps>>

\* cancelPausedAgentRuns: the runs paused on the conversation are listed once
ListPausedRuns(p) ==
    /\ me[p].pc = "close"
    /\ me' = [me EXCEPT ![p].runs = {r \in Runs : row[r] = "requires_action"}, ![p].pc = "end"]
    /\ UNCHANGED <<act, pauseVars, session, msgs, row, turn, spent, mishaps>>

\* and ended one after the other; one that fails is left behind.
EndListedRun(p) ==
    /\ me[p].pc = "end"
    /\ \E r \in me[p].runs :
          /\ me' = [me EXCEPT ![p].runs = @ \ {r}]
          /\ \/ EndRun(r) /\ UNCHANGED faults
             \/ Fails /\ lapses' = lapses \cup {"unended"} /\ UNCHANGED row
    /\ UNCHANGED <<act, pauseVars, session, msgs, turn, spent>>

EndedRuns(p) ==
    /\ me[p].pc = "end" /\ me[p].runs = {}
    /\ Closed(p)
    /\ UNCHANGED <<act, pauseVars, session, msgs, row, turn, spent, mishaps>>

\* The model is called for the new message, with the messages read before; its turn ends.
BeginMessageTurn(m) ==
    /\ me[m].pc = "invoke"
    /\ Goto(m, "turn")
    /\ turn' = [turn EXCEPT ![m] = [at |-> "invoke", using |-> {}, base |-> me[m].seen]]
    /\ UNCHANGED <<act, pauseVars, session, msgs, row, spent, mishaps>>

MessageTurnEnds(m) ==
    /\ m \in Messages /\ me[m].pc = "turn"
    /\ turn[m].at \in {"completed", "paused", "failed"}
    /\ Goto(m, "release")
    /\ UNCHANGED <<act, pauseVars, session, msgs, row, turn, spent, mishaps>>

-----------------------------------------------------------------------------
TurnStep(r) ==
    \/ LoadFindsNothing(r) \/ LoadRefuses(r) \/ Load(r)
    \/ StoreTurn(r) \/ FailTurn(r) \/ Superseded(r)

ActorStep(p) ==
    \/ Reserve(p) \/ RecordAnswer(p) \/ WriteCopies(p) \/ ListOpen(p) \/ FindOwner(p)
    \/ QueueResume(p) \/ CallThrows(p) \/ UndoAnswer(p) \/ UndoCopies(p) \/ InlineTurnEnds(p)
    \/ SettleOwner(p) \/ ReopenAnswer(p) \/ Release(p)
    \/ CancelPausedRun(p) \/ Look(p) \/ MarkRunning(p) \/ HandleOne(p) \/ HandledAll(p)
    \/ SweepListsOpen(p) \/ DropPausedSnapshot(p) \/ SetIdle(p) \/ ListPausedRuns(p)
    \/ EndListedRun(p) \/ EndedRuns(p) \/ BeginMessageTurn(p) \/ MessageTurnEnds(p)

Next ==
    \/ StartFirstTurn
    \/ \E r \in Runs : ClaimRun(r) \/ TurnStep(r) \/ FinalizeRun(r) \/ ResetRuntime(r) \/ LoseWorker(r)
    \/ \E p \in Answerers : BeginAnswer(p)
    \/ \E a \in Actions : ExpiryPasses(a)
    \/ \E s \in Sweepers : SweepLists(s)
    \/ \E m \in Messages : BeginMessage(m)
    \/ \E c \in Cancelers : BeginCancel(c)
    \/ \E p \in Actors : ActorStep(p)

Spec == Init /\ [][Next]_vars

\* The code of a request or of the sweep goes on, the queue delivers, turns end.
\* Nobody has to answer, no time has to pass, and no message has to come.
Fairness ==
    /\ \A p \in Actors : WF_vars(ActorStep(p))
    /\ \A r \in Runs : WF_vars(ClaimRun(r) \/ TurnStep(r) \/ FinalizeRun(r) \/ ResetRuntime(r))

FairSpec == Spec /\ Fairness

-----------------------------------------------------------------------------
(***************************************************************************)
(* Properties                                                              *)
(***************************************************************************)

\* An answer is given to the model by one stored turn only: no continuation applies
\* requests that a turn which was stored has applied before, however many people, sweeps
\* and messages queue a continuation of the same pause; unless a run that was read as
\* paused, and resumed since, was ended under its turn, or a turn's state was not saved.
Overtaken == "overtaken" \in lapses
Unsaved == "unsaved" \in lapses
AppliedOnce == Overtaken \/ Unsaved \/ \A r \in Runs : turn[r].using \cap spent = {}

\* Whoever continues, settles, cancels or reserves takes a step of the run table: a row
\* becomes active only while no other one of the conversation is, and one that was judged
\* paused is requeued or settled only if it still is.
ImplementsRunTable == Table!Spec

\* A pause that is answered in full does not wait on for nobody: it is continued, taken
\* back, or ended, unless its continuation was not queued (a timeout met a busy
\* conversation, a call threw) or died before it marked the session.
Waiting == runtime = "requires_action" /\ snapshot # {} /\ snapshot \subseteq Answered
AnsweredPauseContinues == Waiting ~> (~Waiting \/ lapses \cap {"unqueued", "lost"} # {})

\* A run does not stay requires_action for a pause that is gone, unless its end failed, or
\* the pause was not saved or not marked in the session.
PausedRunEnds ==
    (row[First] = "requires_action" /\ snapshot = {})
      ~> (row[First] # "requires_action" \/ lapses \cap {"unended", "unsaved", "unmarked"} # {})

\* An answer a stored turn has used stays an answer: reopenAnsweredActions puts back
\* the answered actions of the current pause.
SpentStaysAnswered == [][\A a \in spent : act[a] = "resolved" => act'[a] = "resolved"]_vars

\* While a turn applies an answer, the row says that it was given ("once the SDK invoke
\* starts, the approval is spent").
AppliedStaysAnswered == \A r \in Runs : turn[r].using \subseteq Answered

\* A message of the conversation is never lost.
MessagesKept == [][msgs' >= msgs]_vars

\* A pause answered in full by people or by the timeout is continued.
AnsweredPauseAlwaysContinues == Waiting ~> ~Waiting

=============================================================================
