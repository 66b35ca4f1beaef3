-------------------------- MODULE TriggerScheduler --------------------------
(***************************************************************************)
(* The trigger scheduler, which every node runs                            *)
(* (src/src/lib/services/agents/agentTriggerScheduler.ts), the fire of a   *)
(* trigger (agentTriggers.ts) and the edits that race with it.             *)
(*                                                                         *)
(* One trigger; time is a count of minutes.  A tick reads the due trigger  *)
(* with its own clock reading, plans from that copy, claims the slot,      *)
(* moves nextFireAt on by a compare-and-set and starts the run; each of    *)
(* these is a database call of its own.                                    *)
(***************************************************************************)
EXTENDS Naturals

CONSTANTS
    Nodes,
    Editors,        \* requests that save the trigger
    Timings,        \* the timings a trigger is saved with: [type, slots]
    Grace,          \* AGENT_TRIGGER_MISFIRE_GRACE_MS
    ClaimTTL,       \* CLAIM_TTL_MS
    MaxStall,       \* how long a tick or a request takes at most
    MaxTime,        \* bounds the clock
    MaxEvents,      \* bounds the node failures, the switches of the target and the Run nows
    CanRefuse,      \* may a fire be refused (a limit, a quota) or fail
    Never           \* null

Times == 0..MaxTime

ASSUME ConstantsAssumption ==
    /\ Grace \in Nat /\ ClaimTTL \in Nat /\ MaxStall \in Nat /\ MaxTime \in Nat /\ MaxEvents \in Nat
    /\ Never \notin Nat /\ CanRefuse \in BOOLEAN
    /\ \A t \in Timings : t.type \in {"schedule", "once"} /\ t.slots \subseteq Times /\ t.slots # {}

\* A claim outlives every look at its slot.  (AGENT_TRIGGER_MISFIRE_GRACE_MS is one hour
\* by default, and the code does not bound it from above.)
ASSUME ClaimOutlivesSlot == Grace + MaxStall <= ClaimTTL

VARIABLES
    now,
    timing, enabled, nextFire, lastFire,    \* the trigger's row
    available,      \* is its target switched on
    claims,         \* claims[s]: when the claim of slot s expires, Never without one
    me,             \* me[n]: where the tick of node n is, and its locals
    edit,           \* edit[e]: where request e is, and what it has read
    takes,          \* takes[s]: how often slot s was won
    keys,           \* the idempotency keys of the trigger's runs
    starts,         \* starts[s]: the runs started for slot s
    events

rowVars == <<timing, enabled, nextFire, lastFire>>
runVars == <<keys, starts>>
vars == <<now, rowVars, available, claims, me, edit, takes, runVars, events>>

Tick == [pc : {"idle", "plan", "skip", "claim", "advance", "fire", "record"},
         at : Times, timing : Timings \cup {Never}, due : Times, slot : Times,
         next : Times \cup {Never}, won : BOOLEAN]
Idle == [pc |-> "idle", at |-> 0, timing |-> Never, due |-> 0, slot |-> 0, next |-> Never,
         won |-> FALSE]
Edit == [pc : {"idle", "write", "done"}, at : Times, timing : Timings \cup {Never},
         enabled : BOOLEAN, last : Times \cup {Never}]
NoEdit(l) == [pc |-> l, at |-> 0, timing |-> Never, enabled |-> FALSE, last |-> Never]

TypeOK ==
    /\ now \in Times /\ timing \in Timings /\ enabled \in BOOLEAN /\ available \in BOOLEAN
    /\ nextFire \in Times \cup {Never} /\ lastFire \in Times \cup {Never}
    /\ claims \in [Times -> Nat \cup {Never}]
    /\ me \in [Nodes -> Tick] /\ edit \in [Editors -> Edit]
    /\ takes \in [Times -> Nat] /\ starts \in [Times -> Nat]
    /\ keys \subseteq Times /\ events \in 0..MaxEvents

\* nextCronFire and latestCronSlot
IsNext(slots, t, s) == s \in slots /\ s > t /\ \A u \in slots : u > t => s <= u
NextSlot(slots, t) ==
    IF \E s \in slots : IsNext(slots, t, s) THEN CHOOSE s \in slots : IsNext(slots, t, s) ELSE Never

IsLatest(slots, t, s) == s \in slots /\ s <= t /\ \A u \in slots : u <= t => u <= s
LatestSlot(slots, t, else) ==
    IF \E s \in slots : IsLatest(slots, t, s) THEN CHOOSE s \in slots : IsLatest(slots, t, s) ELSE else

RunAt(tm) == CHOOSE s \in tm.slots : TRUE      \* once.runAt

\* initialNextFireAt: a once trigger keeps its time until a fire at or after it
InitialNextFireAt(on, tm, last, t) ==
    IF ~on THEN Never
    ELSE IF tm.type = "schedule" THEN NextSlot(tm.slots, t)
    ELSE IF last # Never /\ last >= RunAt(tm) THEN Never ELSE RunAt(tm)

Later(s, t) == IF s < t THEN t ELSE s

\* planDueTrigger: the slot that is handled, and the one that comes after it
PlanSlot(m) ==
    IF m.timing.type = "once" THEN RunAt(m.timing)
    ELSE Later(LatestSlot(m.timing.slots, m.at, m.due), m.due)

\* (a bug) the trigger moves on by a minute, not to its next slot
PlansNextMinute(m) == IF m.timing.type = "once" THEN Never ELSE m.at + 1

PlanNext(m) == IF m.timing.type = "once" THEN Never ELSE NextSlot(m.timing.slots, m.at)

Missed(m) == m.at > PlanSlot(m) + Grace

Init ==
    /\ now = 0 /\ timing \in Timings /\ enabled = TRUE /\ lastFire = Never /\ available = TRUE
    /\ nextFire = InitialNextFireAt(TRUE, timing, Never, 0)
    /\ claims = [s \in Times |-> Never]
    /\ me = [n \in Nodes |-> Idle]
    /\ edit = [e \in Editors |-> NoEdit("idle")]
    /\ takes = [s \in Times |-> 0] /\ starts = [s \in Times |-> 0]
    /\ keys = {} /\ events = 0

-----------------------------------------------------------------------------
(***************************************************************************)
(* The tick of node n                                                      *)
(***************************************************************************)

Goto(n, l) == me' = [me EXCEPT ![n].pc = l]
Finish(n) == me' = [me EXCEPT ![n] = Idle]

\* runTick, one at a time on a node: listDueTriggers
ListDue(n) ==
    /\ me[n].pc = "idle"
    /\ enabled /\ nextFire # Never /\ nextFire <= now
    /\ me' = [me EXCEPT ![n] = [Idle EXCEPT !.pc = "plan", !.at = now, !.timing = timing,
                                             !.due = nextFire]]
    /\ UNCHANGED <<now, rowVars, available, claims, edit, takes, runVars, events>>

\* A missed slot is skipped, and the slot of a schedule whose target is off; a one-shot
\* whose target is off stays as it is.
Plan(n) ==
    /\ me[n].pc = "plan"
    /\ IF ~Missed(me[n]) /\ ~available /\ PlanNext(me[n]) = Never
         THEN Finish(n)
         ELSE me' = [me EXCEPT ![n].slot = PlanSlot(me[n]), ![n].next = PlanNext(me[n]),
                               ![n].pc = IF Missed(me[n]) \/ ~available THEN "skip" ELSE "claim"]
    /\ UNCHANGED <<now, rowVars, available, claims, edit, takes, runVars, events>>

\* advanceTriggerNextFire: the compare-and-set
Advance(n) ==
    /\ nextFire' = IF nextFire = me[n].due THEN me[n].next ELSE nextFire
    /\ UNCHANGED <<timing, enabled, lastFire>>

Skip(n) ==
    /\ me[n].pc = "skip"
    /\ Advance(n)
    /\ Finish(n)
    /\ UNCHANGED <<now, available, claims, edit, takes, runVars, events>>

\* (a bug) the key is made of the tick's time, not of the slot's
TickKey(n) == me[n].at

\* triggerSlotKey: the slot claimed, and the idempotency key of the run
TriggerSlotKey(n) == me[n].slot

\* (a bug) the claim lasts until the slot is over
ClaimLastsForSlot(n) == me[n].slot

ClaimExpiry(n) == Later(me[n].slot, me[n].at) + ClaimTTL

\* claimSchedulerSlot: the first insert of the key wins
ClaimSlot(n) ==
    LET k == TriggerSlotKey(n)
        won == claims[k] = Never
    IN  /\ me[n].pc = "claim"
        /\ claims' = IF won THEN [claims EXCEPT ![k] = ClaimExpiry(n)] ELSE claims
        /\ takes' = IF won THEN [takes EXCEPT ![me[n].slot] = @ + 1] ELSE takes
        /\ me' = [me EXCEPT ![n].won = won, ![n].pc = "advance"]
        /\ UNCHANGED <<now, rowVars, available, edit, runVars, events>>

\* (a bug) only the winner moves the trigger on
WinnerMovesOn(n) ==
    /\ me[n].pc = "advance"
    /\ IF me[n].won THEN Advance(n) ELSE UNCHANGED rowVars
    /\ IF me[n].won THEN Goto(n, "fire") ELSE Finish(n)
    /\ UNCHANGED <<now, available, claims, edit, takes, runVars, events>>

\* "Whoever saw the slot moves the trigger on"; the winner goes on to fire.
MoveOn(n) ==
    /\ me[n].pc = "advance"
    /\ Advance(n)
    /\ IF me[n].won THEN Goto(n, "fire") ELSE Finish(n)
    /\ UNCHANGED <<now, available, claims, edit, takes, runVars, events>>

\* fireTrigger: a run that has the key already makes this fire a duplicate (the pre-check,
\* or the unique key of startAgentRun).  Variables that do not match and a target that is
\* off are recorded as failed, a limit leaves no trace.
FireTrigger(n) ==
    LET k == TriggerSlotKey(n)
    IN  /\ me[n].pc = "fire"
        /\ \/ /\ k \notin keys
              /\ keys' = keys \cup {k}
              /\ starts' = [starts EXCEPT ![me[n].slot] = @ + 1]
              /\ Goto(n, "record")
           \/ k \in keys /\ Finish(n) /\ UNCHANGED runVars
           \/ CanRefuse /\ Goto(n, "record") /\ UNCHANGED runVars
           \/ CanRefuse /\ Finish(n) /\ UNCHANGED runVars
        /\ UNCHANGED <<now, rowVars, available, claims, edit, takes, events>>

\* setTriggerFireResult: the newest fire wins
Newest(t) == IF lastFire = Never THEN TRUE ELSE lastFire <= t

RecordFire(n) ==
    /\ me[n].pc = "record"
    /\ lastFire' = IF Newest(me[n].slot) THEN me[n].slot ELSE lastFire
    /\ Finish(n)
    /\ UNCHANGED <<now, timing, enabled, nextFire, available, claims, edit, takes, runVars, events>>

\* The node fails, or a call of the tick throws; what the tick held in memory is gone.
Crash(n) ==
    /\ me[n].pc # "idle" /\ events < MaxEvents
    /\ events' = events + 1
    /\ Finish(n)
    /\ UNCHANGED <<now, rowVars, available, claims, edit, takes, runVars>>

-----------------------------------------------------------------------------
(***************************************************************************)
(* People, the other services and time                                     *)
(***************************************************************************)

\* The route reads the trigger and hands it to updateAgentTrigger, which takes the time.
ReadTrigger(e) ==
    /\ edit[e].pc = "idle"
    /\ edit' = [edit EXCEPT ![e] = [pc |-> "write", at |-> now, timing |-> timing,
                                    enabled |-> enabled, last |-> lastFire]]
    /\ UNCHANGED <<now, rowVars, available, claims, me, takes, runVars, events>>

\* A new timing, or an enable or disable: nextFireAt is computed from what was read.
SaveTrigger(e) ==
    /\ edit[e].pc = "write"
    /\ \/ /\ timing' \in Timings /\ UNCHANGED enabled
          /\ nextFire' = InitialNextFireAt(edit[e].enabled, timing', edit[e].last, edit[e].at)
       \/ /\ enabled' \in BOOLEAN /\ UNCHANGED timing
          /\ nextFire' = InitialNextFireAt(enabled', edit[e].timing, edit[e].last, edit[e].at)
    /\ edit' = [edit EXCEPT ![e] = NoEdit("done")]
    /\ UNCHANGED <<now, lastFire, available, claims, me, takes, runVars, events>>

\* Run now: a fire without a slot is recorded like any other.
RunNow ==
    /\ events < MaxEvents /\ events' = events + 1
    /\ lastFire' = IF Newest(now) THEN now ELSE lastFire
    /\ UNCHANGED <<now, timing, enabled, nextFire, available, claims, me, edit, takes, runVars>>

\* triggerTargetAvailability changes: an agent or a service is switched off or on.
SwitchTarget ==
    /\ events < MaxEvents /\ events' = events + 1
    /\ available' = ~available
    /\ UNCHANGED <<now, rowVars, claims, me, edit, takes, runVars>>

\* cleanupSchedulerClaims
CleanupClaims ==
    /\ \E s \in Times : claims[s] # Never /\ claims[s] < now
    /\ claims' = [s \in Times |-> IF claims[s] # Never /\ claims[s] < now THEN Never ELSE claims[s]]
    /\ UNCHANGED <<now, rowVars, available, me, edit, takes, runVars, events>>

\* Time passes, unless a tick or a request has taken its time.
PassTime ==
    /\ now < MaxTime
    /\ \A n \in Nodes : me[n].pc # "idle" => now < me[n].at + MaxStall
    /\ \A e \in Editors : edit[e].pc = "write" => now < edit[e].at + MaxStall
    /\ now' = now + 1
    /\ UNCHANGED <<rowVars, available, claims, me, edit, takes, runVars, events>>

-----------------------------------------------------------------------------
NodeStep(n) ==
    \/ ListDue(n) \/ Plan(n) \/ Skip(n) \/ ClaimSlot(n) \/ MoveOn(n)
    \/ FireTrigger(n) \/ RecordFire(n)

Next ==
    \/ \E n \in Nodes : NodeStep(n) \/ Crash(n)
    \/ \E e \in Editors : ReadTrigger(e) \/ SaveTrigger(e)
    \/ RunNow \/ SwitchTarget \/ CleanupClaims \/ PassTime

Spec == Init /\ [][Next]_vars

\* The timer of a node fires again and again, and its calls return; nothing else has to
\* happen.
Fairness == \A n \in Nodes : WF_vars(NodeStep(n))

FairSpec == Spec /\ Fairness

-----------------------------------------------------------------------------
(***************************************************************************)
(* Properties                                                              *)
(***************************************************************************)

\* One slot never starts two runs (the idempotency key `trigger:<triggerId>:<slot>`),
\* whatever nodes die, however old a node's copy is and however often a one-shot is saved
\* again after it has fired.
SlotRunsOnce == \A s \in Times : starts[s] <= 1

\* The scheduler is a dispatcher of slots: the claim lets one node take a slot, only that
\* node starts its run, and a slot that was taken (refused, or lost with its node) is not
\* taken again, not even when its claim has been cleaned up.
Dispatch == INSTANCE SlotDispatch WITH Slots <- Times, takes <- takes, starts <- starts
ImplementsSlotDispatch == Dispatch!Spec

\* A due trigger does not stay on its slot, though the node that won it has died: while
\* its target is switched on, some node moves nextFireAt on (or an edit does).
DueAt(s) == enabled /\ nextFire = s /\ s <= now /\ available
TriggerMovesOn == \A s \in UNION {t.slots : t \in Timings} : DueAt(s) ~> ~DueAt(s)

\* "of several missed slots only the latest still within the grace fires": a slot does
\* not start a run once a later one of the trigger has.
LatestSlotOnly ==
    [][\A s \in Times : starts'[s] # starts[s] => \A u \in Times : u > s => starts[u] = 0]_vars

\* A slot that is fired is one of the schedule that was read with it.
FiresItsSchedule == \A n \in Nodes : me[n].pc = "claim" => me[n].slot \in me[n].timing.slots

=============================================================================
