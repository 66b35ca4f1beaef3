----------------------- MODULE TriggerSchedulerProofs -----------------------
(***************************************************************************)
(* Proofs about module TriggerScheduler, for every number of nodes, of     *)
(* edits and of failures, every set of timings, every clock bound and      *)
(* every grace and claim lifetime that ClaimOutlivesSlot allows.           *)
(***************************************************************************)
EXTENDS TriggerScheduler, TLAPS

USE ConstantsAssumption DEF Times

\* nextCronFire returns a slot of the schedule, or null.
LEMMA NextSlotType ==
    ASSUME NEW slots \in SUBSET Times, NEW t
    PROVE  NextSlot(slots, t) \in Times \cup {Never}
BY DEF NextSlot

\* latestCronSlot returns a slot of the schedule, or what it falls back on.
LEMMA LatestSlotType ==
    ASSUME NEW slots \in SUBSET Times, NEW t, NEW else \in Times
    PROVE  LatestSlot(slots, t, else) \in Times
BY DEF LatestSlot

LEMMA RunAtType == ASSUME NEW tm \in Timings PROVE RunAt(tm) \in Times
BY DEF RunAt

\* initialNextFireAt returns a time, or null.
LEMMA InitialNextFireAtType ==
    ASSUME NEW on \in BOOLEAN, NEW tm \in Timings, NEW last \in Times \cup {Never}, NEW t
    PROVE  InitialNextFireAt(on, tm, last, t) \in Times \cup {Never}
BY NextSlotType, RunAtType DEF InitialNextFireAt

\* planDueTrigger returns a time to handle, and the next one or null.
LEMMA PlanType ==
    ASSUME NEW m \in Tick, m.timing \in Timings
    PROVE  PlanSlot(m) \in Times /\ PlanNext(m) \in Times \cup {Never}
<1>1. m.due \in Times /\ m.at \in Times /\ m.timing.slots \in SUBSET Times BY DEF Tick
<1>2. PlanSlot(m) \in Times BY <1>1, LatestSlotType, RunAtType DEF PlanSlot, Later
<1>3. PlanNext(m) \in Times \cup {Never} BY <1>1, NextSlotType DEF PlanNext
<1> QED BY <1>2, <1>3
-----------------------------------------------------------------------------
(***************************************************************************)
(* Types                                                                   *)
(***************************************************************************)

\* What a node and a request hold while they are at work is a timing.
TypeInv ==
    /\ TypeOK
    /\ \A n \in Nodes : me[n].pc # "idle" => me[n].timing \in Timings
    /\ \A e \in Editors : edit[e].pc = "write" => edit[e].timing \in Timings

LEMMA IdleType == Idle \in Tick
BY DEF Idle, Tick

LEMMA NoEditType == \A l \in {"idle", "write", "done"} : NoEdit(l) \in Edit
BY DEF NoEdit, Edit

\* A step of a node that goes on, or ends, keeps the types of the nodes' state.
LEMMA GotoType ==
    ASSUME TypeInv, NEW n \in Nodes, me[n].pc # "idle",
           (\E l \in {"fire", "record", "advance"} : Goto(n, l)) \/ Finish(n)
    PROVE  /\ me' \in [Nodes -> Tick]
           /\ \A k \in Nodes : me'[k].pc # "idle" => me'[k].timing \in Timings
<1>1. me \in [Nodes -> Tick] BY DEF TypeInv, TypeOK
<1>2. CASE Finish(n) BY <1>1, <1>2, IdleType DEF Finish, TypeInv, Idle
<1>3. ASSUME NEW l \in {"fire", "record", "advance"}, Goto(n, l)
      PROVE  /\ me' \in [Nodes -> Tick]
             /\ \A k \in Nodes : me'[k].pc # "idle" => me'[k].timing \in Timings
  BY <1>1, <1>3 DEF Goto, TypeInv, Tick
<1> QED BY <1>2, <1>3

LEMMA InitTypeInv == Init => TypeInv
<1> SUFFICES ASSUME Init PROVE TypeInv OBVIOUS
<1>1. now \in Times /\ lastFire \in Times \cup {Never} /\ events \in 0..MaxEvents
  BY DEF Init
<1>2. nextFire \in Times \cup {Never} BY InitialNextFireAtType DEF Init
<1>3. me \in [Nodes -> Tick] /\ edit \in [Editors -> Edit] BY IdleType, NoEditType DEF Init
<1> QED BY <1>1, <1>2, <1>3 DEF Init, TypeInv, TypeOK, Idle, NoEdit

LEMMA NextTypeInv == TypeInv /\ [Next]_vars => TypeInv'
<1> SUFFICES ASSUME TypeInv, [Next]_vars PROVE TypeInv' OBVIOUS
<1> USE DEF TypeInv, TypeOK
<1>1. ASSUME NEW n \in Nodes, ListDue(n) PROVE TypeInv'
  <2>1. me[n] \in Tick /\ nextFire \in Times BY <1>1 DEF ListDue
  <2>2. [Idle EXCEPT !.pc = "plan", !.at = now, !.timing = timing, !.due = nextFire] \in Tick
    BY <2>1, IdleType DEF Tick
  <2>3. me' \in [Nodes -> Tick] BY <1>1, <2>2 DEF ListDue
  <2>4. \A k \in Nodes : me'[k].pc # "idle" => me'[k].timing \in Timings
    BY <1>1 DEF ListDue, Idle
  <2> QED BY <1>1, <2>3, <2>4 DEF ListDue, rowVars, runVars
<1>2. ASSUME NEW n \in Nodes, Plan(n) PROVE TypeInv'
  <2>1. PlanSlot(me[n]) \in Times /\ PlanNext(me[n]) \in Times \cup {Never}
    BY <1>2, PlanType DEF Plan
  <2>2. CASE Finish(n) BY <1>2, <2>2, GotoType DEF Plan, rowVars, runVars
  <2>3. CASE me' = [me EXCEPT ![n].slot = PlanSlot(me[n]), ![n].next = PlanNext(me[n]),
                         ![n].pc = IF Missed(me[n]) \/ ~available THEN "skip" ELSE "claim"]
    <3> DEFINE l == IF Missed(me[n]) \/ ~available THEN "skip" ELSE "claim"
    <3>a. me[n] \in Tick OBVIOUS
    <3>b. [me[n] EXCEPT !.slot = PlanSlot(me[n]), !.next = PlanNext(me[n]), !.pc = l] \in Tick
      <4>1. l \in {"skip", "claim"} OBVIOUS
      <4> HIDE DEF l
      <4> QED BY <2>1, <3>a, <4>1 DEF Tick
    <3>c. me' = [me EXCEPT ![n] = [me[n] EXCEPT !.slot = PlanSlot(me[n]), !.next = PlanNext(me[n]),
                                               !.pc = l]]
      BY <2>3
    <3>1. me' \in [Nodes -> Tick] BY <3>b, <3>c
    <3>2. \A k \in Nodes : me'[k].pc # "idle" => me'[k].timing \in Timings
      BY <1>2, <2>3 DEF Plan, Tick
    <3> QED BY <1>2, <3>1, <3>2 DEF Plan, rowVars, runVars
  <2> QED BY <1>2, <2>2, <2>3 DEF Plan
<1>3. ASSUME NEW n \in Nodes, Skip(n) PROVE TypeInv'
  <2>1. me[n].next \in Times \cup {Never} BY DEF Tick
  <2> QED BY <1>3, <2>1, GotoType DEF Skip, Advance, runVars
<1>4. ASSUME NEW n \in Nodes, ClaimSlot(n) PROVE TypeInv'
  <2>1. me[n].slot \in Times /\ me[n].at \in Times BY DEF Tick
  <2>2. ClaimExpiry(n) \in Nat BY <2>1 DEF ClaimExpiry, Later
  <2>3. claims' \in [Times -> Nat \cup {Never}] BY <1>4, <2>1, <2>2 DEF ClaimSlot, TriggerSlotKey
  <2>4. takes' \in [Times -> Nat]
    <3>1. takes[me[n].slot] + 1 \in Nat BY <2>1
    <3>2. takes' = takes \/ takes' = [takes EXCEPT ![me[n].slot] = takes[me[n].slot] + 1]
      BY <1>4 DEF ClaimSlot
    <3> QED BY <2>1, <3>1, <3>2
  <2>5. me' \in [Nodes -> Tick]
    <3>1. PICK w \in BOOLEAN : me' = [me EXCEPT ![n].won = w, ![n].pc = "advance"]
      BY <1>4 DEF ClaimSlot
    <3>2. [me[n] EXCEPT !.won = w, !.pc = "advance"] \in Tick BY DEF Tick
    <3> QED BY <3>1, <3>2
  <2>6. \A k \in Nodes : me'[k].pc # "idle" => me'[k].timing \in Timings
    BY <1>4 DEF ClaimSlot, Tick
  <2> QED BY <1>4, <2>3, <2>4, <2>5, <2>6 DEF ClaimSlot, rowVars, runVars
<1>5. ASSUME NEW n \in Nodes, MoveOn(n) PROVE TypeInv'
  <2>1. me[n].next \in Times \cup {Never} BY DEF Tick
  <2> QED BY <1>5, <2>1, GotoType DEF MoveOn, Advance, runVars
<1>6. ASSUME NEW n \in Nodes, FireTrigger(n) PROVE TypeInv'
  <2>1. me[n].slot \in Times BY DEF Tick
  <2>2. keys' \subseteq Times /\ starts' \in [Times -> Nat]
    <3>1. starts[me[n].slot] + 1 \in Nat BY <2>1
    <3>2. \/ UNCHANGED <<keys, starts>>
          \/ /\ keys' = keys \cup {me[n].slot}
             /\ starts' = [starts EXCEPT ![me[n].slot] = starts[me[n].slot] + 1]
      BY <1>6 DEF FireTrigger, TriggerSlotKey, runVars
    <3>3. keys' \subseteq Times BY <2>1, <3>2
    <3>4. starts' \in [Times -> Nat]
      <4>1. [starts EXCEPT ![me[n].slot] = starts[me[n].slot] + 1] \in [Times -> Nat] BY <2>1, <3>1
      <4> QED BY <3>2, <4>1
    <3> QED BY <3>3, <3>4
  <2>3. Goto(n, "record") \/ Finish(n) BY <1>6 DEF FireTrigger
  <2> QED BY <1>6, <2>2, <2>3, GotoType DEF FireTrigger, rowVars
<1>7. ASSUME NEW n \in Nodes, RecordFire(n) PROVE TypeInv'
  <2>1. me[n].slot \in Times BY DEF Tick
  <2> QED BY <1>7, <2>1, GotoType DEF RecordFire, runVars
<1>8. ASSUME NEW n \in Nodes, Crash(n) PROVE TypeInv'
  <2>1. events' \in 0..MaxEvents BY <1>8 DEF Crash
  <2>2. /\ me' \in [Nodes -> Tick]
        /\ \A k \in Nodes : me'[k].pc # "idle" => me'[k].timing \in Timings
    BY <1>8, GotoType DEF Crash
  <2> QED BY <1>8, <2>1, <2>2 DEF Crash, rowVars, runVars
<1>9. ASSUME NEW e \in Editors, ReadTrigger(e) PROVE TypeInv'
  <2>1. edit' \in [Editors -> Edit] BY <1>9 DEF ReadTrigger, Edit, rowVars
  <2> QED BY <1>9, <2>1 DEF ReadTrigger, rowVars, runVars
<1>10. ASSUME NEW e \in Editors, SaveTrigger(e) PROVE TypeInv'
  <2>1. edit[e].timing \in Timings /\ edit[e].last \in Times \cup {Never} /\ edit[e].enabled \in BOOLEAN
    BY <1>10 DEF SaveTrigger, Edit
  <2>2. timing' \in Timings /\ enabled' \in BOOLEAN BY <1>10 DEF SaveTrigger
  <2>3. nextFire' \in Times \cup {Never}
    <3>1. \/ nextFire' = InitialNextFireAt(edit[e].enabled, timing', edit[e].last, edit[e].at)
          \/ nextFire' = InitialNextFireAt(enabled', edit[e].timing, edit[e].last, edit[e].at)
      BY <1>10 DEF SaveTrigger
    <3>2. InitialNextFireAt(edit[e].enabled, timing', edit[e].last, edit[e].at) \in Times \cup {Never}
      BY <2>1, <2>2, InitialNextFireAtType
    <3>3. InitialNextFireAt(enabled', edit[e].timing, edit[e].last, edit[e].at) \in Times \cup {Never}
      BY <2>1, <2>2, InitialNextFireAtType
    <3> QED BY <3>1, <3>2, <3>3
  <2>4. edit' \in [Editors -> Edit] BY <1>10, NoEditType DEF SaveTrigger
  <2>5. \A k \in Editors : edit'[k].pc = "write" => edit'[k].timing \in Timings
    BY <1>10 DEF SaveTrigger, NoEdit
  <2> QED BY <1>10, <2>2, <2>3, <2>4, <2>5 DEF SaveTrigger, runVars
<1>11. CASE RunNow BY <1>11 DEF RunNow, runVars
<1>12. CASE SwitchTarget BY <1>12 DEF SwitchTarget, rowVars, runVars
<1>13. CASE CleanupClaims BY <1>13 DEF CleanupClaims, rowVars, runVars
<1>14. CASE PassTime BY <1>14 DEF PassTime, rowVars, runVars
<1>15. CASE UNCHANGED vars BY <1>15 DEF vars, rowVars, runVars
<1> QED BY <1>1, <1>2, <1>3, <1>4, <1>5, <1>6, <1>7, <1>8, <1>9, <1>10, <1>11, <1>12, <1>13,
           <1>14, <1>15 DEF Next, NodeStep

\* Every variable keeps its type; in particular nextFireAt and a planned slot are times of
\* the clock, whatever copies of the trigger nodes and requests plan from.
THEOREM TypeCorrect == Spec => []TypeOK
<1>1. TypeInv => TypeOK BY DEF TypeInv
<1> QED BY <1>1, InitTypeInv, NextTypeInv, PTL DEF Spec

-----------------------------------------------------------------------------
(***************************************************************************)
(* A slot is taken once and run once                                       *)
(***************************************************************************)

\* A tick is not older than MaxStall, and plans no slot that is out of its grace.
TicksAreFresh ==
    \A n \in Nodes :
        /\ me[n].pc # "idle" => now <= me[n].at + MaxStall
        /\ me[n].pc = "claim" => me[n].at <= me[n].slot + Grace

\* A slot that was taken is claimed, or too old to be planned.
TakenIsClaimed ==
    \A s \in Times :
        /\ takes[s] \in {0, 1}
        /\ takes[s] = 1 => \/ claims[s] # Never /\ claims[s] >= s + ClaimTTL
                           \/ now > s + ClaimTTL

\* A node that has won goes on with a slot that is taken.
WinnerTook ==
    \A n \in Nodes : (me[n].pc = "fire" \/ (me[n].pc = "advance" /\ me[n].won)) => takes[me[n].slot] = 1

\* A slot has at most one run, and a slot with a run has its key in use.
KeyOfRun == \A s \in Times : starts[s] \in {0, 1} /\ (s \notin keys => starts[s] = 0)

IInv == TypeInv /\ TicksAreFresh /\ TakenIsClaimed /\ WinnerTook /\ KeyOfRun

LEMMA InitIInv == Init => IInv
BY InitTypeInv DEF Init, IInv, TicksAreFresh, TakenIsClaimed, WinnerTook, KeyOfRun, Idle

\* A node that goes on from "advance" or "fire", or ends, stays a fresh tick, and only a
\* node that has won fires.
LEMMA GoesOn ==
    ASSUME IInv, TypeInv', NEW n \in Nodes, now' = now, takes' = takes,
           \/ Finish(n)
           \/ me[n].pc = "fire" /\ Goto(n, "record")
           \/ me[n].pc = "advance" /\ me[n].won /\ Goto(n, "fire")
    PROVE  TicksAreFresh' /\ WinnerTook'
<1> USE DEF IInv, TypeInv, TypeOK
<1>1. \A k \in Nodes : k # n => me'[k] = me[k] BY DEF Finish, Goto
<1>2. CASE Finish(n)
  <2>1. me'[n].pc = "idle" BY <1>2 DEF Finish, Idle
  <2> QED BY <1>1, <2>1 DEF TicksAreFresh, WinnerTook
<1>3. ASSUME NEW l \in {"fire", "record"}, Goto(n, l), me[n].pc # "idle",
             l = "fire" => takes[me[n].slot] = 1
      PROVE  TicksAreFresh' /\ WinnerTook'
  <2>1. me'[n] = [me[n] EXCEPT !.pc = l] BY <1>3 DEF Goto
  <2>2. me'[n].pc = l /\ me'[n].at = me[n].at /\ me'[n].slot = me[n].slot BY <2>1 DEF Tick
  <2>3. TicksAreFresh' BY <1>1, <1>3, <2>2 DEF TicksAreFresh
  <2>4. WinnerTook'
    <3> SUFFICES ASSUME NEW k \in Nodes,
                        me'[k].pc = "fire" \/ (me'[k].pc = "advance" /\ me'[k].won)
                 PROVE  takes[me'[k].slot] = 1
      BY DEF WinnerTook
    <3>1. CASE k = n
      <4>1. l = "fire" BY <1>3, <2>2, <3>1
      <4> QED BY <1>3, <2>2, <3>1, <4>1
    <3>2. CASE k # n
      <4>1. me'[k] = me[k] BY <1>1, <3>2
      <4> QED BY <4>1 DEF WinnerTook
    <3> QED BY <3>1, <3>2
  <2> QED BY <2>3, <2>4
<1> QED BY <1>2, <1>3 DEF WinnerTook

\* The one step that takes a slot takes one that was never taken: had it been, its claim
\* would still be there, for the tick is too young for the slot to be out of its claim.
LEMMA ClaimTakesFreshSlot ==
    ASSUME IInv, NEW n \in Nodes, ClaimSlot(n), claims[me[n].slot] = Never
    PROVE  takes[me[n].slot] = 0 /\ now <= me[n].slot + ClaimTTL
<1> USE DEF IInv, TypeInv, TypeOK
<1>1. me[n].slot \in Times /\ me[n].at \in Times /\ now \in Times BY DEF Tick
<1>2. now <= me[n].at + MaxStall /\ me[n].at <= me[n].slot + Grace
  BY DEF ClaimSlot, TicksAreFresh
<1>3. now <= me[n].slot + ClaimTTL
  <2> DEFINE a == me[n].at
             s == me[n].slot
  <2>1. now \in Nat /\ a \in Nat /\ s \in Nat BY <1>1, ConstantsAssumption DEF Times
  <2>2. now <= a + MaxStall /\ a <= s + Grace BY <1>2
  <2>3. Grace \in Nat /\ MaxStall \in Nat /\ ClaimTTL \in Nat BY ConstantsAssumption
  <2> HIDE DEF a, s
  <2>4. now <= s + ClaimTTL BY ONLY <2>1, <2>2, <2>3, ClaimOutlivesSlot
  <2> QED BY <2>4 DEF s
<1>4. takes[me[n].slot] # 1 BY <1>1, <1>3 DEF TakenIsClaimed
<1> QED BY <1>1, <1>3, <1>4 DEF TakenIsClaimed

LEMMA NextIInv == IInv /\ [Next]_vars => IInv'
<1> SUFFICES ASSUME IInv, [Next]_vars PROVE IInv' OBVIOUS
<1>0. TypeInv' BY NextTypeInv DEF IInv
<1> USE DEF IInv, TypeInv, TypeOK
<1>1. ASSUME NEW n \in Nodes, ListDue(n) PROVE IInv'
  <2>1. \A k \in Nodes : k # n => me'[k] = me[k] BY <1>1 DEF ListDue
  <2>2. me'[n].pc = "plan" /\ me'[n].at = now BY <1>1 DEF ListDue, Idle
  <2>3. TicksAreFresh' BY <1>1, <2>1, <2>2 DEF ListDue, TicksAreFresh
  <2>4. WinnerTook' BY <1>1, <2>1, <2>2 DEF ListDue, WinnerTook
  <2> QED BY <1>0, <1>1, <2>3, <2>4 DEF ListDue, TakenIsClaimed, KeyOfRun, runVars
<1>2. ASSUME NEW n \in Nodes, Plan(n) PROVE IInv'
  <2>1. TicksAreFresh' /\ WinnerTook'
    <3>1. CASE Finish(n) BY <1>0, <1>2, <3>1, GoesOn DEF Plan
    <3>2. CASE me' = [me EXCEPT ![n].slot = PlanSlot(me[n]), ![n].next = PlanNext(me[n]),
                         ![n].pc = IF Missed(me[n]) \/ ~available THEN "skip" ELSE "claim"]
      <4>1. \A k \in Nodes : k # n => me'[k] = me[k] BY <3>2
      <4>2. /\ me'[n].at = me[n].at /\ me'[n].slot = PlanSlot(me[n])
            /\ me'[n].pc = IF Missed(me[n]) \/ ~available THEN "skip" ELSE "claim"
        BY <3>2 DEF Tick
      <4>3. PlanSlot(me[n]) \in Times /\ me[n].at \in Times BY <1>2, PlanType DEF Plan, Tick
      <4>4. me'[n].pc = "claim" => me[n].at <= PlanSlot(me[n]) + Grace
        BY <4>2, <4>3 DEF Missed
      <4>5. now <= me[n].at + MaxStall BY <1>2 DEF Plan, TicksAreFresh
      <4>6. TicksAreFresh' BY <1>2, <4>1, <4>2, <4>4, <4>5 DEF Plan, TicksAreFresh
      <4>7. WinnerTook'
        <5> SUFFICES ASSUME NEW k \in Nodes,
                            me'[k].pc = "fire" \/ (me'[k].pc = "advance" /\ me'[k].won)
                     PROVE  takes'[me'[k].slot] = 1
          BY DEF WinnerTook
        <5>1. k # n BY <4>2
        <5>2. me'[k] = me[k] /\ takes' = takes BY <1>2, <4>1, <5>1 DEF Plan
        <5> QED BY <5>2 DEF WinnerTook
      <4> QED BY <4>6, <4>7
    <3> QED BY <1>2, <3>1, <3>2 DEF Plan
  <2> QED BY <1>0, <1>2, <2>1 DEF Plan, TakenIsClaimed, KeyOfRun, runVars
<1>3. ASSUME NEW n \in Nodes, Skip(n) PROVE IInv'
  <2>1. TicksAreFresh' /\ WinnerTook' BY <1>0, <1>3, GoesOn DEF Skip
  <2> QED BY <1>0, <1>3, <2>1 DEF Skip, TakenIsClaimed, KeyOfRun, runVars
<1>4. ASSUME NEW n \in Nodes, ClaimSlot(n) PROVE IInv'
  <2> DEFINE s == me[n].slot
  <2>1. s \in Times /\ me[n].at \in Times BY DEF Tick
  <2>2. \A k \in Nodes : k # n => me'[k] = me[k] BY <1>4 DEF ClaimSlot
  <2>3. /\ me'[n].pc = "advance" /\ me'[n].slot = s /\ me'[n].at = me[n].at
        /\ me'[n].won <=> claims[s] = Never
    BY <1>4 DEF ClaimSlot, TriggerSlotKey, Tick
  <2>4. TicksAreFresh' BY <1>4, <2>2, <2>3 DEF ClaimSlot, TicksAreFresh
  <2>5. KeyOfRun' BY <1>4 DEF ClaimSlot, KeyOfRun, runVars
  <2>6. CASE claims[s] # Never
    <3>1. claims' = claims /\ takes' = takes BY <1>4, <2>6 DEF ClaimSlot, TriggerSlotKey
    <3>2. WinnerTook' BY <2>2, <2>3, <2>6, <3>1 DEF WinnerTook
    <3> QED BY <1>0, <1>4, <2>4, <2>5, <3>1, <3>2 DEF ClaimSlot, TakenIsClaimed
  <2>7. CASE claims[s] = Never
    <3>1. claims' = [claims EXCEPT ![s] = ClaimExpiry(n)] /\ takes' = [takes EXCEPT ![s] = takes[s] + 1]
      BY <1>4, <2>7 DEF ClaimSlot, TriggerSlotKey
    <3>2. takes[s] = 0 BY <1>4, <2>7, ClaimTakesFreshSlot
    <3>3. ClaimExpiry(n) \in Nat /\ ClaimExpiry(n) >= s + ClaimTTL BY <2>1 DEF ClaimExpiry, Later
    <3>4. takes'[s] = 1 /\ claims'[s] = ClaimExpiry(n) BY <2>1, <3>1, <3>2
    <3>5. \A u \in Times : u # s => takes'[u] = takes[u] /\ claims'[u] = claims[u] BY <3>1
    <3>6. now' = now BY <1>4 DEF ClaimSlot
    <3>7. TakenIsClaimed'
      <4> SUFFICES ASSUME NEW u \in Times
                   PROVE  /\ takes'[u] \in {0, 1}
                          /\ takes'[u] = 1 => \/ claims'[u] # Never /\ claims'[u] >= u + ClaimTTL
                                              \/ now' > u + ClaimTTL
        BY DEF TakenIsClaimed
      <4>1. CASE u = s BY <3>3, <3>4, <4>1
      <4>2. CASE u # s BY <3>5, <3>6, <4>2 DEF TakenIsClaimed
      <4> QED BY <4>1, <4>2
    <3>8. WinnerTook'
      <4> SUFFICES ASSUME NEW k \in Nodes,
                          me'[k].pc = "fire" \/ (me'[k].pc = "advance" /\ me'[k].won)
                   PROVE  takes'[me'[k].slot] = 1
        BY DEF WinnerTook
      <4>1. CASE k = n BY <2>3, <3>4, <4>1
      <4>2. CASE k # n
        <5>1. me'[k] = me[k] /\ me[k].slot \in Times BY <2>2, <4>2 DEF Tick
        <5>2. takes[me[k].slot] = 1 BY <5>1 DEF WinnerTook
        <5> QED BY <3>2, <3>5, <5>1, <5>2
      <4> QED BY <4>1, <4>2
    <3> QED BY <1>0, <2>4, <2>5, <3>7, <3>8
  <2> QED BY <2>6, <2>7
<1>5. ASSUME NEW n \in Nodes, MoveOn(n) PROVE IInv'
  <2>1. TicksAreFresh' /\ WinnerTook' BY <1>0, <1>5, GoesOn DEF MoveOn
  <2> QED BY <1>0, <1>5, <2>1 DEF MoveOn, TakenIsClaimed, KeyOfRun, runVars
<1>6. ASSUME NEW n \in Nodes, FireTrigger(n) PROVE IInv'
  <2>1. TicksAreFresh' /\ WinnerTook' BY <1>0, <1>6, GoesOn DEF FireTrigger
  <2>2. KeyOfRun'
    <3>1. me[n].slot \in Times BY DEF Tick
    <3>2. CASE UNCHANGED runVars BY <3>2 DEF KeyOfRun, runVars
    <3>3. CASE /\ me[n].slot \notin keys /\ keys' = keys \cup {me[n].slot}
               /\ starts' = [starts EXCEPT ![me[n].slot] = @ + 1]
      <4>1. starts[me[n].slot] = 0 BY <3>1, <3>3 DEF KeyOfRun
      <4>2. starts' = [starts EXCEPT ![me[n].slot] = 1] BY <3>3, <4>1
      <4> QED BY <3>1, <3>3, <4>2 DEF KeyOfRun
    <3> QED BY <1>6, <3>2, <3>3 DEF FireTrigger, TriggerSlotKey
  <2> QED BY <1>0, <1>6, <2>1, <2>2 DEF FireTrigger, TakenIsClaimed
<1>7. ASSUME NEW n \in Nodes, RecordFire(n) PROVE IInv'
  <2>1. TicksAreFresh' /\ WinnerTook' BY <1>0, <1>7, GoesOn DEF RecordFire
  <2> QED BY <1>0, <1>7, <2>1 DEF RecordFire, TakenIsClaimed, KeyOfRun, runVars
<1>8. ASSUME NEW n \in Nodes, Crash(n) PROVE IInv'
  <2>1. TicksAreFresh' /\ WinnerTook' BY <1>0, <1>8, GoesOn DEF Crash
  <2> QED BY <1>0, <1>8, <2>1 DEF Crash, TakenIsClaimed, KeyOfRun, runVars
<1>9. CASE \E e \in Editors : ReadTrigger(e) \/ SaveTrigger(e)
  BY <1>0, <1>9 DEF ReadTrigger, SaveTrigger, TicksAreFresh, TakenIsClaimed, WinnerTook, KeyOfRun, runVars
<1>10. CASE RunNow \/ SwitchTarget
  BY <1>0, <1>10 DEF RunNow, SwitchTarget, TicksAreFresh, TakenIsClaimed, WinnerTook, KeyOfRun, runVars
<1>11. CASE CleanupClaims
  <2>1. TakenIsClaimed'
    <3> SUFFICES ASSUME NEW s \in Times, takes[s] = 1
                 PROVE  \/ claims'[s] # Never /\ claims'[s] >= s + ClaimTTL
                        \/ now > s + ClaimTTL
      BY <1>11 DEF CleanupClaims, TakenIsClaimed
    <3>1. claims'[s] = IF claims[s] # Never /\ claims[s] < now THEN Never ELSE claims[s]
      BY <1>11 DEF CleanupClaims
    <3>2. CASE now > s + ClaimTTL BY <3>2
    <3>3. CASE claims[s] # Never /\ claims[s] >= s + ClaimTTL
      <4>1. claims[s] \in Nat /\ now \in Nat /\ s \in Nat BY <3>3
      <4> QED BY <3>1, <3>3, <4>1
    <3> QED BY <3>2, <3>3 DEF TakenIsClaimed
  <2> QED BY <1>0, <1>11, <2>1 DEF CleanupClaims, TicksAreFresh, WinnerTook, KeyOfRun, runVars
<1>12. CASE PassTime
  <2>1. TicksAreFresh'
    <3> SUFFICES ASSUME NEW n \in Nodes
                 PROVE  /\ me[n].pc # "idle" => now + 1 <= me[n].at + MaxStall
                        /\ me[n].pc = "claim" => me[n].at <= me[n].slot + Grace
      BY <1>12 DEF PassTime, TicksAreFresh
    <3>1. me[n].at \in Nat /\ now \in Nat BY DEF Tick
    <3> QED BY <1>12, <3>1 DEF PassTime, TicksAreFresh
  <2>2. TakenIsClaimed' BY <1>12 DEF PassTime, TakenIsClaimed
  <2> QED BY <1>0, <1>12, <2>1, <2>2 DEF PassTime, WinnerTook, KeyOfRun, runVars
<1>13. CASE UNCHANGED vars
  BY <1>0, <1>13 DEF vars, TicksAreFresh, TakenIsClaimed, WinnerTook, KeyOfRun, runVars
<1> QED BY <1>1, <1>2, <1>3, <1>4, <1>5, <1>6, <1>7, <1>8, <1>9, <1>10, <1>11, <1>12, <1>13
        DEF Next, NodeStep

\* No slot starts two runs, whatever nodes, edits, failures and stalls.
THEOREM SlotsRunOnce == Spec => []SlotRunsOnce
<1>1. IInv => SlotRunsOnce BY DEF IInv, KeyOfRun, SlotRunsOnce
<1> QED BY <1>1, InitIInv, NextIInv, PTL DEF Spec

\* Every step is a step of the abstract dispatcher: a claim that is won takes a slot that
\* was never taken, and a run starts for a slot that was taken and has none.
LEMMA NextIsDispatch == IInv /\ [Next]_vars => [Dispatch!Next]_(Dispatch!vars)
<1> SUFFICES ASSUME IInv, [Next]_vars PROVE [Dispatch!Next]_(Dispatch!vars) OBVIOUS
<1> USE DEF Dispatch!vars
<1>1. ASSUME NEW n \in Nodes, ClaimSlot(n) PROVE [Dispatch!Next]_(Dispatch!vars)
  <2>1. me[n].slot \in Times BY DEF IInv, TypeInv, TypeOK, Tick
  <2>2. starts' = starts BY <1>1 DEF ClaimSlot, runVars
  <2>3. CASE claims[me[n].slot] # Never BY <1>1, <2>2, <2>3 DEF ClaimSlot, TriggerSlotKey
  <2>4. CASE claims[me[n].slot] = Never
    <3>1. takes[me[n].slot] = 0 BY <1>1, <2>4, ClaimTakesFreshSlot
    <3>2. takes' = [takes EXCEPT ![me[n].slot] = takes[me[n].slot] + 1]
      BY <1>1, <2>4 DEF ClaimSlot, TriggerSlotKey
    <3>3. takes' = [takes EXCEPT ![me[n].slot] = 1] BY <3>1, <3>2
    <3> QED BY <2>1, <2>2, <3>1, <3>3 DEF Dispatch!Next, Dispatch!Take
  <2> QED BY <2>3, <2>4
<1>2. ASSUME NEW n \in Nodes, FireTrigger(n) PROVE [Dispatch!Next]_(Dispatch!vars)
  <2>1. me[n].slot \in Times BY DEF IInv, TypeInv, TypeOK, Tick
  <2>2. takes' = takes BY <1>2 DEF FireTrigger
  <2>3. CASE UNCHANGED runVars BY <2>2, <2>3 DEF runVars
  <2>4. CASE me[n].slot \notin keys /\ starts' = [starts EXCEPT ![me[n].slot] = @ + 1]
    <3>1. starts[me[n].slot] = 0 BY <2>1, <2>4 DEF IInv, KeyOfRun
    <3>2. takes[me[n].slot] = 1 BY <1>2 DEF FireTrigger, IInv, WinnerTook
    <3>3. starts' = [starts EXCEPT ![me[n].slot] = 1] BY <2>4, <3>1
    <3> QED BY <2>1, <2>2, <3>1, <3>2, <3>3 DEF Dispatch!Next, Dispatch!Start
  <2> QED BY <1>2, <2>3, <2>4 DEF FireTrigger, TriggerSlotKey
<1>3. CASE \E n \in Nodes : \/ ListDue(n) \/ Plan(n) \/ Skip(n) \/ MoveOn(n) \/ RecordFire(n)
                            \/ Crash(n)
  BY <1>3 DEF ListDue, Plan, Skip, MoveOn, RecordFire, Crash, runVars
<1>4. CASE \E e \in Editors : ReadTrigger(e) \/ SaveTrigger(e)
  BY <1>4 DEF ReadTrigger, SaveTrigger, runVars
<1>5. CASE RunNow \/ SwitchTarget \/ CleanupClaims \/ PassTime
  BY <1>5 DEF RunNow, SwitchTarget, CleanupClaims, PassTime, runVars
<1>6. CASE UNCHANGED vars BY <1>6 DEF vars, runVars
<1> QED BY <1>1, <1>2, <1>3, <1>4, <1>5, <1>6 DEF Next, NodeStep

\* The scheduler implements the dispatcher of slots: one node takes a slot, and only a
\* slot that was taken is run, once.
THEOREM SchedulerImplementsDispatch == Spec => ImplementsSlotDispatch
<1>1. Init => Dispatch!Init BY DEF Init, Dispatch!Init
<1> QED BY <1>1, InitIInv, NextIInv, NextIsDispatch, PTL DEF Spec, ImplementsSlotDispatch, Dispatch!Spec

-----------------------------------------------------------------------------
(***************************************************************************)
(* What a tick plans, as long as nobody saves the trigger.  Its copy of    *)
(* the timing is then the trigger's, and the time it found due is one of   *)
(* its slots.                                                              *)
(***************************************************************************)
OnSchedule(s) == s \in timing.slots /\ (timing.type = "once" => s = RunAt(timing))

\* The tick m handles a slot of the schedule from its due one on, and moves on past it.
TickOnSchedule(m) ==
    m.pc # "idle" =>
        /\ m.timing = timing /\ OnSchedule(m.due) /\ m.due <= m.at
        /\ m.pc # "plan" => /\ m.slot \in timing.slots /\ m.due <= m.slot
                            /\ m.next # Never => OnSchedule(m.next) /\ m.slot < m.next

ScheduleInv ==
    /\ nextFire # Never => OnSchedule(nextFire)
    /\ \A n \in Nodes : TickOnSchedule(me[n])

\* planDueTrigger: the slot is one of the schedule, not before the due one; the next comes
\* after the tick, and so after the slot.
LEMMA PlanOnSchedule ==
    ASSUME NEW m \in Tick, timing \in Timings, m.timing = timing, OnSchedule(m.due), m.due <= m.at
    PROVE  /\ PlanSlot(m) \in timing.slots /\ m.due <= PlanSlot(m)
           /\ PlanNext(m) # Never => OnSchedule(PlanNext(m)) /\ PlanSlot(m) < PlanNext(m)
<1>1. m.due \in Nat /\ m.at \in Nat /\ timing.slots \subseteq Nat BY DEF Tick
<1>2. CASE timing.type = "once" BY <1>1, <1>2 DEF PlanSlot, PlanNext, OnSchedule
<1>3. CASE timing.type # "once"
  <2> DEFINE l == LatestSlot(timing.slots, m.at, m.due)
             x == NextSlot(timing.slots, m.at)
  <2>1. l \in timing.slots /\ l <= m.at BY DEF LatestSlot, IsLatest, OnSchedule
  <2>2. x # Never => x \in timing.slots /\ x > m.at BY DEF NextSlot, IsNext
  <2>3. PlanSlot(m) = Later(l, m.due) /\ PlanNext(m) = x BY <1>3 DEF PlanSlot, PlanNext
  <2> HIDE DEF l, x
  <2>4. Later(l, m.due) \in timing.slots /\ m.due <= Later(l, m.due) /\ Later(l, m.due) <= m.at
    BY <1>1, <2>1 DEF Later, OnSchedule
  <2> QED BY <1>1, <1>3, <2>2, <2>3, <2>4 DEF OnSchedule
<1> QED BY <1>2, <1>3

LEMMA InitScheduleInv == Init => ScheduleInv
<1> SUFFICES ASSUME Init PROVE ScheduleInv OBVIOUS
<1>1. ASSUME nextFire # Never PROVE OnSchedule(nextFire)
  <2>1. CASE timing.type = "schedule"
    BY <1>1, <2>1 DEF Init, InitialNextFireAt, NextSlot, OnSchedule
  <2>2. CASE timing.type = "once"
    <3>1. RunAt(timing) \in timing.slots BY DEF Init, RunAt
    <3> QED BY <1>1, <2>2, <3>1 DEF Init, InitialNextFireAt, OnSchedule
  <2> QED BY <2>1, <2>2 DEF Init
<1> QED BY <1>1 DEF Init, ScheduleInv, TickOnSchedule, Idle

\* The steps of a tick: it begins with what the trigger says, plans once, and then only
\* goes on, until it ends.
Begins(n) ==
    /\ me[n].pc = "idle" /\ nextFire # Never /\ nextFire <= now
    /\ me'[n].pc = "plan" /\ me'[n].at = now /\ me'[n].timing = timing /\ me'[n].due = nextFire
Plans(n) ==
    /\ me[n].pc = "plan" /\ me'[n].pc \in {"skip", "claim"}
    /\ me'[n].at = me[n].at /\ me'[n].timing = me[n].timing /\ me'[n].due = me[n].due
    /\ me'[n].slot = PlanSlot(me[n]) /\ me'[n].next = PlanNext(me[n])
Proceeds(n) ==
    /\ <<me[n].pc, me'[n].pc>> \in {<<"claim", "advance">>, <<"advance", "fire">>, <<"fire", "record">>}
    /\ me'[n].at = me[n].at /\ me'[n].timing = me[n].timing /\ me'[n].due = me[n].due
    /\ me'[n].slot = me[n].slot /\ me'[n].next = me[n].next

LEMMA TickSteps ==
    ASSUME TypeInv, NEW n \in Nodes, NodeStep(n) \/ Crash(n)
    PROVE  /\ timing' = timing
           /\ \A k \in Nodes : k # n => me'[k] = me[k]
           /\ Begins(n) \/ Plans(n) \/ Proceeds(n) \/ me'[n].pc = "idle"
<1>0. me \in [Nodes -> Tick] /\ me[n] \in Tick BY DEF TypeInv, TypeOK
<1>1. CASE ListDue(n) BY <1>0, <1>1 DEF ListDue, Idle, Begins, rowVars
<1>2. CASE Plan(n)
  <2>1. CASE Finish(n) BY <1>0, <1>2, <2>1 DEF Plan, Finish, Idle, rowVars
  <2>2. CASE me' = [me EXCEPT ![n].slot = PlanSlot(me[n]), ![n].next = PlanNext(me[n]),
                       ![n].pc = IF Missed(me[n]) \/ ~available THEN "skip" ELSE "claim"]
    BY <1>0, <1>2, <2>2 DEF Plan, Plans, Tick, rowVars
  <2> QED BY <1>2, <2>1, <2>2 DEF Plan
<1>3. CASE ClaimSlot(n)
  <2>1. PICK w : me' = [me EXCEPT ![n].won = w, ![n].pc = "advance"] BY <1>3 DEF ClaimSlot
  <2> QED BY <1>0, <1>3, <2>1 DEF ClaimSlot, Proceeds, Tick, rowVars
<1>4. CASE Skip(n) \/ MoveOn(n)
  BY <1>0, <1>4 DEF Skip, MoveOn, Advance, Finish, Goto, Idle, Proceeds, Tick
<1>5. CASE FireTrigger(n) \/ RecordFire(n) \/ Crash(n)
  BY <1>0, <1>5 DEF FireTrigger, RecordFire, Crash, Finish, Goto, Idle, Proceeds, Tick, rowVars
<1> QED BY <1>1, <1>2, <1>3, <1>4, <1>5 DEF NodeStep

LEMMA NextScheduleInv ==
    ASSUME Editors = {}, TypeInv, ScheduleInv, [Next]_vars
    PROVE  ScheduleInv'
<1>0. timing \in Timings /\ now \in Times /\ me \in [Nodes -> Tick] BY DEF TypeInv, TypeOK
<1>1. ASSUME NEW n \in Nodes, NodeStep(n) \/ Crash(n) PROVE ScheduleInv'
  <2>0. timing' = timing /\ (\A k \in Nodes : k # n => me'[k] = me[k]) BY <1>1, TickSteps
  <2>1. TickOnSchedule(me[n])'
    <3>1. CASE Begins(n)
      BY <1>0, <2>0, <3>1 DEF Begins, ScheduleInv, TickOnSchedule, OnSchedule, RunAt
    <3>2. CASE Plans(n)
      <4>1. me[n].timing = timing /\ OnSchedule(me[n].due) /\ me[n].due <= me[n].at /\ me[n] \in Tick
        BY <1>0, <3>2 DEF Plans, ScheduleInv, TickOnSchedule
      <4>2. /\ PlanSlot(me[n]) \in timing.slots /\ me[n].due <= PlanSlot(me[n])
            /\ PlanNext(me[n]) # Never
                 => OnSchedule(PlanNext(me[n])) /\ PlanSlot(me[n]) < PlanNext(me[n])
        BY <1>0, <4>1, PlanOnSchedule
      <4> QED BY <2>0, <3>2, <4>1, <4>2 DEF Plans, TickOnSchedule, OnSchedule, RunAt
    <3>3. CASE Proceeds(n)
      <4>1. TickOnSchedule(me[n]) BY DEF ScheduleInv
      <4> QED BY <2>0, <3>3, <4>1 DEF Proceeds, TickOnSchedule, OnSchedule, RunAt
    <3>4. CASE me'[n].pc = "idle" BY <3>4 DEF TickOnSchedule
    <3> QED BY <1>1, <3>1, <3>2, <3>3, <3>4, TickSteps
  <2>2. \A k \in Nodes : TickOnSchedule(me[k])'
    BY <2>0, <2>1 DEF ScheduleInv, TickOnSchedule, OnSchedule, RunAt
  <2>3. nextFire' # Never => OnSchedule(nextFire)'
    <3>1. nextFire' = nextFire \/ (me[n].pc \in {"skip", "advance"} /\ nextFire' = me[n].next)
      BY <1>1 DEF NodeStep, ListDue, Plan, Skip, ClaimSlot, MoveOn, Advance, FireTrigger, RecordFire,
                  Crash, rowVars
    <3>2. TickOnSchedule(me[n]) BY DEF ScheduleInv
    <3>3. nextFire' # Never => OnSchedule(nextFire')
      BY <3>1, <3>2 DEF ScheduleInv, TickOnSchedule
    <3> QED BY <2>0, <3>3 DEF OnSchedule, RunAt
  <2> QED BY <2>2, <2>3 DEF ScheduleInv
<1>2. ASSUME RunNow \/ SwitchTarget \/ CleanupClaims \/ PassTime \/ UNCHANGED vars PROVE ScheduleInv'
  <2>1. timing' = timing /\ nextFire' = nextFire /\ me' = me
    BY <1>2 DEF RunNow, SwitchTarget, CleanupClaims, PassTime, vars, rowVars
  <2> QED BY <2>1 DEF ScheduleInv, TickOnSchedule, OnSchedule, RunAt
<1> QED BY <1>1, <1>2 DEF Next

\* As long as nobody saves the trigger, the scheduler fires slots of its schedule only,
\* whatever nodes are slow, die or compete.  (planDueTrigger falls back on the due time when
\* the schedule has no slot to name; an edit makes that a time off the schedule.)
THEOREM UneditedFiresItsSchedule == ASSUME Editors = {} PROVE Spec => []FiresItsSchedule
<1>1. ScheduleInv => FiresItsSchedule BY DEF ScheduleInv, TickOnSchedule, FiresItsSchedule
<1>2. TypeInv /\ ScheduleInv /\ [Next]_vars => ScheduleInv' BY NextScheduleInv
<1> QED BY <1>1, <1>2, InitTypeInv, NextTypeInv, InitScheduleInv, PTL DEF Spec

-----------------------------------------------------------------------------
(***************************************************************************)
(* The order of the slots on one node.  What was started lies before the   *)
(* time the trigger is due next, and before the slot of the tick that      *)
(* fires: a tick that dies before it moves the trigger on has started      *)
(* nothing.                                                                *)
(***************************************************************************)
Passed(s) == nextFire # Never => s < nextFire
StartedPassed == \A u \in Times : starts[u] # 0 => Passed(u)
TickInOrder(m) ==
    /\ m.pc \in {"plan", "skip", "claim", "advance"} => m.due = nextFire
    /\ m.pc = "fire" => Passed(m.slot) /\ \A u \in Times : starts[u] # 0 => u < m.slot

OrderInv == StartedPassed /\ \A n \in Nodes : TickInOrder(me[n])

LEMMA InitOrderInv == Init => OrderInv
<1> SUFFICES ASSUME Init PROVE OrderInv OBVIOUS
<1>1. \A n \in Nodes : me[n].pc = "idle" BY DEF Init, Idle
<1>2. \A u \in Times : starts[u] = 0 BY DEF Init
<1> QED BY <1>1, <1>2 DEF OrderInv, StartedPassed, TickInOrder

LEMMA NextOrderInv ==
    ASSUME NEW n, Nodes = {n}, Editors = {}, TypeInv, ScheduleInv, OrderInv, [Next]_vars
    PROVE  /\ OrderInv'
           /\ \A s \in Times : starts'[s] # starts[s] => \A u \in Times : u > s => starts[u] = 0
<1>0. /\ n \in Nodes /\ me[n] \in Tick /\ TickOnSchedule(me[n]) /\ TickInOrder(me[n])
      /\ starts \in [Times -> Nat] /\ nextFire \in Times \cup {Never}
      /\ me[n].slot \in Nat /\ me[n].due \in Nat /\ me[n].next \in Nat \cup {Never}
  BY DEF TypeInv, TypeOK, ScheduleInv, OrderInv, Tick
<1>1. CASE ListDue(n)
  <2>1. me'[n].pc = "plan" /\ me'[n].due = nextFire BY <1>0, <1>1 DEF ListDue, Idle, TypeInv, TypeOK
  <2>2. nextFire' = nextFire /\ starts' = starts BY <1>1 DEF ListDue, rowVars, runVars
  <2> QED BY <2>1, <2>2 DEF OrderInv, StartedPassed, TickInOrder, Passed
<1>2. CASE Plan(n) \/ ClaimSlot(n)
  <2>1. nextFire' = nextFire /\ starts' = starts
    BY <1>2 DEF Plan, ClaimSlot, rowVars, runVars
  <2>2. Plans(n) \/ Proceeds(n) \/ me'[n].pc = "idle"
    BY <1>0, <1>2, TickSteps DEF NodeStep, Begins, Plan, ClaimSlot
  <2>3. TickInOrder(me[n])'
    BY <1>0, <1>2, <2>1, <2>2 DEF Plan, ClaimSlot, Plans, Proceeds, TickInOrder
  <2> QED BY <2>1, <2>3 DEF OrderInv, StartedPassed, Passed
<1>3. CASE Skip(n) \/ MoveOn(n)
  <2>1. me[n].pc \in {"skip", "advance"} /\ starts' = starts BY <1>3 DEF Skip, MoveOn, runVars
  <2>2. nextFire' = me[n].next BY <1>0, <1>3, <2>1 DEF Skip, MoveOn, Advance, TickInOrder
  <2>3. me[n].due = nextFire /\ me[n].due <= me[n].slot /\ (me[n].next # Never => me[n].slot < me[n].next)
    BY <1>0, <2>1 DEF TickInOrder, TickOnSchedule
  <2>4. \A u \in Times : starts[u] # 0 => u < me[n].slot
    BY <1>0, <2>3 DEF OrderInv, StartedPassed, Passed
  <2>5. StartedPassed' BY <1>0, <2>1, <2>2, <2>3, <2>4 DEF StartedPassed, Passed
  <2>6. \/ me'[n].pc = "idle"
        \/ me'[n].pc = "fire" /\ me'[n].slot = me[n].slot
    BY <1>0, <1>3, TickSteps DEF NodeStep, Skip, MoveOn, Begins, Plans, Proceeds
  <2>7. TickInOrder(me[n])' BY <2>1, <2>2, <2>3, <2>4, <2>6 DEF TickInOrder, Passed
  <2> QED BY <2>1, <2>5, <2>7 DEF OrderInv
<1>4. CASE FireTrigger(n)
  <2>1. me[n].pc = "fire" /\ nextFire' = nextFire BY <1>4 DEF FireTrigger, rowVars
  <2>2. starts' = starts \/ starts' = [starts EXCEPT ![me[n].slot] = @ + 1]
    BY <1>4 DEF FireTrigger, runVars
  <2>3. \A u \in Times : u # me[n].slot => starts'[u] = starts[u] BY <1>0, <2>2
  <2>4. StartedPassed' BY <1>0, <2>1, <2>3 DEF OrderInv, StartedPassed, TickInOrder, Passed
  <2>5. me'[n].pc \in {"record", "idle"}
    BY <1>0, <1>4, TickSteps DEF NodeStep, FireTrigger, Begins, Plans, Proceeds
  <2>6. TickInOrder(me[n])' BY <2>5 DEF TickInOrder
  <2>7. \A u \in Times : u > me[n].slot => starts[u] = 0 BY <1>0, <2>1 DEF TickInOrder
  <2> QED BY <2>3, <2>4, <2>6, <2>7 DEF OrderInv
<1>5. CASE RecordFire(n) \/ Crash(n)
  <2>1. nextFire' = nextFire /\ starts' = starts BY <1>5 DEF RecordFire, Crash, rowVars, runVars
  <2>2. me'[n].pc = "idle" BY <1>0, <1>5 DEF RecordFire, Crash, Finish, Idle, TypeInv, TypeOK
  <2> QED BY <2>1, <2>2 DEF OrderInv, StartedPassed, TickInOrder, Passed
<1>6. CASE RunNow \/ SwitchTarget \/ CleanupClaims \/ PassTime \/ UNCHANGED vars
  <2>1. nextFire' = nextFire /\ starts' = starts /\ me' = me
    BY <1>6 DEF RunNow, SwitchTarget, CleanupClaims, PassTime, vars, rowVars, runVars
  <2> QED BY <2>1 DEF OrderInv, StartedPassed, TickInOrder, Passed
<1> QED BY <1>1, <1>2, <1>3, <1>4, <1>5, <1>6 DEF Next, NodeStep

\* "Of several missed slots only the latest still within the grace fires": so it is on one
\* node whose trigger nobody saves, however late its ticks are and wherever they die.
THEOREM OneNodeFiresLatestOnly ==
    ASSUME NEW n, Nodes = {n}, Editors = {} PROVE Spec => LatestSlotOnly
<1>1. TypeInv /\ ScheduleInv /\ [Next]_vars => ScheduleInv' BY NextScheduleInv
<1>2. TypeInv /\ ScheduleInv /\ OrderInv /\ [Next]_vars => OrderInv' BY NextOrderInv
<1>3. TypeInv /\ ScheduleInv /\ OrderInv /\ [Next]_vars
        => [\A s \in Times : starts'[s] # starts[s] => \A u \in Times : u > s => starts[u] = 0]_vars
  BY NextOrderInv
<1> QED BY <1>1, <1>2, <1>3, InitTypeInv, NextTypeInv, InitScheduleInv, InitOrderInv, PTL
        DEF Spec, LatestSlotOnly

=============================================================================
