---------------------------- MODULE SlotDispatch ----------------------------
(***************************************************************************)
(* What a replicated scheduler promises of the slots of one schedule       *)
(* ("Exactly once across replicas without a coordinator",                  *)
(* src/src/lib/services/agents/agentTriggerScheduler.ts): a slot is taken  *)
(* by one node at most, and only who took it starts a run for it, once.    *)
(* A slot that was taken and never started is lost; none is given back.    *)
(***************************************************************************)
EXTENDS Naturals

CONSTANT Slots

VARIABLES takes, starts     \* how often a slot was taken, and started

vars == <<takes, starts>>

Init == takes = [s \in Slots |-> 0] /\ starts = [s \in Slots |-> 0]

Take(s) ==
    /\ takes[s] = 0
    /\ takes' = [takes EXCEPT ![s] = 1]
    /\ UNCHANGED starts

Start(s) ==
    /\ takes[s] = 1 /\ starts[s] = 0
    /\ starts' = [starts EXCEPT ![s] = 1]
    /\ UNCHANGED takes

Next == \E s \in Slots : Take(s) \/ Start(s)

Spec == Init /\ [][Next]_vars
=============================================================================
