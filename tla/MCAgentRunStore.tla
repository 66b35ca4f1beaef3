--------------------------- MODULE MCAgentRunStore ---------------------------
(* Instances of AgentRunStore for TLC: every run in one conversation. *)
EXTENDS AgentRunStore, TLC

CONSTANTS r1, r2, r3, c1

MCConvs == {c1}
MCConvOf2 == [r \in {r1, r2} |-> c1]
MCConvOf3 == [r \in {r1, r2, r3} |-> c1]

\* Runs are alike, all of one conversation, and so are callers.
Alike == Permutations(Runs) \cup Permutations(Procs)

=============================================================================
