------------------------ MODULE MCAgentRunAdmission ------------------------
(* Instances of AgentRunAdmission for TLC. *)
EXTENDS AgentRunAdmission

CONSTANTS a, b, c, d, k

\* Two identical requests with a key, and the others without one.
TwoAlike == [r \in Requests |-> IF r \in {a, b} THEN k ELSE NoKey]

=============================================================================
