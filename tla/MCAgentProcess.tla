--------------------------- MODULE MCAgentProcess ---------------------------
(* Instances of AgentProcess for TLC.                                         *)
EXTENDS AgentProcess, TLC

CONSTANTS t1, g1, m1

NoDeps == [t \in Task |-> {}]
Messages == Permutations(Message)
=============================================================================
