----------------------------- MODULE MCLifecycle ----------------------------
(* Instances of Lifecycle for TLC.                                            *)
EXTENDS Lifecycle, TLC

CONSTANTS t1, t2, g1, g2

NoDeps == [t \in Task |-> {}]
T2AfterT1 == [t \in Task |-> IF t = t2 THEN {t1} ELSE {}]
Agents == Permutations(Agent)
=============================================================================
