------------------------------ MODULE MCMorrows -----------------------------
(* Instances of Morrows for TLC.                                              *)
EXTENDS Morrows, TLC

CONSTANTS t1, g1, g2

NoDeps == [t \in Task |-> {}]
Agents == Permutations(Agent)
=============================================================================
