------------------------------ MODULE MCMonitors ----------------------------
(* Instances of Monitors for TLC.                                             *)
EXTENDS Monitors, TLC

CONSTANTS t1, g1, g2

NoDeps == [t \in Task |-> {}]
=============================================================================
