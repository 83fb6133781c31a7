--------------------------- MODULE MCProjectMemory --------------------------
(* Instances of ProjectMemory for TLC.                                        *)
EXTENDS ProjectMemory
=============================================================================
