---------------------------- MODULE MCTaskGraph ----------------------------
(* Three tasks and a chain; a result either meets a condition or not.  Tasks  *)
(* differ only by what happens to them.                                       *)
EXTENDS TaskGraph, TLC

CONSTANTS t1, t2, t3

SameTasks == Permutations({t1, t2, t3})
=============================================================================
