----------------------------- MODULE MCContract -----------------------------
(* A task with a check that also needs a review, and a criterion that a human *)
(* decides.  Evidence is compared and cited only, so its members are          *)
(* interchangeable.                                                           *)
EXTENDS Contract, TLC

CONSTANTS e1, e2

SameEvidence == Permutations({e1, e2})
=============================================================================
