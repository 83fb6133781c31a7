------------------------------- MODULE Claims -------------------------------
(* Who may execute or review a task: the operator's claim, the employee's     *)
(* open claim, assignment requests, the dispatcher, and the lease of an       *)
(* assignment from its acquisition to its expiry and recovery.                *)
(* (lib.rs, assignment_request.rs, dispatch.rs of morrows-store)              *)
EXTENDS WorkStore

\* INSERT INTO assignments ... and the move of the task, as claim_task_tx does
Claim(t, g, r, intake) ==
  /\ CanClaim(asg, t, g, r)
  /\ \E a \in Asg:
       /\ FreshAsg(a)
       /\ asg' = [asg EXCEPT ![a] = NewAsg(t, g, r, ClaimPhase(r, intake))]
  /\ task' = ClaimedTask(task, t, r)

\* Store::claim_task, the operator's assignment: no intake, any live state
ClaimTask(t, g, r) ==
  /\ Claim(t, g, r, FALSE)
  /\ UNCHANGED <<run, requests, calls, launchVars>>

\* Store::claim_task_for_execution: claim and run in one transaction, and the
\* employee's own pending request is approved along with it
ClaimForExecution(t, g, r) ==
  /\ task[t].mode = "open"
  /\ task[t].state = "ready" \/ r = "reviewer"
  /\ CanClaim(asg, t, g, r)
  /\ \E a \in Asg, x \in Run:
       /\ FreshAsg(a) /\ FreshRun(x)
       /\ asg' = [asg EXCEPT ![a] = NewAsg(t, g, r, ClaimPhase(r, TRUE))]
       /\ run' = [run EXCEPT ![x] = NewRun(a, "none")]
  /\ task' = ClaimedTask(task, t, r)
  /\ requests' = requests \ {<<t, g, r>>}
  /\ UNCHANGED <<calls, launchVars>>

-----------------------------------------------------------------------------
(* Assignment requests. *)
HasLiveAssignment(t, g, r) ==
  \E a \in ActiveFor(asg, t, r): asg[a].agent = g /\ ~asg[a].lapsed

RequestAssignment(t, g, r) ==
  /\ Open(t)
  /\ task[t].mode = "approval"
  /\ <<t, g, r>> \notin requests
  /\ ~HasLiveAssignment(t, g, r)
  /\ requests' = requests \cup {<<t, g, r>>}
  /\ UNCHANGED <<task, asg, run, calls, launchVars>>

\* resolve_assignment_request, approve: reuses the requester's live assignment
ApproveRequest(t, g, r) ==
  /\ <<t, g, r>> \in requests
  /\ task[t].mode = "approval"
  /\ Open(t)
  /\ IF HasLiveAssignment(t, g, r) THEN UNCHANGED <<task, asg>>
                                   ELSE Claim(t, g, r, TRUE)
  /\ requests' = requests \ {<<t, g, r>>}
  /\ UNCHANGED <<run, calls, launchVars>>

\* ... reject by the control plane, withdraw by the requester
CloseRequest(t, g, r) ==
  /\ <<t, g, r>> \in requests
  /\ requests' = requests \ {<<t, g, r>>}
  /\ UNCHANGED <<task, asg, run, calls, launchVars>>

-----------------------------------------------------------------------------
(* Leases.  renew_assignment needs a lease that has not lapsed and moves      *)
(* expires_at: in this abstraction it is LeaseLapses not being taken.         *)
LeaseLapses(a) ==
  /\ LiveLease(a)
  /\ asg' = [asg EXCEPT ![a] = [@ EXCEPT !.lapsed = TRUE]]
  /\ UNCHANGED <<task, run, requests, calls, launchVars>>

\* Store::expire_stale_assignments, every five seconds
ExpireStale ==
  /\ Stale # {}
  /\ asg' = SetAsg(asg, Stale, "expired")
  /\ UNCHANGED <<task, run, requests, calls, launchVars>>

\* Store::recover_assignment: the original executor takes its lease back
\* mutant: a released assignment can be taken back too
NotHeld(a) == ~LiveLease(a)
Recoverable(a) == Lapsed(a) \/ asg[a].status = "expired"

RecoverAssignment(a, x) ==
  /\ asg[a].role = "executor"
  /\ Recoverable(a)
  /\ task[asg[a].task].state = "in_progress"
  /\ ActiveFor(asg, asg[a].task, "executor") \subseteq {a}
  /\ run[x].asg = a
  /\ run[x].status \in {"running", "paused"}
  /\ asg' = [asg EXCEPT ![a] = [@ EXCEPT !.status = "active", !.lapsed = FALSE]]
  /\ UNCHANGED <<task, run, requests, calls, launchVars>>

-----------------------------------------------------------------------------
(* The dispatcher.  It expires stale leases in the same transaction and then  *)
(* chooses among online agents with capacity: any agent of the model.         *)

\* no reason of evaluate_dispatch_conn is given against the task
Dispatchable(as, t, r) ==
  /\ task[t].mode = "dispatch"
  /\ task[t].state \in {"ready", "in_progress"}
  /\ ~PredecessorRuntimeActive(t)
  /\ ~CleanupBlocked(t)
  /\ GateEligible(t)
  /\ ActiveFor(as, t, r) = {}

Dispatch(t, g, r) ==
  LET swept == SetAsg(asg, Stale, "expired") IN
  /\ Dispatchable(swept, t, r)
  /\ \E a \in Asg:
       /\ FreshAsg(a)
       /\ asg' = [swept EXCEPT ![a] = NewAsg(t, g, r, ClaimPhase(r, TRUE))]
  /\ task' = IF task[t].state = "ready" THEN SetTask(task, t, "in_progress") ELSE task
  /\ UNCHANGED <<run, requests, calls, launchVars>>

\* Store::set_task_assignment_mode, at any time
SetMode(t, m) ==
  /\ task' = [task EXCEPT ![t] = [@ EXCEPT !.mode = m]]
  /\ UNCHANGED <<asg, run, requests, calls, launchVars>>

ClaimsNext ==
  \/ \E t \in Task, g \in Agent, r \in Role:
       \/ ClaimTask(t, g, r)
       \/ ClaimForExecution(t, g, r)
       \/ RequestAssignment(t, g, r)
       \/ ApproveRequest(t, g, r)
       \/ CloseRequest(t, g, r)
       \/ Dispatch(t, g, r)
  \/ \E a \in Asg: LeaseLapses(a)
  \/ \E a \in Asg, x \in Run: RecoverAssignment(a, x)
  \/ ExpireStale
  \/ \E t \in Task, m \in AssignmentMode: SetMode(t, m)
=============================================================================
