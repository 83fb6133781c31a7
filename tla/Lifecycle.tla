------------------------------ MODULE Lifecycle -----------------------------
(* The work store under its operators, employees and periodic sweeps, without *)
(* the launcher: every run is one that an employee started over MCP.          *)
EXTENDS Claims, Execution, Intake

LifeNext == ClaimsNext \/ ExecutionNext \/ IntakeNext

LifeSpec == StoreInit /\ [][LifeNext]_vars

-----------------------------------------------------------------------------
(* Ownership. *)

\* At most one active assignment holds a role of a task, whatever claims,
\* dispatches, takeovers and recoveries interleave (claim_task_tx,
\* recover_assignment, insert_dispatch_assignment_tx).
OneActivePerRole ==
  \A a, b \in Asg:
    /\ asg[a].status = "active" /\ asg[b].status = "active"
    /\ asg[a].task = asg[b].task /\ asg[a].role = asg[b].role
    => a = b

\* An assignment has at most one run that has not ended: two processes never
\* work under the same lease (start_run_tx, claim_task_for_execution, takeover).
OneLiveRunPerAssignment ==
  \A x, y \in Run:
    /\ run[x].status \in LiveRunStatus /\ run[y].status \in LiveRunStatus
    /\ run[x].asg = run[y].asg
    => x = y

\* A task offered to the queue has no executor: nobody is working behind the
\* back of the next claimant (handoff, takeover, reviewer cancel, reopen).
ReadyMeansUnowned ==
  \A t \in Task: task[t].state = "ready" => ActiveFor(asg, t, "executor") = {}

\* Without the launcher a run that can still act has an assignment that is
\* active or could be recovered: ending an assignment ends its runs.
LiveRunHasOpenAssignment ==
  \A x \in Run: run[x].status \in {"running", "paused"} =>
     asg[run[x].asg].status \in {"active", "expired"}

\* A finished task has no executor that could still complete or hand it off.
DoneHasNoExecutor ==
  \A t \in Task: task[t].state = "done" => ActiveFor(asg, t, "executor") = {}

\* Cancelling a task leaves nothing of it able to act or to be approved later:
\* every lease released, every run ended or on its way to its cleanup, no
\* request pending, although any of them may be created concurrently.
CancelledIsQuiet ==
  \A t \in Task: task[t].state = "cancelled" =>
    /\ \A a \in Asg: asg[a].task = t => asg[a].status # "active"
    /\ \A x \in Run: OfTask(x, t) /\ run[x].status \in LiveRunStatus =>
         run[x].status \in {"cancelling", "cleanup_pending"}
    /\ \A q \in requests: q[1] # t

-----------------------------------------------------------------------------
(* Steps. *)

\* A released or completed assignment is never revived: recovery is for leases
\* that time took away, not for those a handoff, takeover or cancel ended.
EndedAssignmentsStayEnded ==
  [][\A a \in Asg: asg[a].status \in {"released", "completed"} =>
        asg'[a].status = asg[a].status]_vars

\* A run that ended keeps its outcome.
EndedRunsStayEnded ==
  [][\A x \in Run: run[x].status \in EndedRunStatus =>
        run'[x].status = run[x].status]_vars

\* A cancelled task stays cancelled, a late verdict or handoff included.
CancelledIsFinal ==
  [][\A t \in Task: task[t].state = "cancelled" => task'[t].state = "cancelled"]_vars

\* A lease that has not lapsed is taken only where a run of its assignment ends or
\* has ended, with the task, or in a forced takeover: while all its runs go on no
\* claim, dispatch, expiry sweep or recovery of another agent takes it away.
\* (An ordinary takeover from an owner that recovered ends its run and so is let
\* pass here: see TakeoverSparesLiveOwner.)
LiveLeaseIsNotRevoked ==
  [][\A a \in Asg: LiveLease(a) /\ asg'[a].status # "active" =>
       \/ task'[asg[a].task].state = "cancelled"
       \/ \E x \in Run: run[x].asg = a /\ run'[x].status \in EndedRunStatus
       \/ \E g \in Agent: Takeover(asg[a].task, g, TRUE)]_vars

\* A verdict only moves work that is open: a task that is done leaves that state
\* through a reopening and nothing else (submit_review, complete_run; "Only
\* successful executor completion marks done", docs/acceptance-contracts.md).
DoneOnlyReopens ==
  [][\A t \in Task: task[t].state = "done" =>
        task'[t].state \in {"done", "ready"}]_vars

\* An ordinary takeover is for a task whose executor lost its lease: whenever
\* one is granted no executor of the task holds a lease that is still good
\* (takeover_task_request, latest_executor; docs/task-takeover.md).  The code does
\* not keep this after a recovery.
TakeoverSparesLiveOwner ==
  [][\A t \in Task, g \in Agent: Takeover(t, g, FALSE) =>
        \A a \in ActiveFor(asg, t, "executor"): ~LiveLease(a)]_vars

-----------------------------------------------------------------------------
(* Intake. *)

\* An assignment goes through its intake in order: no call, late answer or launch
\* moves it to implementing from an earlier phase than ready
\* (begin_task_execution, start_run, begin_launch_attempt), and an interview that
\* was thrown away while its last call was in flight does not converge: after a
\* changed snapshot or project the agent reads again (finalize_intake_interview
\* against record_intake_read, set_task_project).
PhasesInOrder ==
  [][\A a \in Asg:
       asg[a].status # "none" =>
         /\ asg'[a].phase = "implementing" => asg[a].phase \in {"ready", "implementing"}
         /\ asg'[a].phase = "ready" => asg[a].phase # "context_review"]_vars

\* Once an executor implements, its intake is closed: no call that was in
\* flight takes the permission back ("task execution already started; intake
\* receipts are no longer mutable", intake.rs).  The code does not keep this: the
\* phase is read before the transaction.
ImplementingIsNotUndone ==
  [][\A a \in Asg: asg[a].phase = "implementing" => asg'[a].phase = "implementing"]_vars

-----------------------------------------------------------------------------
(* Reviews and dependencies. *)

\* The executor of a task with an acceptance contract does not review its own
\* work: no agent holds both roles (claim_task_tx, recover_assignment,
\* insert_dispatch_assignment_tx; docs/task-takeover.md).  The code does not keep
\* this: recover_assignment does not look.
SeparateReviewer ==
  \A t \in NativeContract:
    \A a \in ActiveFor(asg, t, "executor"), b \in ActiveFor(asg, t, "reviewer"):
      asg[a].agent # asg[b].agent

\* A task that needs an independent review is not done without one: the run
\* that finished it was passed by the last verdict on it, whatever takeovers,
\* recoveries and verdicts on other runs happened meanwhile (complete_run,
\* submit_review).
DoneWasReviewed ==
  \A t \in NeedsReview: task[t].state = "done" =>
    \E x \in Run: /\ OfTask(x, t) /\ RunRole(x) = "executor"
                  /\ run[x].status = "completed" /\ run[x].verdict = "PASS"

\* A finished task rests on finished tasks: a prerequisite is not reopened
\* under a dependent that used its completion (complete_run, reopen_task).
DoneRestsOnDone ==
  \A t \in Task: task[t].state = "done" => GateEligible(t)
=============================================================================
