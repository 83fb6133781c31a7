------------------------------ MODULE Execution -----------------------------
(* What happens to a task between its claim and its end: runs start, complete *)
(* or hand off, a successor takes over, a reviewer gives a verdict, an        *)
(* operator cancels or reopens.                                               *)
(* (lib.rs, collaboration.rs, takeover.rs, acceptance.rs, task_rework.rs,     *)
(* runtime.rs of morrows-store).  Milestones, checkpoints, artifacts and the  *)
(* acceptance receipts that complete_run, create_handoff and submit_review    *)
(* also require may be present or not: the actions may fire in either case.   *)
EXTENDS WorkStore

ActiveOrExpired == {"active", "expired"}

\* enforce_execution_phase_tx and the gate: an executor in phase ready begins
\* to implement, an earlier phase is refused
MayStart(a) ==
  asg[a].role = "executor" =>
    GateEligible(asg[a].task) /\ asg[a].phase \in {"ready", "implementing"}

\* start_run with enforce_intake
StartRun(a) ==
  /\ LiveLease(a)
  /\ LiveRunsOf(a) = {}
  /\ MayStart(a)
  /\ asg' = [asg EXCEPT ![a] = [@ EXCEPT !.phase = "implementing"]]
  /\ \E x \in Run: FreshRun(x) /\ run' = [run EXCEPT ![x] = NewRun(a, "none")]
  /\ UNCHANGED <<task, requests, calls, launchVars>>

\* criterion_statuses_conn: the last review receipt of a required review
\* mutant: a missing or blocked review counts as passed
NotFailed(x) == RunTask(x) \in NeedsReview => run[x].verdict # "FAIL"
ReviewMet(x) == RunTask(x) \in NeedsReview => run[x].verdict = "PASS"

\* complete_run with the state checks of completion_check_conn
CompleteRun(x) ==
  LET a == run[x].asg
      t == asg[a].task
  IN
  /\ run[x].status \in {"running", "paused"}
  /\ LiveLease(a)
  /\ Open(t)
  /\ asg[a].role = "executor" => GateEligible(t) /\ ReviewMet(x)
  /\ run' = SetRun(run, {x}, "completed")
  /\ asg' = SetAsg(asg, {a}, "completed")
  /\ task' = IF asg[a].role = "executor" THEN SetTask(task, t, "done") ELSE task
  /\ UNCHANGED <<requests, calls, launchVars>>

\* create_handoff: the task is claimable again unless another executor is active
CreateHandoff(x) ==
  LET a == run[x].asg
      t == asg[a].task
  IN
  /\ run[x].status \in {"running", "paused"}
  /\ LiveLease(a)
  /\ run' = SetRun(run, {y \in Run: run[y].asg = a
                              /\ run[y].status \in {"running", "paused"}}, "handed_off")
  /\ asg' = SetAsg(asg, {a}, "released")
  /\ task' = IF asg[a].role = "executor" THEN Requeued(asg', t) ELSE task
  /\ UNCHANGED <<requests, calls, launchVars>>

-----------------------------------------------------------------------------
\* the runs that a takeover abandons
\* mutant: the runs of expired assignments are left alone
RunsOfOwner(t) ==
  {x \in Run: /\ OfTask(x, t) /\ RunRole(x) = "executor"
              /\ asg[run[x].asg].status = "active"
              /\ run[x].status \in {"running", "paused"}}
ExecutorRuns(t) ==
  {x \in Run: /\ OfTask(x, t) /\ RunRole(x) = "executor"
              /\ run[x].status \in {"running", "paused"}}

\* takeover_task_request by the new executor g; force is the operator's.  A
\* repeated request_id returns the recorded claim and changes nothing.
Takeover(t, g, force) ==
  LET dropped == SetAsg(asg, {a \in Asg: /\ asg[a].task = t
                                         /\ asg[a].role = "executor"
                                         /\ asg[a].status \in ActiveOrExpired},
                        "released")
      stopped == SetRun(run, ExecutorRuns(t), "abandoned")
  IN
  /\ task[t].state = "in_progress"
  /\ force \/ task[t].mode = "open"
  /\ ~UnsafePredecessor(t)
  /\ force \/ \A a \in LatestExecutor(t): ~LiveLease(a)
  /\ CanClaim(dropped, t, g, "executor")
  /\ \E a \in Asg, x \in Run:
       /\ FreshAsg(a) /\ FreshRun(x)
       /\ asg' = [dropped EXCEPT ![a] = NewAsg(t, g, "executor", "context_review")]
       /\ run' = [stopped EXCEPT ![x] = NewRun(a, "none")]
  \* the task goes to ready and, with the claim, back to in_progress
  /\ UNCHANGED <<task, requests, calls, launchVars>>

\* a run with a runtime waits for its cleanup, another one ends at once
CancelStatus(x) == IF run[x].scope = "none" THEN "cancelled" ELSE "cancelling"

\* cancel_task_tx for cancel_task and withdraw_task_as_agent
CancelTask(t) ==
  LET live == {x \in Run: OfTask(x, t) /\ run[x].status \in LiveRunStatus}
      stopped == {l \in Attempt: /\ attempt[l].status \in ActiveAttemptStatus
                                 /\ asg[attempt[l].asg].task = t}
  IN
  /\ Open(t)
  /\ task' = SetTask(task, t, "cancelled")
  /\ asg' = SetAsg(asg, {a \in Asg: asg[a].task = t /\ asg[a].status = "active"},
                   "released")
  /\ run' = [x \in Run |->
               IF x \in live
               THEN [run[x] EXCEPT !.status = CancelStatus(x)] ELSE run[x]]
  /\ requests' = {q \in requests: q[1] # t}
  /\ attempt' = [l \in Attempt |->
                   IF l \in stopped
                   THEN [attempt[l] EXCEPT !.status = "cancelled",
                           !.job = IF attempt[l].job \in {"pending", "running"}
                                   THEN "cancelled" ELSE attempt[l].job]
                   ELSE attempt[l]]
  /\ UNCHANGED <<calls, retiring, binding>>

\* a direct dependent is under way or done
\* mutant: a dependent that is done does not count
DependentBusy(t) ==
  \E d \in Task: t \in DependsOn[d] /\ task[d].state \in {"in_progress", "review"}
DependentStarted(t) ==
  \E d \in Task: t \in DependsOn[d] /\ task[d].state \in {"in_progress", "review", "done"}

\* reopen_task; whether the task has rework history is left open
ReopenTask(t) ==
  /\ task[t].state = "done"
  /\ ~DependentStarted(t)
  /\ task' = SetTask(task, t, "ready")
  /\ UNCHANGED <<asg, run, requests, calls, launchVars>>

-----------------------------------------------------------------------------
\* submit_review: reviewer run y gives its verdict on executor run x
SubmitReview(y, x, verdict) ==
  LET t == RunTask(y) IN
  /\ run[y].status = "running" /\ RunRole(y) = "reviewer"
  /\ LiveLease(run[y].asg) /\ asg[run[y].asg].phase = "implementing"
  /\ run[x].status \in {"running", "paused"} /\ RunRole(x) = "executor"
  /\ RunTask(x) = t /\ t \in NativeContract
  /\ RunAgent(x) # RunAgent(y)
  /\ run' = [run EXCEPT ![x] = [@ EXCEPT !.verdict = verdict]]
  /\ task' = SetTask(task, t, IF verdict = "FAIL" THEN "in_progress" ELSE "review")
  /\ UNCHANGED <<asg, requests, calls, launchVars>>

\* request_run_cancel: a managed run waits for its cleanup, a reviewer without
\* a runtime ends at once, an executor without one is refused
CancelManagedRun(x) ==
  /\ run[x].status \in {"running", "interrupted"}
  /\ run[x].scope # "none"
  /\ run' = SetRun(run, {x}, "cancelling")
  /\ UNCHANGED <<task, asg, requests, calls, launchVars>>

CancelReviewerRun(x) ==
  LET a == run[x].asg
      t == asg[a].task
  IN
  /\ run[x].status \in {"running", "interrupted", "cancelling"}
  /\ run[x].scope = "none"
  /\ asg[a].role = "reviewer"
  /\ run' = SetRun(run, {x}, "cancelled")
  /\ asg' = SetAsg(asg, {b \in {a}: asg[b].status = "active"}, "released")
  /\ task' = Requeued(asg, t)
  /\ UNCHANGED <<requests, calls, launchVars>>

ExecutionNext ==
  \/ \E a \in Asg: StartRun(a)
  \/ \E x \in Run:
       \/ CompleteRun(x)
       \/ CreateHandoff(x)
       \/ CancelManagedRun(x)
       \/ CancelReviewerRun(x)
  \/ \E t \in Task, g \in Agent, force \in BOOLEAN: Takeover(t, g, force)
  \/ \E t \in Task: CancelTask(t) \/ ReopenTask(t)
  \/ \E y, x \in Run, v \in Verdict: SubmitReview(y, x, v)
=============================================================================
