------------------------------- MODULE Morrows ------------------------------
(* The whole of the work store: the life of tasks, assignments and runs of    *)
(* Lifecycle together with the launcher and the runtime sweep of Launch.      *)
EXTENDS Lifecycle, Launch

SysNext == LifeNext \/ LaunchNext

SysSpec == StoreInit /\ [][SysNext]_vars

-----------------------------------------------------------------------------
(* Safety. *)

\* A runtime scope is only recorded as finished once no process of its run is
\* left, and no process is started in it afterwards (complete_runtime_cleanup,
\* mark_runtime_scope_terminalized, begin_launch_attempt).
TerminalScopeIsIdle ==
  \A l \in Attempt: attempt[l].status \in {"starting", "running"} /\ attempt[l].run # 0 =>
    run[attempt[l].run].scope # "terminal"

\* While a launcher's run is interrupted or its cleanup is pending, nobody who
\* came after the run's own assignment executes the task: the successor waits
\* until the runtime has confirmed that nothing is left (claim_task_tx,
\* dispatch_task, takeover_task_request, expire_stale_assignments).
NoSuccessorBeforeCleanup ==
  \A x \in Run: run[x].status \in {"interrupted", "cleanup_pending"} =>
    \A a \in ActiveFor(asg, RunTask(x), "executor"): a <= run[x].asg

\* no external agent was ever invited
NoExternal == \A l \in Attempt: attempt[l].kind # "external"

\* Both hold until an agent is invited to start by itself: accept_external_launch
\* overlooks interrupted runs, and predecessor_runtime_active external attempts.
OneRunUntilInvited == NoExternal => OneLiveRunPerAssignment
SuccessorWaitsUntilInvited == NoExternal => NoSuccessorBeforeCleanup

\* An agent that exits without completing keeps its assignment for the restart
\* window: what ends the assignment also ends the interruption ("retains the
\* Assignment", docs/lsm-runtime.md; finish_launch_attempt, begin_expired_cleanup).
\* The code does not keep this when a second attempt of the assignment fails.
InterruptedKeepsAssignment ==
  [][\A x \in Run:
        /\ run[x].status = "interrupted" /\ run'[x].status = "interrupted"
        /\ asg[run[x].asg].status = "active"
        => asg'[run[x].asg].status = "active"]_vars

\* A task that was handed off stays fenced until the old runtime scope is
\* acknowledged to be finished: no executor is active while an earlier run that
\* handed off owns a live scope (predecessor_runtime_active, continuation.rs).
\* The code does not keep this for a provisioning that was not recorded.
HandoffIsFenced ==
  \A x \in Run: run[x].status = "handed_off" /\ run[x].scope \in {"intent", "bound"} =>
    ActiveFor(asg, RunTask(x), "executor") = {}

=============================================================================
