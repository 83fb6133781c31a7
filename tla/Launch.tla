------------------------------- MODULE Launch -------------------------------
(* The launcher: attempts to start an agent's process for an assignment, the  *)
(* runtime scope a managed run is bound to, the restart window of a run whose *)
(* process went away, the waits for runtime jobs, and the sweep that cleans   *)
(* up.  (launch.rs, runtime.rs, job_wait.rs of morrows-store; launch.rs and   *)
(* morrow_runtime.rs of morrows-server)                                       *)
(*                                                                            *)
(* The provider process and the runtime service are environment: a process    *)
(* may exit or be lost whenever its attempt is active, the runtime may answer *)
(* or fail whenever it is called.                                             *)
EXTENDS WorkStore

CONSTANT AttemptKind   \* the adapters in play: local, managed, external

ASSUME KindAssumption == AttemptKind \subseteq {"local", "managed", "external"}

ActiveLaunch(a) ==
  \E l \in Attempt: attempt[l].status \in ActiveAttemptStatus /\ attempt[l].asg = a
QueuedAttempt(a, k, x) ==
  [status |-> "queued", asg |-> a, run |-> 0, restart |-> x, kind |-> k,
   job |-> "pending"]
Invitation(a) ==
  [status |-> "awaiting_agent", asg |-> a, run |-> 0, restart |-> 0,
   kind |-> "external", job |-> "none"]

\* release_launcher_assignment_tx
ReleaseLauncher(a) ==
  /\ asg' = SetAsg(asg, {b \in {a}: asg[b].status = "active"}, "released")
  /\ task' = IF /\ asg[a].status = "active" /\ asg[a].role = "executor"
                /\ task[asg[a].task].state = "in_progress"
             THEN SetTask(task, asg[a].task, "ready") ELSE task

\* UPDATE assignments SET expires_at=MAX(expires_at,deadline) WHERE status='active'
Extended(a) ==
  IF asg[a].status = "active" THEN [asg EXCEPT ![a] = [@ EXCEPT !.lapsed = FALSE]]
                              ELSE asg

-----------------------------------------------------------------------------
(* Attempts. *)

\* enqueue_launch; the unique index adds awaiting_agent to the states checked
EnqueueLaunch(a, k) ==
  /\ LiveLease(a) /\ asg[a].role = "executor"
  /\ ~ActiveLaunch(a)
  /\ \E l \in Attempt:
       /\ FreshAttempt(l)
       /\ attempt' = [attempt EXCEPT ![l] =
            IF k = "external" THEN Invitation(a) ELSE QueuedAttempt(a, k, 0)]
  /\ UNCHANGED <<lifeVars, retiring, binding>>

\* claim_launch_job
ClaimLaunchJob(l) ==
  /\ attempt[l].status = "queued" /\ attempt[l].job = "pending"
  /\ attempt' = [attempt EXCEPT ![l] = [@ EXCEPT !.job = "running"]]
  /\ UNCHANGED <<lifeVars, retiring, binding>>

\* the provisioning intent a launch records with its run: always for a managed
\* profile, for a local one only if it may implement and a control is configured
LaunchScope(k, phase) ==
  IF k = "managed" THEN {"intent"}
  ELSE IF phase = "implementing" THEN {"none", "intent"} ELSE {"none"}

\* begin_launch_attempt: a new run, or the interrupted one running again
BeginLaunch(l, x) ==
  LET a == attempt[l].asg
      again == attempt[l].restart
      phase == IF asg[a].phase = "ready" THEN "implementing" ELSE asg[a].phase
  IN
  /\ attempt[l].status = "queued" /\ attempt[l].job = "running"
  /\ LiveLease(a)
  /\ asg[a].phase = "ready" => GateEligible(asg[a].task)
  /\ LiveRunsOf(a) \subseteq {again}
  /\ \/ /\ again = 0 /\ FreshRun(x)
        /\ \E s \in LaunchScope(attempt[l].kind, phase):
             run' = [run EXCEPT ![x] = NewRun(a, s)]
     \/ /\ again = x
        /\ run[x].status = "interrupted"
        /\ run[x].scope \in {"bound", "terminal"} /\ run[x].window = "open"
        /\ run' = [run EXCEPT ![x] = [@ EXCEPT !.status = "running", !.window = "none"]]
  /\ asg' = [asg EXCEPT ![a] = [@ EXCEPT !.phase = phase]]
  /\ attempt' = [attempt EXCEPT ![l] = [@ EXCEPT !.status = "starting", !.run = x]]
  /\ UNCHANGED <<task, requests, calls, retiring, binding>>

\* mark_launch_running
MarkRunning(l) ==
  /\ attempt[l].status = "starting"
  /\ run[attempt[l].run].status = "running"
  /\ attempt' = [attempt EXCEPT ![l] = [@ EXCEPT !.status = "running"]]
  /\ UNCHANGED <<lifeVars, retiring, binding>>

\* the run of an attempt whose process went away before the run ended
\* mutant: a run that ended otherwise is not recognised
NotCancelling(x) == x # 0 /\ run[x].status # "cancelling"
Exited(x) == x # 0 /\ run[x].status \in {"running", "paused"}

\* finish_launch_attempt on attempt l that has not ended
Finish(l, success) ==
  LET a == attempt[l].asg
      x == attempt[l].run
      stopping == x # 0 /\ run[x].status = "cancelling"
      intake == Exited(x) /\ asg[a].phase # "implementing"
      managed == Exited(x) /\ ~intake /\ run[x].scope # "none"
      waiting == managed /\ run[x].wait # "none"
  IN
  /\ attempt[l].status \in ActiveAttemptStatus
  /\ attempt' = [attempt EXCEPT ![l] =
       [@ EXCEPT !.status = IF stopping THEN "cancelled"
                            ELSE IF success THEN "completed" ELSE "failed",
                 !.job = IF attempt[l].job = "none" THEN "none"
                         ELSE IF stopping THEN "cancelled"
                         ELSE IF success THEN "done" ELSE "failed"]]
  /\ \/ /\ intake
        /\ run' = SetRun(run, {x}, IF success THEN "completed" ELSE "failed")
        /\ asg' = Extended(a) /\ UNCHANGED task
     \/ /\ managed
        /\ run' = [run EXCEPT ![x] = [@ EXCEPT
                     !.status = "interrupted",
                     !.window = IF waiting THEN "none" ELSE "open"]]
        /\ asg' = IF waiting THEN asg ELSE Extended(a)
        /\ UNCHANGED task
     \/ /\ Exited(x) /\ ~intake /\ ~managed
        /\ run' = SetRun(run, {x}, IF success THEN "paused" ELSE "failed")
        /\ ReleaseLauncher(a)
     \/ x = 0 /\ ~success /\ ReleaseLauncher(a) /\ UNCHANGED run
     \/ ~Exited(x) /\ (x = 0 => success) /\ UNCHANGED <<task, asg, run>>
  /\ UNCHANGED <<requests, calls, binding>>

\* the launcher's task for a local or managed attempt ends: the launch could
\* not begin, the process exited, or it was killed because of StopRequested
FinishLaunch(l, success) ==
  /\ attempt[l].job = "running"
  /\ success => attempt[l].status # "queued" /\ attempt[l].kind # "external"
  /\ Finish(l, success)
  /\ UNCHANGED retiring

\* launch_stop_requested, polled by every monitor
StopRequested(l) ==
  /\ attempt[l].status \in ActiveAttemptStatus
  /\ \/ ~LiveLease(attempt[l].asg)
     \/ /\ attempt[l].run # 0
        /\ run[attempt[l].run].status \in {"cancelling", "handed_off"}

\* stop_launch_attempt; its handler refuses managed runs too, but reads that
\* before the transaction, when the attempt may still be queued
StopLaunch(l) ==
  LET a == attempt[l].asg
      x == attempt[l].run
  IN
  /\ attempt[l].status \in ActiveAttemptStatus
  /\ x # 0 => run[x].scope \in {"none", "intent"}
  /\ attempt' = [attempt EXCEPT ![l] = [@ EXCEPT !.status = "cancelled",
                   !.job = IF attempt[l].job = "none" THEN "none" ELSE "cancelled"]]
  /\ run' = SetRun(run, {y \in {x} \cap Run: run[y].status \in {"running", "paused"}},
                   "paused")
  /\ ReleaseLauncher(a)
  /\ UNCHANGED <<requests, calls, retiring, binding>>

-----------------------------------------------------------------------------
(* External agents are invited and start on their own. *)

\* accept_external_launch
AcceptExternal(l) ==
  LET a == attempt[l].asg IN
  /\ attempt[l].status = "awaiting_agent"
  /\ LiveLease(a)
  /\ \A y \in Run: run[y].asg = a => run[y].status \notin {"running", "paused"}
  /\ \E x \in Run:
       /\ FreshRun(x)
       /\ run' = [run EXCEPT ![x] = NewRun(a, "none")]
       /\ attempt' = [attempt EXCEPT ![l] = [@ EXCEPT !.status = "running", !.run = x]]
  /\ UNCHANGED <<task, asg, requests, calls, retiring, binding>>

ExternalActive(l) ==
  attempt[l].kind = "external" /\ attempt[l].status \in {"awaiting_agent", "running"}
ExternalRunIs(l, status) == attempt[l].run # 0 /\ run[attempt[l].run].status = status

\* reconcile_external_launches: a completed run completes its attempt ...
CompleteExternal(l) ==
  /\ ExternalActive(l) /\ ExternalRunIs(l, "completed")
  /\ Finish(l, TRUE)
  /\ UNCHANGED retiring

\* ... an ended assignment fails it, but that is read before the transaction
RetireExternal(l) ==
  /\ ExternalActive(l) /\ ~ExternalRunIs(l, "completed")
  /\ ExternalRunIs(l, "failed") \/ ~LiveLease(attempt[l].asg)
  /\ retiring' = retiring \cup {l}
  /\ UNCHANGED <<lifeVars, attempt, binding>>

FailExternal(l) ==
  /\ l \in retiring
  /\ retiring' = retiring \ {l}
  /\ IF attempt[l].status \in ActiveAttemptStatus
     THEN Finish(l, FALSE)
     ELSE UNCHANGED <<lifeVars, attempt, binding>>

-----------------------------------------------------------------------------
(* The runtime scope of a run. *)

\* The runs that unbound_runtime_runs replays on every sweep
\* mutant: a cancelled run is not provisioned any more
UncancelledStatus ==
  {"running", "interrupted", "cleanup_pending", "handed_off", "completed"}
\* mutant: an ended run is not
UnendedStatus == {"running", "interrupted", "cancelling", "cleanup_pending"}
ReplayStatus ==
  {"running", "interrupted", "cancelling", "cleanup_pending", "handed_off", "completed"}

\* provision_run up to its call of the runtime, by the launcher and the sweep
\* for a recorded intent, or through MCP by an implementing executor
ProvisionStart(x) ==
  LET a == run[x].asg IN
  /\ x \notin binding
  /\ \/ run[x].scope = "intent" /\ run[x].status \in ReplayStatus
     \/ /\ run[x].scope = "none" /\ run[x].status = "running"
        /\ LiveLease(a) /\ asg[a].role = "executor"
        /\ asg[a].phase = "implementing"
        /\ task[asg[a].task].state \in {"in_progress", "review"}
  /\ binding' = binding \cup {x}
  /\ UNCHANGED <<lifeVars, attempt, retiring>>

\* bind_run_runtime.  It refuses a run whose status is not in ReplayStatus, but
\* reads the status before its transaction: the run may have been cancelled,
\* paused or abandoned since, at any point after ProvisionStart.
Bind(x) ==
  /\ x \in binding /\ run[x].status # "none"
  /\ binding' = binding \ {x}
  /\ run' = IF run[x].scope \in {"none", "intent"}
            THEN [run EXCEPT ![x] = [@ EXCEPT !.scope = "bound"]] ELSE run
  /\ UNCHANGED <<task, asg, requests, calls, attempt, retiring>>

ProvisionFails(x) ==
  /\ x \in binding
  /\ binding' = binding \ {x}
  /\ UNCHANGED <<lifeVars, attempt, retiring>>

-----------------------------------------------------------------------------
(* Restarts and waits.  Both queue a new attempt for the interrupted run.     *)
QueueRestart(x) ==
  /\ ~ActiveLaunch(run[x].asg)
  /\ \E l, last \in Attempt:
       /\ FreshAttempt(l)
       /\ attempt[last].run = x
       /\ \A m \in Attempt: m > last => attempt[m].run # x
       /\ attempt' = [attempt EXCEPT ![l] = 
            QueuedAttempt(run[x].asg, attempt[last].kind, x)]

\* enqueue_run_restart, by an operator or because a delivery waits for the agent
RestartRun(x) ==
  /\ run[x].status = "interrupted"
  /\ run[x].scope \in {"bound", "terminal"} /\ run[x].window = "open"
  /\ LiveLease(run[x].asg)
  /\ QueueRestart(x)
  /\ UNCHANGED <<lifeVars, retiring, binding>>

\* register_run_job_wait; ready at once if the job's event came first
RegisterWait(x, status) ==
  /\ run[x].status = "running" /\ run[x].scope \in {"bound", "terminal"}
  /\ run[x].wait = "none"
  /\ status \in {"pending", "ready"}
  /\ run' = [run EXCEPT ![x] = [@ EXCEPT !.wait = status]]
  /\ UNCHANGED <<task, asg, requests, calls, launchVars>>

\* ingest_runtime_job_terminal_event
JobTerminal(x) ==
  /\ run[x].wait = "pending"
  /\ run' = [run EXCEPT ![x] = [@ EXCEPT !.wait = "ready"]]
  /\ UNCHANGED <<task, asg, requests, calls, launchVars>>

\* enqueue_run_restart for a wait: it opens a window and extends the lease
ResumeWait(x) ==
  LET a == run[x].asg IN
  /\ run[x].status = "interrupted" /\ run[x].wait = "ready"
  /\ asg[a].status = "active"
  /\ QueueRestart(x)
  /\ run' = [run EXCEPT ![x] =
               [@ EXCEPT !.window = "open", !.wait = "none", !.queued = TRUE]]
  /\ asg' = Extended(a)
  /\ UNCHANGED <<task, requests, calls, retiring, binding>>

-----------------------------------------------------------------------------
(* The runtime sweep, every five seconds. *)

\* renew_interrupted_assignments
RenewInterrupted(x) ==
  LET a == run[x].asg IN
  /\ run[x].status = "interrupted" /\ run[x].window = "open"
  /\ Lapsed(a)
  /\ asg' = Extended(a)
  /\ UNCHANGED <<task, run, requests, calls, launchVars>>

\* the restart window of an interrupted run passes
WindowCloses(x) ==
  /\ run[x].status = "interrupted" /\ run[x].window = "open"
  /\ run' = [run EXCEPT ![x] = [@ EXCEPT !.window = "closed"]]
  /\ UNCHANGED <<task, asg, requests, calls, launchVars>>

\* begin_expired_cleanup
BeginExpiredCleanup(x) ==
  LET a == run[x].asg IN
  /\ run[x].status = "interrupted" /\ run[x].window = "closed"
  /\ run' = SetRun(run, {x}, "cleanup_pending")
  /\ asg' = SetAsg(asg, {b \in {a}: asg[b].status = "active"}, "released")
  /\ UNCHANGED <<task, requests, calls, launchVars>>

\* has_active_launch_attempt: the process may still be there
\* mutant: a process that is only starting is overlooked
ProcessRunning(x) ==
  \E l \in Attempt: attempt[l].run = x /\ attempt[l].status = "running"
ProcessActive(x) ==
  \E l \in Attempt: attempt[l].run = x /\ attempt[l].status \in {"starting", "running"}

\* the runs that pending_runtime_cleanup selects, and the task afterwards
\* mutant: an expired restart window is not cleaned up
CancelledOnly == {"cancelling"}
CleaningStatus == {"cleanup_pending", "cancelling"}

\* mutant: the state of the task is not looked at
AlwaysReady(t) == SetTask(task, t, "ready")
CleanedTask(t) ==
  IF task[t].state = "in_progress" THEN SetTask(task, t, "ready") ELSE task

\* complete_runtime_cleanup, once the runtime has confirmed that nothing runs
CompleteCleanup(x) ==
  LET a == run[x].asg
      t == asg[a].task
  IN
  /\ run[x].status \in CleaningStatus
  /\ run[x].scope \in {"bound", "terminal"}
  /\ ~ProcessActive(x)
  /\ run' = [run EXCEPT ![x] = [@ EXCEPT
               !.status = IF run[x].status = "cancelling" THEN "cancelled" ELSE "failed",
               !.scope = "terminal"]]
  /\ asg' = SetAsg(asg, {b \in {a}: asg[b].status = "active"}, "released")
  /\ task' = CleanedTask(t)
  /\ UNCHANGED <<requests, calls, launchVars>>

\* mark_runtime_scope_terminalized for a run that completed or handed off
Terminalize(x) ==
  /\ run[x].status \in {"completed", "handed_off"} /\ run[x].scope = "bound"
  /\ ~ProcessActive(x)
  /\ run' = [run EXCEPT ![x] = [@ EXCEPT !.scope = "terminal"]]
  /\ UNCHANGED <<task, asg, requests, calls, launchVars>>

-----------------------------------------------------------------------------
\* The daemon stops and starts again: calls in flight are gone, and
\* recover_launch_jobs_after_restart returns claimed jobs that did not begin.
\* Local processes are finished as failed, one FinishLaunch each; managed ones
\* are monitored again.
DaemonRestart ==
  /\ attempt' = [l \in Attempt |->
       IF attempt[l].status = "queued" /\ attempt[l].job = "running"
       THEN [attempt[l] EXCEPT !.job = "pending"] ELSE attempt[l]]
  /\ calls' = {} /\ retiring' = {} /\ binding' = {}
  /\ UNCHANGED <<task, asg, run, requests>>

\* what the launcher's own task reports about an attempt
ReportNext ==
  \E l \in Attempt: MarkRunning(l) \/ \E success \in BOOLEAN: FinishLaunch(l, success)

\* what the sweep records once the runtime has confirmed it
ConfirmNext == \E x \in Run: CompleteCleanup(x) \/ Terminalize(x)

ControlNext ==
  \/ \E a \in Asg, k \in AttemptKind: EnqueueLaunch(a, k)
  \/ \E l \in Attempt:
       \/ ClaimLaunchJob(l)
       \/ \E x \in Run: BeginLaunch(l, x)
       \/ StopLaunch(l)
       \/ AcceptExternal(l)
       \/ CompleteExternal(l)
       \/ RetireExternal(l)
       \/ FailExternal(l)
  \/ \E x \in Run:
       \/ ProvisionStart(x)
       \/ Bind(x)
       \/ ProvisionFails(x)
       \/ RestartRun(x)
       \/ \E status \in {"pending", "ready"}: RegisterWait(x, status)
       \/ JobTerminal(x)
       \/ ResumeWait(x)
       \/ RenewInterrupted(x)
       \/ WindowCloses(x)
       \/ BeginExpiredCleanup(x)

LaunchNext == ReportNext \/ ConfirmNext \/ ControlNext \/ DaemonRestart
=============================================================================
