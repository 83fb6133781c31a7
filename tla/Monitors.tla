------------------------------ MODULE Monitors ------------------------------
(* Who is there to notice the end of a process.  An attempt that has begun is *)
(* watched by a task of the daemon (execute_claimed_launch, or after a restart *)
(* monitor_remote_agent for the managed ones).  The task leaves at the first  *)
(* call that fails, and if its last report fails as well, or nobody is there  *)
(* to report for it (recover_remote_launch_monitors only logs the error), the *)
(* attempt stays where it is until the daemon starts again.  What must happen *)
(* in the end is therefore stated here, and promised only of what is watched. *)
EXTENDS Morrows

VARIABLE unwatched  \* attempts whose task left without a report (volatile)

monitorVars == <<vars, unwatched>>

\* The launcher began it; an agent that accepted its invitation has no job.
Begun(l) == attempt[l].job = "running" /\ attempt[l].status \in {"starting", "running"}

\* A call of the store or the revocation fails, and so does the report.
MonitorLost(l) ==
  /\ Begun(l) /\ l \notin unwatched
  /\ unwatched' = unwatched \cup {l}
  /\ UNCHANGED vars

\* mark_launch_running and finish_launch_attempt, by the task that watches
WatchedReport(l) ==
  /\ l \notin unwatched
  /\ MarkRunning(l) \/ \E success \in BOOLEAN: FinishLaunch(l, success)
  /\ UNCHANGED unwatched

\* The local attempts are failed before anything is served; the managed ones are
\* watched again, but for those that cannot be resolved any more; the restart of
\* an external agent's run is neither (recover_remote_launch_monitors).
BegunBy(k) == {l \in Attempt: Begun(l) /\ attempt[l].kind = k}

MonitoredRestart ==
  /\ DaemonRestart
  /\ \E lost \in SUBSET BegunBy("managed"): unwatched' = lost \cup BegunBy("external")

MonitorNext ==
  \/ (LifeNext \/ ControlNext \/ ConfirmNext) /\ UNCHANGED unwatched
  \/ \E l \in Attempt: MonitorLost(l) \/ WatchedReport(l)
  \/ MonitoredRestart

MonitorSpec == StoreInit /\ unwatched = {} /\ [][MonitorNext]_monitorVars

-----------------------------------------------------------------------------
(* Fairness.  The sweep runs for ever, the runtime answers again and again, a *)
(* process that was told to stop ends while somebody watches it, and time     *)
(* passes.                                                                    *)
Stopped(l) ==
  /\ Begun(l) /\ l \notin unwatched /\ StopRequested(l)
  /\ FinishLaunch(l, FALSE) /\ UNCHANGED unwatched

Fairness ==
  /\ \A x \in Run:
       /\ WF_monitorVars(ProvisionStart(x) /\ UNCHANGED unwatched)
       /\ SF_monitorVars(Bind(x) /\ UNCHANGED unwatched)
       /\ WF_monitorVars(WindowCloses(x) /\ UNCHANGED unwatched)
       /\ WF_monitorVars(BeginExpiredCleanup(x) /\ UNCHANGED unwatched)
       /\ WF_monitorVars(CompleteCleanup(x) /\ UNCHANGED unwatched)
       /\ WF_monitorVars(Terminalize(x) /\ UNCHANGED unwatched)
  /\ \A l \in Attempt:
       /\ WF_monitorVars(Stopped(l))
       /\ WF_monitorVars(CompleteExternal(l) /\ UNCHANGED unwatched)
       /\ WF_monitorVars(RetireExternal(l) /\ UNCHANGED unwatched)
       /\ SF_monitorVars(FailExternal(l) /\ UNCHANGED unwatched)

FairMonitorSpec == MonitorSpec /\ Fairness

\* an external agent still holds its lease: the server cannot stop it
Held(x) ==
  \E l \in Attempt:
    attempt[l].run = x /\ ExternalActive(l) /\ LiveLease(attempt[l].asg)

\* nobody would notice the end of a process of the run before the next restart
Unnoticed(x) == \E l \in unwatched: attempt[l].run = x /\ Begun(l)

\* A cancelled run comes to an end, whether its scope was bound, being bound or
\* only intended when the cancel came, as soon as no external agent holds on to
\* it, unless the monitor of its process is lost: then it waits for the daemon to
\* start again and to watch the process (run_cancel, runtime_sweep,
\* monitor_remote_agent, reconcile_external_launches).
CancellingEnds ==
  \A x \in Run:
    run[x].status = "cancelling" /\ ~Held(x) ~>
      run[x].status = "cancelled" \/ Unnoticed(x)

\* A run whose agent went away does not block its task for ever: it runs again
\* within the restart window or is cleaned up, even where a monitor is lost
\* (runtime_sweep).
InterruptionResolves ==
  \A x \in Run:
    /\ run[x].status = "interrupted" /\ run[x].window # "none"
    ~> run[x].status \notin {"interrupted", "cleanup_pending"}

\* The scope of a run that completed or handed off is finished in the end, and
\* with it the fence that keeps the successor out, unless the monitor of its
\* process is lost (runtime_sweep, monitor_remote_agent).
EndedScopeIsFinished ==
  \A x \in Run:
    /\ run[x].status \in {"completed", "handed_off"}
    /\ run[x].scope \in {"intent", "bound"}
    ~> run[x].scope = "terminal" \/ Unnoticed(x)
=============================================================================
