--------------------------- MODULE LifecycleProofs ---------------------------
(* Theorems that relate the tables to each other: who works under which       *)
(* assignment, what a successor may find of its predecessor, and on what a    *)
(* finished task rests.                                                       *)
EXTENDS OwnershipProofs

-----------------------------------------------------------------------------
(* What a step does to an attempt.                                            *)
AttemptStep(p, q) ==
  /\ p.status = "none" <=> q.status = "none"
  /\ q.asg = p.asg /\ q.run = p.run /\ q.restart = p.restart /\ q.kind = p.kind
  /\ q.status \in ActiveAttemptStatus =>
       \/ p.status = q.status
       \/ p.status = "starting" /\ q.status = "running"

\* l is inserted for an executor, at its invitation or for one of its runs
Queues(l) ==
  \E a \in Asg:
    /\ FreshAttempt(l)
    /\ \A m \in Attempt \ {l}: attempt'[m] = attempt[m]
    /\ ~ActiveLaunch(a)
    /\ \/ \E k \in AttemptKind:
            /\ asg[a].role = "executor" /\ LiveLease(a)
            /\ attempt'[l] = IF k = "external" THEN Invitation(a) ELSE QueuedAttempt(a, k, 0)
       \/ \E x \in Run, last \in Attempt:
            /\ run[x].status = "interrupted" /\ run[x].asg = a
            /\ attempt[last].run = x
            /\ attempt'[l] = QueuedAttempt(a, attempt[last].kind, x)

Starts(l) == AcceptExternal(l) \/ \E x \in Run: BeginLaunch(l, x)

AttemptSteps ==
  \A l \in Attempt: AttemptStep(attempt[l], attempt'[l]) \/ Queues(l) \/ Starts(l)

LEMMA SameAttempts == ASSUME UNCHANGED attempt PROVE AttemptSteps
BY DEF AttemptSteps, AttemptStep

LEMMA OneAttempt ==
  ASSUME TypeOK, NEW l \in Attempt, NEW q, attempt' = [attempt EXCEPT ![l] = q],
         AttemptStep(attempt[l], q) \/ Queues(l) \/ Starts(l)
  PROVE  AttemptSteps
<1>1. attempt'[l] = q /\ \A m \in Attempt \ {l}: attempt'[m] = attempt[m]
  BY DEF TypeOK, AttemptTable
<1>2. \A m \in Attempt \ {l}: AttemptStep(attempt[m], attempt'[m])
  BY <1>1 DEF AttemptStep
<1> QED BY <1>1, <1>2 DEF AttemptSteps

\* An attempt ends, or its job moves.
LEMMA EndedAttempt ==
  ASSUME NEW p \in AttemptRow, NEW st \in EndedAttemptStatus, NEW j
  PROVE  /\ AttemptStep(p, [p EXCEPT !.status = st, !.job = j])
         /\ AttemptStep(p, [p EXCEPT !.job = j])
BY DEF AttemptStep, AttemptRow, ActiveAttemptStatus, EndedAttemptStatus

LEMMA FinishAttempts ==
  ASSUME TypeOK, NEW l \in Attempt, NEW success \in BOOLEAN, Finish(l, success)
  PROVE  AttemptSteps
<1>1. attempt[l] \in AttemptRow
  BY UsedAttempt DEF Finish, ActiveAttemptStatus
<1>2. \E st \in EndedAttemptStatus, j \in JobStatus:
        attempt' = [attempt EXCEPT ![l] = [@ EXCEPT !.status = st, !.job = j]]
  BY <1>1 DEF Finish, EndedAttemptStatus, AttemptRow, JobStatus
<1> QED BY <1>1, <1>2, EndedAttempt, OneAttempt

LEMMA RestartAttempts ==
  ASSUME TypeOK, NEW x \in Run, run[x].status = "interrupted", QueueRestart(x)
  PROVE  AttemptSteps
<1>1. run[x].asg \in Asg
  BY UsedRows
<1>2. PICK l \in Attempt, last \in Attempt:
        /\ FreshAttempt(l) /\ attempt[last].run = x
        /\ attempt' = [attempt EXCEPT ![l] =
             QueuedAttempt(run[x].asg, attempt[last].kind, x)]
  BY DEF QueueRestart
<1>3. /\ attempt'[l] = QueuedAttempt(run[x].asg, attempt[last].kind, x)
      /\ \A m \in Attempt \ {l}: attempt'[m] = attempt[m]
  BY <1>2 DEF TypeOK, AttemptTable
<1>4. Queues(l)
  BY <1>1, <1>2, <1>3 DEF Queues, QueueRestart
<1> QED BY <1>2, <1>4, OneAttempt

LEMMA LaunchAttempts ==
  ASSUME TypeOK, LaunchNext
  PROVE  AttemptSteps
<1>1. ASSUME NEW l \in Attempt,
             \/ ClaimLaunchJob(l) \/ MarkRunning(l) \/ StopLaunch(l)
      PROVE  AttemptSteps
  <2>1. attempt[l] \in AttemptRow
    BY <1>1, UsedAttempt DEF ClaimLaunchJob, MarkRunning, StopLaunch, ActiveAttemptStatus
  <2>2. CASE StopLaunch(l)
    <3> DEFINE j == IF attempt[l].job = "none" THEN "none" ELSE "cancelled"
    <3>1. attempt' = [attempt EXCEPT ![l] = [@ EXCEPT !.status = "cancelled", !.job = j]]
      BY <2>2 DEF StopLaunch
    <3> HIDE DEF j
    <3> QED BY <2>1, <3>1, EndedAttempt, OneAttempt DEF EndedAttemptStatus
  <2>3. CASE ClaimLaunchJob(l)
    BY <2>1, <2>3, EndedAttempt, OneAttempt DEF ClaimLaunchJob, EndedAttemptStatus
  <2>4. CASE MarkRunning(l)
    <3>1. AttemptStep(attempt[l], [attempt[l] EXCEPT !.status = "running"])
      BY <2>1, <2>4 DEF MarkRunning, AttemptStep, AttemptRow, ActiveAttemptStatus
    <3> QED BY <2>4, <3>1, OneAttempt DEF MarkRunning
  <2> QED BY <1>1, <2>2, <2>3, <2>4
<1>2. ASSUME NEW l \in Attempt,
             \/ \E success \in BOOLEAN: FinishLaunch(l, success)
             \/ CompleteExternal(l) \/ FailExternal(l) \/ RetireExternal(l)
      PROVE  AttemptSteps
  BY <1>2, FinishAttempts, SameAttempts
     DEF FinishLaunch, CompleteExternal, FailExternal, RetireExternal
<1>3. ASSUME NEW l \in Attempt, AcceptExternal(l) \/ \E x \in Run: BeginLaunch(l, x)
      PROVE  AttemptSteps
  <2>1. Starts(l)
    BY <1>3 DEF Starts
  <2>2. \E q: attempt' = [attempt EXCEPT ![l] = q]
    BY <1>3 DEF AcceptExternal, BeginLaunch
  <2> QED BY <2>1, <2>2, OneAttempt
<1>4. ASSUME NEW a \in Asg, NEW k \in AttemptKind, EnqueueLaunch(a, k)
      PROVE  AttemptSteps
  <2> DEFINE q == IF k = "external" THEN Invitation(a) ELSE QueuedAttempt(a, k, 0)
  <2>1. PICK l \in Attempt: FreshAttempt(l) /\ attempt' = [attempt EXCEPT ![l] = q]
    BY <1>4 DEF EnqueueLaunch
  <2>2. attempt'[l] = q /\ \A m \in Attempt \ {l}: attempt'[m] = attempt[m]
    BY <2>1 DEF TypeOK, AttemptTable
  <2>3. Queues(l)
    BY <1>4, <2>1, <2>2 DEF Queues, EnqueueLaunch
  <2> HIDE DEF q
  <2> QED BY <2>1, <2>3, OneAttempt
<1>5. ASSUME NEW x \in Run, RestartRun(x) \/ ResumeWait(x)
      PROVE  AttemptSteps
  BY <1>5, RestartAttempts DEF RestartRun, ResumeWait
<1>6. ASSUME NEW x \in Run,
             \/ ProvisionStart(x) \/ ProvisionFails(x) \/ Bind(x) \/ JobTerminal(x)
             \/ \E status \in {"pending", "ready"}: RegisterWait(x, status)
             \/ RenewInterrupted(x) \/ WindowCloses(x) \/ BeginExpiredCleanup(x)
             \/ CompleteCleanup(x) \/ Terminalize(x)
      PROVE  AttemptSteps
  BY <1>6, SameAttempts
     DEF ProvisionStart, ProvisionFails, Bind, JobTerminal, RegisterWait,
         RenewInterrupted, WindowCloses, BeginExpiredCleanup, CompleteCleanup,
         Terminalize, launchVars
<1>7. ASSUME DaemonRestart  PROVE AttemptSteps
  <2> SUFFICES ASSUME NEW l \in Attempt
               PROVE  AttemptStep(attempt[l], attempt'[l])
    BY DEF AttemptSteps
  <2>1. CASE attempt[l].status = "queued" /\ attempt[l].job = "running"
    BY <1>7, <2>1, UsedAttempt, EndedAttempt DEF DaemonRestart, EndedAttemptStatus
  <2>2. CASE ~(attempt[l].status = "queued" /\ attempt[l].job = "running")
    BY <1>7, <2>2 DEF DaemonRestart, AttemptStep
  <2> QED BY <2>1, <2>2
<1>8. ReportNext \/ ConfirmNext => AttemptSteps
  BY <1>1, <1>2, <1>6 DEF ReportNext, ConfirmNext
<1>9. ControlNext => AttemptSteps
  BY <1>1, <1>2, <1>3, <1>4, <1>5, <1>6 DEF ControlNext
<1> QED BY <1>7, <1>8, <1>9 DEF LaunchNext

\* Without the launcher only a cancel touches the attempts.
LEMMA LifeAttempts ==
  ASSUME TypeOK, LifeNext
  PROVE  AttemptSteps /\ \A l \in Attempt: AttemptStep(attempt[l], attempt'[l])
<1>1. ASSUME NEW t \in Task, CancelTask(t), NEW l \in Attempt
      PROVE  AttemptStep(attempt[l], attempt'[l])
  <2> DEFINE j == IF attempt[l].job \in {"pending", "running"}
                  THEN "cancelled" ELSE attempt[l].job
             S == {m \in Attempt: /\ attempt[m].status \in ActiveAttemptStatus
                                  /\ asg[attempt[m].asg].task = t}
  <2>1. CASE l \in S
    <3>1. attempt[l] \in AttemptRow
      BY <2>1, UsedAttempt DEF ActiveAttemptStatus
    <3>2. attempt'[l] = [attempt[l] EXCEPT !.status = "cancelled", !.job = j]
      BY <1>1, <2>1 DEF CancelTask
    <3> HIDE DEF j
    <3> QED BY <3>1, <3>2, EndedAttempt DEF EndedAttemptStatus
  <2>2. CASE l \notin S
    BY <1>1, <2>2 DEF CancelTask, AttemptStep
  <2> QED BY <2>1, <2>2
<1>2. ASSUME ~\E t \in Task: CancelTask(t)
      PROVE  attempt' = attempt
  <2>1. ClaimsNext => attempt' = attempt
    <3>1. ASSUME NEW t, NEW g, NEW r,
                 \/ ClaimTask(t, g, r) \/ ClaimForExecution(t, g, r)
                 \/ RequestAssignment(t, g, r) \/ ApproveRequest(t, g, r)
                 \/ CloseRequest(t, g, r) \/ Dispatch(t, g, r)
          PROVE  attempt' = attempt
      BY <3>1 DEF ClaimTask, ClaimForExecution, RequestAssignment, ApproveRequest,
                  CloseRequest, Dispatch, launchVars
    <3>2. ASSUME NEW a, NEW x, NEW t, NEW m,
                 \/ LeaseLapses(a) \/ RecoverAssignment(a, x) \/ ExpireStale
                 \/ SetMode(t, m)
          PROVE  attempt' = attempt
      BY <3>2 DEF LeaseLapses, RecoverAssignment, ExpireStale, SetMode, launchVars
    <3> QED BY <3>1, <3>2 DEF ClaimsNext
  <2>2. ExecutionNext => attempt' = attempt
    BY <1>2 DEF ExecutionNext, StartRun, CompleteRun, CreateHandoff, CancelManagedRun,
           CancelReviewerRun, Takeover, ReopenTask, SubmitReview, launchVars
  <2>3. IntakeNext => attempt' = attempt
    BY DEF IntakeNext, IntakeCheck, IntakeRefused, IntakeRead, StartInterview,
           FinalizeInterview, BeginExecution, HumanMessage, AgentReply,
           ReassignProject, IntakeDone, launchVars
  <2> QED BY <2>1, <2>2, <2>3 DEF LifeNext
<1>3. \A l \in Attempt: AttemptStep(attempt[l], attempt'[l])
  BY <1>1, <1>2 DEF AttemptStep
<1> QED BY <1>3 DEF AttemptSteps

LEMMA AnyAttemptStep ==
  ASSUME TypeOK, [SysNext]_vars
  PROVE  AttemptSteps
<1>1. CASE UNCHANGED vars  BY <1>1, SameAttempts DEF vars
<1>2. CASE SysNext
  BY <1>2, LaunchAttempts, LifeAttempts DEF SysNext
<1> QED BY <1>1, <1>2

-----------------------------------------------------------------------------
(* How the tables refer to each other.                                        *)
\* the ids of assignments are given in order, and a run is of one that is in use
AsgInOrder ==
  \A a, b \in Asg: a < b /\ asg[b].status # "none" => asg[a].status # "none"
RunsHaveAsg ==
  \A x \in Run: run[x].status # "none" => asg[run[x].asg].status # "none"

\* an attempt is for an executor, its runs are of its assignment, and it has none
\* while it waits
AttemptRefers(l) ==
  LET p == attempt[l] IN
  /\ asg[p.asg].role = "executor"
  /\ p.status = "awaiting_agent" => p.kind = "external"
  /\ p.status \in {"queued", "awaiting_agent"} => p.run = 0
  /\ p.status \in {"starting", "running"} => p.run # 0
  /\ p.run # 0 => run[p.run].asg = p.asg /\ run[p.run].status # "none"
  /\ p.restart # 0 => run[p.restart].asg = p.asg /\ run[p.restart].status # "none"
AttemptsRefer ==
  \A l \in Attempt: attempt[l].status # "none" => AttemptRefers(l)

\* only the run of an executor has a process that can go away
CleaningAreExecutors ==
  \A x \in Run: run[x].status \in {"interrupted", "cleanup_pending"} =>
    RunRole(x) = "executor"

ReferInv ==
  PhaseInv /\ AsgInOrder /\ RunsHaveAsg /\ AttemptsRefer /\ CleaningAreExecutors

\* What a step does to an assignment that is in use, and where new ones come.
LEMMA AsgMoves ==
  ASSUME PhaseInv, [SysNext]_vars, NEW a \in Asg
  PROVE  /\ asg[a].status # "none" =>
              /\ asg'[a].status # "none"
              /\ asg'[a].task = asg[a].task /\ asg'[a].role = asg[a].role
              /\ ~Appoints(a)
              /\ asg'[a].status = "active" => asg[a].status = "active" \/ Recovers(a)
         /\ asg[a].status = "none" /\ asg'[a].status # "none" => Appoints(a)
<1>1. RowStep(asg[a], asg'[a]) \/ Appoints(a) \/ Recovers(a)
  BY AnyStep DEF AsgSteps
<1>2. CASE RowStep(asg[a], asg'[a]) /\ ~Appoints(a)
  BY <1>2 DEF RowStep
<1>3. CASE Appoints(a)
  BY <1>3 DEF Appoints, FreshAsg
<1>4. CASE Recovers(a) /\ ~Appoints(a)
  BY <1>4, RecoveredRow
<1> QED BY <1>1, <1>2, <1>3, <1>4

\* The same of the runs.
LEMMA RunMoves ==
  ASSUME PhaseInv, [SysNext]_vars, NEW x \in Run
  PROVE  /\ run[x].status # "none" => ~Begins(x) /\ Moves(x, run'[x])
         /\ run[x].status = "none" =>
              (Begins(x) /\ run'[x].status = "running") \/ run'[x].status = "none"
<1>1. Moves(x, run'[x]) \/ Begins(x)
  BY AnyStep DEF RunSteps
<1>2. Begins(x) => run[x].status = "none" /\ run'[x].status = "running"
  BY DEF Begins, FreshRun, NewRun
<1>3. Moves(x, run'[x]) => (run[x].status = "none" <=> run'[x].status = "none")
  BY DEF Moves, RunStep
<1> QED BY <1>1, <1>2, <1>3

LEMMA OrderStep ==
  ASSUME ReferInv, [SysNext]_vars
  PROVE  AsgInOrder' /\ RunsHaveAsg'
<1> USE DEF ReferInv
<1>1. AsgInOrder'
  <2> SUFFICES ASSUME NEW a \in Asg, NEW b \in Asg, a < b, asg'[b].status # "none"
               PROVE  asg'[a].status # "none"
    BY DEF AsgInOrder
  <2>1. asg[a].status # "none"
    <3>1. CASE asg[b].status # "none"
      BY <3>1 DEF AsgInOrder
    <3>2. CASE asg[b].status = "none"
      BY <3>2, AsgMoves DEF Appoints, FreshAsg
    <3> QED BY <3>1, <3>2
  <2> QED BY <2>1, AsgMoves
<1>2. RunsHaveAsg'
  <2> SUFFICES ASSUME NEW x \in Run, run'[x].status # "none"
               PROVE  asg'[run'[x].asg].status # "none"
    BY DEF RunsHaveAsg
  <2>1. CASE run[x].status # "none"
    <3>1. run'[x].asg = run[x].asg
      BY <2>1, RunMoves DEF Moves, RunStep
    <3>2. run[x].asg \in Asg /\ asg[run[x].asg].status # "none"
      BY <2>1, UsedRows DEF RunsHaveAsg, PhaseInv
    <3> QED BY <3>1, <3>2, AsgMoves
  <2>2. CASE run[x].status = "none"
    <3>1. PICK a \in Asg, s \in {"none", "intent"}:
            run'[x] = NewRun(a, s) /\ asg'[a].status = "active"
      BY <2>2, RunMoves DEF Begins
    <3> QED BY <3>1 DEF NewRun
  <2> QED BY <2>1, <2>2
<1> QED BY <1>1, <1>2

\* A run in use stays in use, under the same assignment.
LEMMA RunStays ==
  ASSUME PhaseInv, [SysNext]_vars, NEW x \in Run, run[x].status # "none"
  PROVE  run'[x].status # "none" /\ run'[x].asg = run[x].asg
BY RunMoves DEF Moves, RunStep

LEMMA NoNullAttempt ==
  ASSUME NEW p \in AttemptRow PROVE p.status # "none"
BY DEF AttemptRow, ActiveAttemptStatus, EndedAttemptStatus

\* An attempt that starts gets its run: a new one, or the interrupted run it is
\* to restart.
StartsWith(l, x, st) ==
  /\ attempt[l] \in AttemptRow
  /\ attempt'[l] = [attempt[l] EXCEPT !.status = st, !.run = x]
  /\ LiveLease(attempt[l].asg)
  /\ \/ attempt[l].status = "queued" /\ st = "starting"
        /\ LiveRunsOf(attempt[l].asg) \subseteq {attempt[l].restart}
     \/ attempt[l].status = "awaiting_agent" /\ st = "running"
  /\ \/ /\ run[x].status = "none" /\ FreshRun(x)
        /\ \E s \in {"none", "intent"}: run'[x] = NewRun(attempt[l].asg, s)
        /\ attempt[l].status = "awaiting_agent" \/ attempt[l].restart = 0
     \/ /\ attempt[l].restart = x /\ attempt[l].status = "queued"
        /\ run[x].status = "interrupted" /\ run'[x].status = "running"

LEMMA StartsRow ==
  ASSUME TypeOK, NEW l \in Attempt, Starts(l)
  PROVE  \E x \in Run, st \in {"starting", "running"}: StartsWith(l, x, st)
<1> USE DEF StartsWith
<1>1. CASE AcceptExternal(l)
  <2>1. attempt[l] \in AttemptRow
    BY <1>1, UsedAttempt DEF AcceptExternal
  <2>2. PICK x \in Run:
          /\ FreshRun(x)
          /\ run' = [run EXCEPT ![x] = NewRun(attempt[l].asg, "none")]
          /\ attempt' = [attempt EXCEPT ![l] = [@ EXCEPT !.status = "running", !.run = x]]
    BY <1>1 DEF AcceptExternal
  <2>3. /\ attempt'[l] = [attempt[l] EXCEPT !.status = "running", !.run = x]
        /\ run'[x] = NewRun(attempt[l].asg, "none")
    BY <2>2 DEF TypeOK, AttemptTable, RunTable
  <2> QED BY <1>1, <2>1, <2>2, <2>3 DEF AcceptExternal, FreshRun
<1>2. ASSUME NEW x \in Run, BeginLaunch(l, x)
      PROVE  /\ attempt[l] \in AttemptRow
             /\ attempt'[l] = [attempt[l] EXCEPT !.status = "starting", !.run = x]
             /\ LiveLease(attempt[l].asg)
             /\ attempt[l].status = "queued"
             /\ LiveRunsOf(attempt[l].asg) \subseteq {attempt[l].restart}
             /\ \/ /\ run[x].status = "none" /\ FreshRun(x)
                   /\ \E s \in {"none", "intent"}: run'[x] = NewRun(attempt[l].asg, s)
                   /\ attempt[l].restart = 0
                \/ /\ attempt[l].restart = x
                   /\ run[x].status = "interrupted" /\ run'[x].status = "running"
  <2>1. attempt[l] \in AttemptRow
    BY <1>2, UsedAttempt DEF BeginLaunch
  <2>2. attempt'[l] = [attempt[l] EXCEPT !.status = "starting", !.run = x]
    BY <1>2 DEF BeginLaunch, TypeOK, AttemptTable
  <2>3. CASE attempt[l].restart = 0
    <3>1. PICK s \in {"none", "intent"}: run' = [run EXCEPT ![x] = NewRun(attempt[l].asg, s)]
      BY <1>2, <2>3, ZeroIsNoRun DEF BeginLaunch, LaunchScope
    <3>2. run'[x] = NewRun(attempt[l].asg, s)
      BY <3>1 DEF TypeOK, RunTable
    <3>3. FreshRun(x) /\ run[x].status = "none"
      BY <1>2, <2>3, ZeroIsNoRun DEF BeginLaunch, FreshRun
    <3> QED BY <1>2, <2>1, <2>2, <2>3, <3>2, <3>3 DEF BeginLaunch
  <2>4. CASE attempt[l].restart # 0
    <3>1. /\ attempt[l].restart = x /\ run[x].status = "interrupted"
          /\ run' = [run EXCEPT ![x] = [@ EXCEPT !.status = "running", !.window = "none"]]
      BY <1>2, <2>4 DEF BeginLaunch
    <3>2. run[x] \in RunRow
      BY <3>1, UsedRows
    <3>3. run'[x].status = "running"
      BY <3>1, <3>2 DEF TypeOK, RunTable, RunRow
    <3> QED BY <1>2, <2>1, <2>2, <3>1, <3>3 DEF BeginLaunch
  <2> QED BY <2>3, <2>4
<1> QED BY <1>1, <1>2 DEF Starts

LEMMA AttemptsReferStep ==
  ASSUME ReferInv, [SysNext]_vars
  PROVE  AttemptsRefer'
<1> USE DEF ReferInv
<1> SUFFICES ASSUME NEW l \in Attempt, attempt'[l].status # "none"
             PROVE  AttemptRefers(l)'
  BY DEF AttemptsRefer
<1>1. TypeOK
  BY DEF PhaseInv
<1>2. ASSUME NEW a \in Asg, asg[a].role = "executor"
      PROVE  asg'[a].role = "executor"
  <2>1. asg[a].status # "none"
    BY <1>2, Rows DEF NullAsg
  <2> QED BY <1>2, <2>1, AsgMoves
<1>3. CASE AttemptStep(attempt[l], attempt'[l])
  <2>1. attempt[l].status # "none" /\ AttemptRefers(l)
    BY <1>3 DEF AttemptStep, AttemptsRefer
  <2>2. /\ attempt[l].asg \in Asg /\ attempt[l].run \in Run \cup {0}
        /\ attempt[l].restart \in Run \cup {0}
    BY <1>1, <2>1, UsedAttempt
  <2> QED BY <1>2, <1>3, <2>1, <2>2, RunStays
             DEF AttemptStep, AttemptRefers, ActiveAttemptStatus
<1>4. CASE Queues(l)
  <2>1. PICK a \in Asg:
          \/ \E k \in AttemptKind:
               /\ asg[a].role = "executor"
               /\ attempt'[l] = IF k = "external" THEN Invitation(a) ELSE QueuedAttempt(a, k, 0)
          \/ \E x \in Run, last \in Attempt:
               /\ run[x].status = "interrupted" /\ run[x].asg = a
               /\ attempt[last].run = x
               /\ attempt'[l] = QueuedAttempt(a, attempt[last].kind, x)
    BY <1>4 DEF Queues
  <2>2. ASSUME NEW k \in AttemptKind, asg[a].role = "executor",
               attempt'[l] = IF k = "external" THEN Invitation(a) ELSE QueuedAttempt(a, k, 0)
        PROVE  AttemptRefers(l)'
    BY <1>2, <2>2 DEF AttemptRefers, Invitation, QueuedAttempt
  <2>3. ASSUME NEW x \in Run, run[x].status = "interrupted", run[x].asg = a,
               attempt'[l].restart = x,
               attempt'[l] = QueuedAttempt(a, attempt'[l].kind, x)
        PROVE  AttemptRefers(l)'
    <3>1. asg[a].role = "executor"
      BY <2>3 DEF CleaningAreExecutors, RunRole
    <3> QED BY <1>2, <2>3, <3>1, RunStays DEF AttemptRefers, QueuedAttempt
  <2>4. ASSUME NEW x \in Run, NEW last \in Attempt,
               attempt'[l] = QueuedAttempt(a, attempt[last].kind, x)
        PROVE  attempt'[l].restart = x /\ attempt'[l] = QueuedAttempt(a, attempt'[l].kind, x)
    BY <2>4 DEF QueuedAttempt
  <2> QED BY <2>1, <2>2, <2>3, <2>4
<1>5. CASE Starts(l)
  <2>1. PICK x \in Run, st \in {"starting", "running"}: StartsWith(l, x, st)
    BY <1>1, <1>5, StartsRow
  <2>2. AttemptRefers(l)
    BY <2>1, NoNullAttempt DEF AttemptsRefer, StartsWith
  <2>3. /\ attempt'[l].run = x /\ attempt'[l].asg = attempt[l].asg
        /\ attempt'[l].restart = attempt[l].restart /\ attempt'[l].status = st
    BY <2>1 DEF AttemptRow, StartsWith
  <2>4. attempt[l].asg \in Asg /\ attempt[l].restart \in Run \cup {0}
    BY <2>1 DEF AttemptRow, StartsWith
  <2>5. run'[x].asg = attempt[l].asg /\ run'[x].status # "none"
    <3>1. CASE \E s \in {"none", "intent"}: run'[x] = NewRun(attempt[l].asg, s)
      BY <3>1 DEF NewRun
    <3>2. CASE /\ attempt[l].restart = x
               /\ run[x].status = "interrupted" /\ run'[x].status = "running"
      BY <2>2, <3>2, ZeroIsNoRun, RunStays DEF AttemptRefers
    <3> QED BY <2>1, <3>1, <3>2 DEF StartsWith
  <2>6. asg'[attempt[l].asg].role = "executor"
    BY <1>2, <2>2, <2>4 DEF AttemptRefers
  <2>7. attempt[l].restart # 0 =>
          /\ run'[attempt[l].restart].asg = attempt[l].asg
          /\ run'[attempt[l].restart].status # "none"
    BY <2>2, <2>4, RunStays DEF AttemptRefers
  <2> HIDE DEF ReferInv
  <2> QED BY <2>3, <2>5, <2>6, <2>7, ZeroIsNoRun DEF AttemptRefers
<1> QED BY <1>1, <1>3, <1>4, <1>5, AnyAttemptStep DEF AttemptSteps

\* A run that becomes interrupted has a process.
LEMMA InterruptedWasAttended ==
  ASSUME PhaseInv, [SysNext]_vars, NEW x \in Run, run'[x].status = "interrupted"
  PROVE  /\ run[x].status \in {"running", "paused", "interrupted"}
         /\ run[x].status # "interrupted" => Attended(x)
<1>1. run[x].status # "none" /\ Moves(x, run'[x])
  BY RunMoves
<1> QED BY <1>1 DEF Moves, RunStep, MayLeave, HoldingStatus, EndedRunStatus

\* The attempt that attends a run is of its assignment.
LEMMA AttendedByItsOwn ==
  ASSUME ReferInv, NEW x \in Run, NEW l \in Attempt,
         attempt[l].status \in ActiveAttemptStatus, attempt[l].run = x
  PROVE  /\ attempt[l].status \in {"starting", "running"}
         /\ attempt[l].asg = run[x].asg /\ RunRole(x) = "executor"
<1>1. AttemptRefers(l) /\ x # 0
  BY ZeroIsNoRun DEF ReferInv, AttemptsRefer, ActiveAttemptStatus
<1> QED BY <1>1 DEF AttemptRefers, ActiveAttemptStatus, RunRole

LEMMA CleaningStep ==
  ASSUME ReferInv, [SysNext]_vars
  PROVE  CleaningAreExecutors'
<1> USE DEF ReferInv
<1> SUFFICES ASSUME NEW x \in Run, run'[x].status \in {"interrupted", "cleanup_pending"}
             PROVE  asg'[run'[x].asg].role = "executor"
  BY DEF CleaningAreExecutors, RunRole
<1>1. run[x].status # "none" /\ Moves(x, run'[x])
  BY RunMoves
<1>2. run[x].status \in {"interrupted", "cleanup_pending"} \/ Attended(x)
  BY <1>1, InterruptedWasAttended DEF Moves, RunStep
<1>3. RunRole(x) = "executor"
  BY <1>2, AttendedByItsOwn DEF CleaningAreExecutors, Attended
<1>4. run[x].asg \in Asg /\ asg[run[x].asg].status # "none"
  BY <1>1, UsedRows DEF RunsHaveAsg, PhaseInv
<1> QED BY <1>1, <1>3, <1>4, RunStays, AsgMoves DEF RunRole

LEMMA ReferStep ==
  ASSUME ReferInv, [SysNext]_vars
  PROVE  ReferInv'
BY PhaseStep, OrderStep, AttemptsReferStep, CleaningStep DEF ReferInv

LEMMA ReferInvariant == SysSpec => []ReferInv
<1>1. StoreInit /\ PhaseInv => ReferInv
  BY DEF StoreInit, ReferInv, AsgInOrder, RunsHaveAsg, AttemptsRefer,
         CleaningAreExecutors, NullAsg, NullRun, NullAttempt
<1>2. ReferInv /\ PhaseInv' /\ [SysNext]_vars => ReferInv'
  BY ReferStep
<1> QED BY <1>1, <1>2, PhaseInvariant, PTL DEF SysSpec

-----------------------------------------------------------------------------
(* One live run for an assignment.                                            *)
\* Without external adapters nobody is ever invited.
LEMMA NoExternalStep ==
  ASSUME ReferInv, NoExternal, [SysNext]_vars, "external" \notin AttemptKind
  PROVE  NoExternal'
<1> SUFFICES ASSUME NEW l \in Attempt  PROVE attempt'[l].kind # "external"
  BY DEF NoExternal
<1>1. TypeOK
  BY DEF ReferInv, PhaseInv
<1>2. CASE AttemptStep(attempt[l], attempt'[l])
  BY <1>2 DEF NoExternal, AttemptStep
<1>3. CASE Queues(l)
  <2>1. \/ \E a \in Asg, k \in AttemptKind: attempt'[l] = QueuedAttempt(a, k, 0)
        \/ \E a \in Asg, x \in Run, last \in Attempt:
             attempt'[l] = QueuedAttempt(a, attempt[last].kind, x)
    BY <1>3 DEF Queues
  <2>2. ASSUME NEW a, NEW k, NEW x, attempt'[l] = QueuedAttempt(a, k, x)
        PROVE  attempt'[l].kind = k
    BY <2>2 DEF QueuedAttempt
  <2>3. (\E k \in AttemptKind: attempt'[l].kind = k)
        \/ \E m \in Attempt: attempt'[l].kind = attempt[m].kind
    BY <2>1, <2>2
  <2> QED BY <2>3 DEF NoExternal
<1>4. CASE Starts(l)
  <2>1. PICK x \in Run, st \in {"starting", "running"}: StartsWith(l, x, st)
    BY <1>1, <1>4, StartsRow
  <2> QED BY <2>1 DEF StartsWith, AttemptRow, NoExternal
<1> QED BY <1>1, <1>2, <1>3, <1>4, AnyAttemptStep DEF AttemptSteps

\* An invitation that was made is not forgotten.
LEMMA InvitationStays ==
  ASSUME ReferInv, NoExternal', [SysNext]_vars
  PROVE  NoExternal
<1> SUFFICES ASSUME NEW l \in Attempt  PROVE attempt[l].kind # "external"
  BY DEF NoExternal
<1>1. TypeOK
  BY DEF ReferInv, PhaseInv
<1>2. attempt'[l].kind # "external"
  BY DEF NoExternal
<1>3. CASE AttemptStep(attempt[l], attempt'[l])
  BY <1>2, <1>3 DEF AttemptStep
<1>4. CASE Queues(l)
  <2>1. attempt[l].status = "none"
    BY <1>4 DEF Queues, FreshAttempt
  <2>2. attempt[l] \in AttemptRow \cup {NullAttempt}
    BY <1>1 DEF TypeOK, AttemptTable
  <2> QED BY <2>1, <2>2, NoNullAttempt DEF NullAttempt
<1>5. CASE Starts(l)
  <2>1. PICK x \in Run, st \in {"starting", "running"}: StartsWith(l, x, st)
    BY <1>1, <1>5, StartsRow
  <2> QED BY <1>2, <2>1 DEF StartsWith, AttemptRow
<1> QED BY <1>1, <1>3, <1>4, <1>5, AnyAttemptStep DEF AttemptSteps

LEMMA NobodyInvited ==
  ASSUME ReferInv, NoExternal, NEW l \in Attempt
  PROVE  attempt[l].status # "awaiting_agent"
BY DEF ReferInv, AttemptsRefer, AttemptRefers, NoExternal

\* A new run comes under an assignment that has no other, so two runs of one
\* assignment that have not ended were two before.
LEMMA OneLiveStep ==
  ASSUME ReferInv, NoExternal, OneLiveRunPerAssignment, [SysNext]_vars
  PROVE  OneLiveRunPerAssignment'
<1> USE DEF ReferInv
<1>1. ASSUME NEW x \in Run, run'[x].status \in LiveRunStatus, run[x].status # "none"
      PROVE  run[x].status \in LiveRunStatus /\ run'[x].asg = run[x].asg
  <2>1. run[x] \in RunRow /\ Moves(x, run'[x])
    BY <1>1, RunColumns, RunMoves
  <2> QED BY <1>1, <2>1 DEF Moves, RunStep, RunRow, LiveRunStatus, EndedRunStatus
<1>2. ASSUME NEW x \in Run, NEW y \in Run, Begins(x),
             run[y].status # "none", run'[y].status \in LiveRunStatus,
             run'[x].asg = run'[y].asg
      PROVE  FALSE
  <2>1. PICK a \in Asg, s \in {"none", "intent"}:
          /\ run'[x] = NewRun(a, s)
          /\ \/ asg[a].status = "none"
             \/ LiveRunsOf(a) = {}
             \/ \E l \in Attempt: attempt[l].status = "awaiting_agent"
    BY <1>2 DEF Begins
  <2>2. run[y].status \in LiveRunStatus /\ run[y].asg = a
    BY <1>1, <1>2, <2>1 DEF NewRun
  <2>3. y \in LiveRunsOf(a) /\ asg[a].status # "none"
    BY <1>2, <2>2 DEF LiveRunsOf, RunsHaveAsg
  <2> QED BY <2>1, <2>3, NobodyInvited
<1>3. ASSUME NEW x \in Run, NEW y \in Run, Begins(x), Begins(y)
      PROVE  x = y
  BY <1>3, BoundsAssumption DEF Begins, FreshRun, Run
<1>4. ASSUME NEW x \in Run, run'[x].status \in LiveRunStatus, run[x].status = "none"
      PROVE  Begins(x)
  BY <1>4, RunMoves DEF LiveRunStatus
<1> SUFFICES ASSUME NEW x \in Run, NEW y \in Run,
                    run'[x].status \in LiveRunStatus, run'[y].status \in LiveRunStatus,
                    run'[x].asg = run'[y].asg
             PROVE  x = y
  BY DEF OneLiveRunPerAssignment
<1>5. CASE run[x].status # "none" /\ run[y].status # "none"
  BY <1>1, <1>5 DEF OneLiveRunPerAssignment
<1>6. CASE run[x].status = "none" \/ run[y].status = "none"
  BY <1>2, <1>3, <1>4, <1>6
<1> QED BY <1>5, <1>6

-----------------------------------------------------------------------------
(* What a successor finds of its predecessor.                                 *)
\* a later assignment of the task to an executor exists
Superseded(a) ==
  /\ asg[a].role = "executor"
  /\ \E b \in Asg: b > a /\ asg[b].role = "executor" /\ asg[b].task = asg[a].task

\* A superseded assignment has no process, no run that waits for its process or
\* its cleanup, and if its agent took it back, a run that holds it.
NoProcess(a) ==
  \A l \in Attempt: attempt[l].asg = a =>
    attempt[l].status \notin {"starting", "running"}
NothingToClean(a) ==
  \A x \in Run: run[x].asg = a =>
    run[x].status \notin {"interrupted", "cleanup_pending"}
HeldByRun(a) ==
  asg[a].status = "active" =>
    \E x \in Run: run[x].asg = a /\ run[x].status \in HoldingStatus

FenceInv ==
  \A a \in Asg: Superseded(a) => NoProcess(a) /\ NothingToClean(a) /\ HeldByRun(a)

\* An assignment is superseded by the appointment of a successor.
LEMMA SupersededStep ==
  ASSUME ReferInv, [SysNext]_vars, NEW a \in Asg, Superseded(a)'
  PROVE  /\ asg[a].status # "none" /\ asg[a].role = "executor"
         /\ \/ Superseded(a)
            \/ \E b \in Asg: /\ b # a /\ Appoints(b) /\ asg'[b].role = "executor"
                            /\ asg'[b].task = asg[a].task
<1> USE DEF ReferInv
<1>1. PICK b \in Asg: b > a /\ asg'[b].role = "executor" /\ asg'[b].task = asg'[a].task
  BY DEF Superseded
<1>2. asg'[a].role = "executor"
  BY DEF Superseded
<1>3. asg'[b].status # "none" /\ asg'[a].status # "none"
  <2>1. \A c \in Asg: asg[c].status = "none" => asg[c].role # "executor"
    BY Rows DEF NullAsg
  <2>2. ASSUME NEW c \in Asg, asg'[c].role = "executor"  PROVE asg'[c].status # "none"
    <3>1. CASE RowStep(asg[c], asg'[c])
      BY <2>1, <2>2, <3>1 DEF RowStep
    <3>2. CASE Appoints(c)
      BY <3>2 DEF Appoints, NewAsg
    <3>3. CASE Recovers(c)
      BY <3>3, RecoveredRow
    <3> QED BY <3>1, <3>2, <3>3, AnyStep DEF AsgSteps
  <2> QED BY <1>1, <1>2, <2>2
<1>4. asg[a].status # "none"
  <2>1. CASE asg[b].status # "none"
    BY <1>1, <2>1 DEF AsgInOrder
  <2>2. CASE asg[b].status = "none"
    BY <1>1, <1>3, <2>2, AsgMoves DEF Appoints, FreshAsg
  <2> QED BY <2>1, <2>2
<1>5. asg[a].role = "executor" /\ asg'[a].task = asg[a].task
  BY <1>2, <1>4, AsgMoves
<1>6. CASE asg[b].status # "none"
  <2>1. asg'[b].role = asg[b].role /\ asg'[b].task = asg[b].task
    BY <1>6, AsgMoves
  <2>2. asg[a].role = "executor" /\ b > a
        /\ asg[b].role = "executor" /\ asg[b].task = asg[a].task
    BY <1>1, <1>5, <2>1
  <2>3. Superseded(a)
    BY <2>2 DEF Superseded
  <2> QED BY <1>4, <2>2, <2>3
<1>7. CASE asg[b].status = "none"
  BY <1>1, <1>3, <1>4, <1>5, <1>7, AsgMoves
<1> QED BY <1>4, <1>5, <1>6, <1>7

\* A new attempt waits.
LEMMA QueuedWaits ==
  ASSUME NEW l, Queues(l)
  PROVE  attempt'[l].status \in {"queued", "awaiting_agent"}
<1>1. \E b, k, x: attempt'[l] \in {Invitation(b), QueuedAttempt(b, k, x)}
  BY DEF Queues
<1>2. \A b, k, x: /\ Invitation(b).status = "awaiting_agent"
                 /\ QueuedAttempt(b, k, x).status = "queued"
  BY DEF Invitation, QueuedAttempt
<1> QED BY <1>1, <1>2

\* The assignment of a run that needs its cleanup after a step had one before, or
\* a process.
LEMMA CleaningBefore ==
  ASSUME ReferInv, [SysNext]_vars, NEW x \in Run,
         run'[x].status \in {"interrupted", "cleanup_pending"}
  PROVE  /\ run[x].status # "none" /\ run'[x].asg = run[x].asg
         /\ \/ run[x].status \in {"interrupted", "cleanup_pending"}
            \/ \E l \in Attempt: /\ attempt[l].status \in {"starting", "running"}
                                /\ attempt[l].asg = run[x].asg
<1>1. run[x].status # "none" /\ Moves(x, run'[x])
  BY RunMoves DEF ReferInv
<1>2. run[x].status \in {"interrupted", "cleanup_pending"} \/ Attended(x)
  BY <1>1, InterruptedWasAttended DEF Moves, RunStep, ReferInv
<1> QED BY <1>1, <1>2, AttendedByItsOwn DEF Attended, Moves, RunStep

\* The fence behind an assignment that has a successor already.
LEMMA FenceStays ==
  ASSUME ReferInv, NoExternal, FenceInv, [SysNext]_vars, NEW a \in Asg, Superseded(a)
  PROVE  NoProcess(a)' /\ NothingToClean(a)' /\ HeldByRun(a)'
<1> USE DEF ReferInv
<1>1. NoProcess(a) /\ NothingToClean(a) /\ HeldByRun(a)
  BY DEF FenceInv
<1>2. NoProcess(a)'
  <2> SUFFICES ASSUME NEW l \in Attempt, attempt'[l].asg = a,
                      attempt'[l].status \in {"starting", "running"}
               PROVE  FALSE
    BY DEF NoProcess
  <2>1. CASE AttemptStep(attempt[l], attempt'[l])
    BY <1>1, <2>1 DEF AttemptStep, NoProcess, ActiveAttemptStatus
  <2>2. CASE Queues(l)
    <3> QED BY <2>2, QueuedWaits
  <2>3. CASE Starts(l)
    <3>1. PICK x \in Run, st \in {"starting", "running"}: StartsWith(l, x, st)
      BY <2>3, StartsRow DEF PhaseInv
    <3>2. attempt[l].asg = a /\ asg[a].status = "active"
      BY <3>1 DEF StartsWith, AttemptRow, LiveLease
    <3>3. attempt[l].status = "queued" /\ LiveRunsOf(a) \subseteq {attempt[l].restart}
          /\ (attempt[l].restart = 0 \/ run[attempt[l].restart].status = "interrupted")
      BY <3>1, <3>2, NobodyInvited DEF StartsWith
    <3>4. PICK y \in Run: run[y].asg = a /\ run[y].status \in HoldingStatus
      BY <1>1, <3>2 DEF HeldByRun
    <3>5. y = attempt[l].restart
      BY <3>3, <3>4 DEF LiveRunsOf, HoldingStatus, LiveRunStatus
    <3> QED BY <3>3, <3>4, <3>5, ZeroIsNoRun DEF HoldingStatus
  <2> QED BY <2>1, <2>2, <2>3, AnyAttemptStep DEF AttemptSteps, PhaseInv
<1>3. NothingToClean(a)'
  BY <1>1, CleaningBefore DEF NoProcess, NothingToClean
<1>4. HeldByRun(a)'
  <2> SUFFICES ASSUME asg'[a].status = "active"
               PROVE  \E x \in Run: run'[x].asg = a /\ run'[x].status \in HoldingStatus
    BY DEF HeldByRun
  <2>1. asg[a].status # "none"
    BY Rows DEF Superseded, NullAsg
  <2>2. CASE Recovers(a)
    BY <2>2 DEF Recovers, RecoverAssignment, HoldingStatus
  <2>3. CASE asg[a].status = "active"
    <3>1. PICK y \in Run: run[y].asg = a /\ run[y].status \in HoldingStatus
      BY <1>1, <2>3 DEF HeldByRun
    <3>2. ~Attended(y)
      BY <1>1, <3>1, AttendedByItsOwn DEF Attended, NoProcess
    <3>3. run[y].status # "none"
      BY <3>1 DEF HoldingStatus
    <3>4. Moves(y, run'[y])
      BY <3>3, RunMoves
    <3> QED BY <3>1, <3>2, <3>4 DEF Moves, RunStep, MayLeave
  <2> QED BY <2>1, <2>2, <2>3, AsgMoves
<1> QED BY <1>2, <1>3, <1>4

\* The fence behind an assignment that gets a successor.
LEMMA FenceRises ==
  ASSUME ReferInv, NoExternal, [SysNext]_vars, NEW a \in Asg,
         asg[a].status # "none", asg[a].role = "executor",
         NEW b \in Asg, b # a, Appoints(b), asg'[b].role = "executor",
         asg'[b].task = asg[a].task
  PROVE  NoProcess(a)' /\ NothingToClean(a)' /\ HeldByRun(a)'
<1> USE DEF ReferInv
<1> DEFINE t == asg[a].task
<1>1. /\ ~PredecessorRuntimeActive(t) /\ ~CleanupBlocked(t)
      /\ ActiveFor(asg', t, "executor") = {b} /\ UNCHANGED attempt
  BY DEF Appoints, NewAsg
<1>2. \A l \in Attempt: attempt[l].status \in {"starting", "running"} =>
        attempt[l].asg # a
  <2> SUFFICES ASSUME NEW l \in Attempt, attempt[l].status \in {"starting", "running"},
                      attempt[l].asg = a
               PROVE  FALSE
    OBVIOUS
  <2>1. attempt[l].kind \in {"local", "managed"}
    BY UsedAttempt DEF NoExternal, AttemptRow, PhaseInv
  <2> QED BY <1>1, <2>1 DEF PredecessorRuntimeActive
<1>3. NoProcess(a)'
  BY <1>1, <1>2 DEF NoProcess
<1>4. NothingToClean(a)'
  <2> SUFFICES ASSUME NEW x \in Run, run'[x].asg = a,
                      run'[x].status \in {"interrupted", "cleanup_pending"}
               PROVE  FALSE
    BY DEF NothingToClean
  <2>1. run[x].status \in {"interrupted", "cleanup_pending"} /\ run[x].asg = a
    BY <1>2, CleaningBefore
  <2> QED BY <1>1, <2>1 DEF CleanupBlocked, OfTask
<1>5. HeldByRun(a)'
  BY <1>1, AsgMoves DEF HeldByRun, ActiveFor
<1> QED BY <1>3, <1>4, <1>5

LEMMA FenceStep ==
  ASSUME ReferInv, NoExternal, FenceInv, [SysNext]_vars
  PROVE  FenceInv'
<1> SUFFICES ASSUME NEW a \in Asg, Superseded(a)'
             PROVE  NoProcess(a)' /\ NothingToClean(a)' /\ HeldByRun(a)'
  BY DEF FenceInv
<1> QED BY SupersededStep, FenceStays, FenceRises

\* What holds of leases and successors as long as no external agent was invited.
SuccessionInv == ReferInv /\ NoExternal /\ OneLiveRunPerAssignment /\ FenceInv

LEMMA SuccessionInit ==
  ASSUME StoreInit, PhaseInv  PROVE SuccessionInv
<1>1. ReferInv
  BY DEF StoreInit, ReferInv, AsgInOrder, RunsHaveAsg, AttemptsRefer,
         CleaningAreExecutors, NullAsg, NullRun, NullAttempt
<1>2. NoExternal /\ OneLiveRunPerAssignment /\ FenceInv
  BY DEF StoreInit, NoExternal, OneLiveRunPerAssignment, FenceInv, Superseded,
         NullAsg, NullRun, NullAttempt, LiveRunStatus
<1> QED BY <1>1, <1>2 DEF SuccessionInv

\* What reconcile_external_launches and accept_external_launch leave open for
\* external agents is not repeated here.
LEMMA SuccessionInvariant == SysSpec => [](NoExternal => SuccessionInv)
<1>1. StoreInit /\ PhaseInv => SuccessionInv
  BY SuccessionInit
<1>2. ReferInv /\ (NoExternal => SuccessionInv) /\ PhaseInv' /\ [SysNext]_vars =>
        (NoExternal => SuccessionInv)'
  BY ReferStep, InvitationStays, OneLiveStep, FenceStep DEF SuccessionInv
<1> QED BY <1>1, <1>2, ReferInvariant, PhaseInvariant, PTL DEF SysSpec

\* Two processes never work under the same lease: an assignment has at most one
\* run that has not ended, until an agent is invited to start by itself.
THEOREM OneRunPerLease == SysSpec => []OneRunUntilInvited
<1>1. SuccessionInv => OneLiveRunPerAssignment
  BY DEF SuccessionInv
<1> QED BY <1>1, SuccessionInvariant, PTL DEF OneRunUntilInvited

\* Nobody who came after the assignment of a run works on its task before the
\* runtime has confirmed that nothing of the run is left, until an agent is
\* invited to start by itself.
THEOREM SuccessorWaits == SysSpec => []SuccessorWaitsUntilInvited
<1>1. SuccessionInv => NoSuccessorBeforeCleanup
  <2> SUFFICES ASSUME SuccessionInv, NEW x \in Run,
                      run[x].status \in {"interrupted", "cleanup_pending"},
                      NEW b \in ActiveFor(asg, RunTask(x), "executor"),
                      ~(b <= run[x].asg)
               PROVE  FALSE
    BY DEF NoSuccessorBeforeCleanup
  <2> DEFINE a == run[x].asg
  <2>1. a \in Asg /\ asg[a].role = "executor"
    BY UsedRows DEF SuccessionInv, ReferInv, PhaseInv, CleaningAreExecutors, RunRole
  <2>2. b \in Asg /\ asg[b].role = "executor" /\ asg[b].task = asg[a].task
    BY DEF ActiveFor, RunTask
  <2>3. b > a
    BY <2>1, <2>2, BoundsAssumption DEF Asg
  <2>4. Superseded(a)
    BY <2>1, <2>2, <2>3 DEF Superseded
  <2> QED BY <2>1, <2>4 DEF SuccessionInv, FenceInv, NothingToClean
<1> QED BY <1>1, SuccessionInvariant, PTL DEF SuccessorWaitsUntilInvited

\* Where local and managed launchers only are in use both hold in every state.
THEOREM LaunchersAlone ==
  ASSUME "external" \notin AttemptKind
  PROVE  SysSpec => [](OneLiveRunPerAssignment /\ NoSuccessorBeforeCleanup)
<1>1. StoreInit => NoExternal
  BY DEF StoreInit, NoExternal, NullAttempt
<1>2. ReferInv /\ NoExternal /\ [SysNext]_vars => NoExternal'
  BY NoExternalStep
<1>3. SysSpec => []NoExternal
  BY <1>1, <1>2, ReferInvariant, PTL DEF SysSpec
<1> QED BY <1>3, OneRunPerLease, SuccessorWaits, PTL
        DEF OneRunUntilInvited, SuccessorWaitsUntilInvited

-----------------------------------------------------------------------------
(* A scope that is finished.                                                  *)
TerminalHasEnded ==
  \A x \in Run: run[x].scope = "terminal" => run[x].status \in EndedRunStatus
ScopeInv == ReferInv /\ TerminalHasEnded /\ TerminalScopeIsIdle

\* A run whose scope is finished after a step had it finished before, or has no
\* process and gets none.
LEMMA FinishedScope ==
  ASSUME ReferInv, TerminalHasEnded, [SysNext]_vars, NEW x \in Run,
         run'[x].scope = "terminal"
  PROVE  /\ run'[x].status \in EndedRunStatus
         /\ \/ run[x].scope = "terminal" /\ run[x].status \in EndedRunStatus
            \/ ~ProcessActive(x) /\ UNCHANGED attempt
<1>1. CASE Begins(x)
  BY <1>1 DEF Begins, NewRun
<1>2. CASE Moves(x, run'[x])
  <2>1. run[x].scope = "terminal" => run[x].status \in EndedRunStatus
    BY DEF TerminalHasEnded
  <2> QED BY <1>2, <2>1 DEF Moves, MayFinish, RunStep
<1> QED BY <1>1, <1>2, AnyStep DEF RunSteps, ReferInv

LEMMA ScopeStep ==
  ASSUME ScopeInv, [SysNext]_vars
  PROVE  TerminalHasEnded' /\ TerminalScopeIsIdle'
<1> USE DEF ScopeInv
<1>1. TerminalHasEnded'
  BY FinishedScope DEF TerminalHasEnded
<1>2. TerminalScopeIsIdle'
  <2> SUFFICES ASSUME NEW l \in Attempt, attempt'[l].status \in {"starting", "running"},
                      attempt'[l].run # 0, run'[attempt'[l].run].scope = "terminal"
               PROVE  FALSE
    BY DEF TerminalScopeIsIdle
  <2> DEFINE x == attempt'[l].run
  <2>1. CASE AttemptStep(attempt[l], attempt'[l])
    <3>1. attempt[l].status \in {"starting", "running"} /\ attempt[l].run = x
      BY <2>1 DEF AttemptStep, ActiveAttemptStatus
    <3>2. x \in Run
      BY <3>1, UsedAttempt DEF ReferInv, PhaseInv
    <3> QED BY <3>1, <3>2, FinishedScope DEF TerminalScopeIsIdle, ProcessActive
  <2>2. CASE Queues(l)
    BY <2>2, QueuedWaits
  <2>3. CASE Starts(l)
    <3>1. PICK y \in Run, st \in {"starting", "running"}: StartsWith(l, y, st)
      BY <2>3, StartsRow DEF ReferInv, PhaseInv
    <3>2. y = x /\ attempt'[l].status = st /\ attempt[l].status \notin {"starting", "running"}
      BY <3>1 DEF StartsWith, AttemptRow
    <3>3. run'[y].status = "running"
      BY <3>1 DEF StartsWith, NewRun
    <3> QED BY <3>2, <3>3, FinishedScope DEF EndedRunStatus
  <2> QED BY <2>1, <2>2, <2>3, AnyAttemptStep DEF AttemptSteps, ReferInv, PhaseInv
<1> QED BY <1>1, <1>2

LEMMA ScopeInvariant == SysSpec => []ScopeInv
<1>1. StoreInit => TerminalHasEnded /\ TerminalScopeIsIdle
  BY DEF StoreInit, TerminalHasEnded, TerminalScopeIsIdle, NullRun, NullAttempt
<1>2. ScopeInv /\ ReferInv' /\ [SysNext]_vars => ScopeInv'
  BY ScopeStep DEF ScopeInv
<1>3. StoreInit /\ ReferInv => ScopeInv
  BY <1>1 DEF ScopeInv
<1> QED BY <1>2, <1>3, ReferInvariant, PTL DEF SysSpec

\* A runtime scope that was recorded as finished has no process, and none is
\* started in it again: a restart is for a run that has not ended, and the scope
\* of a run that has not ended is not finished.
THEOREM FinishedScopesAreIdle == SysSpec => []TerminalScopeIsIdle
<1>1. ScopeInv => TerminalScopeIsIdle
  BY DEF ScopeInv
<1> QED BY <1>1, ScopeInvariant, PTL

-----------------------------------------------------------------------------
(* What a step does to the state of a task.                                   *)
Completes(t) ==
  \E x \in Run: CompleteRun(x) /\ RunRole(x) = "executor" /\ RunTask(x) = t
TaskStep(t) ==
  \/ task'[t].state = task[t].state
  \/ Completes(t)
  \/ t \in NativeContract /\ task'[t].state # "done"
  \/ ReopenTask(t)
  \/ task[t].state # "done" /\ task'[t].state # "done"
TaskSteps == \A t \in Task: TaskStep(t)

LEMMA SameTaskStates == ASSUME UNCHANGED task PROVE TaskSteps
BY DEF TaskSteps, TaskStep

\* A task that is not done is not done afterwards.
LEMMA SetTaskStep ==
  ASSUME TypeOK, NEW t, NEW st, st # "done", task' = SetTask(task, t, st),
         t \in Task => task[t].state # "done"
  PROVE  TaskSteps
BY DEF TaskSteps, TaskStep, SetTask, TypeOK, TaskTable

LEMMA ClaimsTasks ==
  ASSUME TypeOK, ClaimsNext
  PROVE  TaskSteps
<1>1. ASSUME NEW t \in Task, NEW r, task' = ClaimedTask(task, t, r)
      PROVE  TaskSteps
  BY <1>1, SetTaskStep, SameTaskStates DEF ClaimedTask
<1>2. ASSUME NEW t \in Task, NEW g, NEW r,
             ClaimTask(t, g, r) \/ ClaimForExecution(t, g, r) \/ ApproveRequest(t, g, r)
      PROVE  TaskSteps
  <2>1. task' = ClaimedTask(task, t, r) \/ task' = task
    BY <1>2 DEF ClaimTask, ClaimForExecution, ApproveRequest, Claim
  <2> QED BY <1>1, <2>1, SameTaskStates
<1>3. ASSUME NEW t \in Task, NEW g, NEW r, Dispatch(t, g, r)
      PROVE  TaskSteps
  BY <1>3, SetTaskStep, SameTaskStates DEF Dispatch
<1>4. ASSUME NEW t, NEW g, NEW r, RequestAssignment(t, g, r) \/ CloseRequest(t, g, r)
      PROVE  TaskSteps
  BY <1>4, SameTaskStates DEF RequestAssignment, CloseRequest
<1>6. ASSUME NEW a, NEW x, LeaseLapses(a) \/ RecoverAssignment(a, x) \/ ExpireStale
      PROVE  TaskSteps
  BY <1>6, SameTaskStates DEF LeaseLapses, RecoverAssignment, ExpireStale
<1>5. ASSUME NEW t \in Task, NEW m, SetMode(t, m)
      PROVE  TaskSteps
  BY <1>5 DEF SetMode, TaskSteps, TaskStep, TypeOK, TaskTable
<1> QED BY <1>2, <1>3, <1>4, <1>5, <1>6 DEF ClaimsNext

LEMMA ExecutionTasks ==
  ASSUME TypeOK, ExecutionNext
  PROVE  TaskSteps
<1>1. ASSUME NEW x \in Run, CompleteRun(x)
      PROVE  TaskSteps
  <2>1. CASE RunRole(x) = "executor"
    <3>1. task' = SetTask(task, RunTask(x), "done")
      BY <1>1, <2>1 DEF CompleteRun, RunRole, RunTask
    <3> SUFFICES ASSUME NEW t \in Task  PROVE TaskStep(t)
      BY DEF TaskSteps
    <3>2. CASE t = RunTask(x)
      BY <1>1, <2>1, <3>2 DEF TaskStep, Completes
    <3>3. CASE t # RunTask(x)
      BY <3>1, <3>3 DEF TaskStep, SetTask, TypeOK, TaskTable
    <3> QED BY <3>2, <3>3
  <2>2. CASE RunRole(x) # "executor"
    BY <1>1, <2>2, SameTaskStates DEF CompleteRun, RunRole
  <2> QED BY <2>1, <2>2
<1>2. ASSUME NEW as, NEW t, task' = Requeued(as, t)
      PROVE  TaskSteps
  BY <1>2, SetTaskStep, SameTaskStates DEF Requeued
<1>3. ASSUME NEW x \in Run, CreateHandoff(x) \/ CancelReviewerRun(x)
      PROVE  TaskSteps
  BY <1>2, <1>3, SameTaskStates DEF CreateHandoff, CancelReviewerRun
<1>4. ASSUME NEW t \in Task, CancelTask(t)
      PROVE  TaskSteps
  BY <1>4, SetTaskStep DEF CancelTask, Open
<1>5. ASSUME NEW t \in Task, ReopenTask(t)
      PROVE  TaskSteps
  <2>1. \A u \in Task \ {t}: task'[u] = task[u]
    BY <1>5 DEF ReopenTask, SetTask, TypeOK, TaskTable
  <2> QED BY <1>5, <2>1 DEF TaskSteps, TaskStep
<1>6. ASSUME NEW y \in Run, NEW x \in Run, NEW v \in Verdict, SubmitReview(y, x, v)
      PROVE  TaskSteps
  <2>1. RunTask(y) \in NativeContract
        /\ \E st \in {"in_progress", "review"}: task' = SetTask(task, RunTask(y), st)
    BY <1>6 DEF SubmitReview
  <2> QED BY <2>1, GraphAssumption DEF TaskSteps, TaskStep, SetTask, TypeOK, TaskTable
<1>7. ASSUME NEW a, NEW x, NEW t, NEW g, NEW force,
             StartRun(a) \/ CancelManagedRun(x) \/ Takeover(t, g, force)
      PROVE  TaskSteps
  BY <1>7, SameTaskStates DEF StartRun, CancelManagedRun, Takeover
<1> QED BY <1>1, <1>3, <1>4, <1>5, <1>6, <1>7 DEF ExecutionNext

LEMMA IntakeTasks ==
  ASSUME IntakeNext
  PROVE  TaskSteps
<1>1. ASSUME NEW a, NEW op, NEW t,
             \/ IntakeCheck(a, op) \/ IntakeRefused(a, op) \/ IntakeRead(a)
             \/ StartInterview(a) \/ FinalizeInterview(a) \/ BeginExecution(a)
             \/ HumanMessage(a) \/ AgentReply(a) \/ ReassignProject(t)
      PROVE  TaskSteps
  BY <1>1, SameTaskStates
     DEF IntakeCheck, IntakeRefused, IntakeRead, StartInterview, FinalizeInterview,
         BeginExecution, HumanMessage, AgentReply, ReassignProject, IntakeDone
<1> QED BY <1>1 DEF IntakeNext

LEMMA LaunchTasks ==
  ASSUME TypeOK, LaunchNext
  PROVE  TaskSteps
<1>1. ASSUME NEW a, ReleaseLauncher(a)  PROVE TaskSteps
  BY <1>1, SetTaskStep, SameTaskStates DEF ReleaseLauncher
<1>2. ASSUME NEW l, NEW success, Finish(l, success)  PROVE TaskSteps
  <2>1. task' = task \/ ReleaseLauncher(attempt[l].asg)
    BY <1>2 DEF Finish
  <2> QED BY <1>1, <2>1, SameTaskStates
<1>3. ASSUME NEW l, NEW x,
             \/ ClaimLaunchJob(l) \/ MarkRunning(l) \/ RetireExternal(l)
             \/ AcceptExternal(l) \/ BeginLaunch(l, x)
      PROVE  TaskSteps
  BY <1>3, SameTaskStates
     DEF ClaimLaunchJob, MarkRunning, RetireExternal, AcceptExternal, BeginLaunch, lifeVars
<1>4. ASSUME NEW l, NEW success,
             \/ FinishLaunch(l, success) \/ CompleteExternal(l) \/ FailExternal(l)
             \/ StopLaunch(l)
      PROVE  TaskSteps
  BY <1>1, <1>2, <1>4, SameTaskStates
     DEF FinishLaunch, CompleteExternal, FailExternal, StopLaunch, lifeVars
<1>5. ASSUME NEW a, NEW k, EnqueueLaunch(a, k)  PROVE TaskSteps
  BY <1>5, SameTaskStates DEF EnqueueLaunch, lifeVars
<1>6. ASSUME NEW x, NEW status,
             \/ ProvisionStart(x) \/ ProvisionFails(x) \/ Bind(x) \/ JobTerminal(x)
             \/ RestartRun(x) \/ ResumeWait(x) \/ RegisterWait(x, status)
             \/ RenewInterrupted(x) \/ WindowCloses(x) \/ BeginExpiredCleanup(x)
             \/ Terminalize(x)
      PROVE  TaskSteps
  BY <1>6, SameTaskStates
     DEF ProvisionStart, ProvisionFails, Bind, JobTerminal, RestartRun, ResumeWait,
         RegisterWait, RenewInterrupted, WindowCloses, BeginExpiredCleanup, Terminalize,
         lifeVars
<1>7. ASSUME NEW x, CompleteCleanup(x)  PROVE TaskSteps
  BY <1>7, SetTaskStep, SameTaskStates DEF CompleteCleanup, CleanedTask
<1>8. DaemonRestart => TaskSteps
  BY SameTaskStates DEF DaemonRestart
<1>9. ReportNext \/ ConfirmNext => TaskSteps
  BY <1>3, <1>4, <1>6, <1>7 DEF ReportNext, ConfirmNext
<1>10. ControlNext => TaskSteps
  BY <1>3, <1>4, <1>5, <1>6 DEF ControlNext
<1> QED BY <1>8, <1>9, <1>10 DEF LaunchNext

LEMMA AnyTaskStep ==
  ASSUME TypeOK, [SysNext]_vars
  PROVE  TaskSteps
<1>1. CASE UNCHANGED vars  BY <1>1, SameTaskStates DEF vars
<1>2. CASE SysNext
  BY <1>2, ClaimsTasks, ExecutionTasks, IntakeTasks, LaunchTasks DEF SysNext, LifeNext
<1> QED BY <1>1, <1>2

-----------------------------------------------------------------------------
(* What a finished task rests on.                                             *)
\* the executor run that finished a task, and that its review passed
PassedFor(x, t) ==
  /\ OfTask(x, t) /\ RunRole(x) = "executor"
  /\ run[x].status = "completed" /\ run[x].verdict = "PASS"

LEMMA PassedStays ==
  ASSUME ReferInv, [SysNext]_vars, NEW x \in Run, NEW t \in Task, PassedFor(x, t)
  PROVE  PassedFor(x, t)'
<1>1. run[x].status # "none" /\ run[x].status \in EndedRunStatus
  BY DEF PassedFor, EndedRunStatus
<1>2. run'[x].asg = run[x].asg /\ run'[x].status = run[x].status
      /\ run'[x].verdict = run[x].verdict
  BY <1>1, RunMoves DEF Moves, RunStep, ReferInv
<1>3. run[x].asg \in Asg /\ asg[run[x].asg].status # "none"
  BY <1>1, UsedRows DEF ReferInv, PhaseInv, RunsHaveAsg
<1>4. asg'[run[x].asg].task = asg[run[x].asg].task
      /\ asg'[run[x].asg].role = asg[run[x].asg].role
  BY <1>3, AsgMoves DEF ReferInv
<1> QED BY <1>2, <1>4 DEF PassedFor, OfTask, RunRole

\* complete_run looks at the review, and nothing else finishes a task.
LEMMA ReviewStep ==
  ASSUME ReferInv, DoneWasReviewed, [SysNext]_vars
  PROVE  DoneWasReviewed'
<1> SUFFICES ASSUME NEW t \in NeedsReview, task'[t].state = "done"
             PROVE  \E x \in Run: PassedFor(x, t)'
  BY DEF DoneWasReviewed, PassedFor
<1>1. t \in Task /\ t \in NativeContract
  BY GraphAssumption
<1>2. CASE task[t].state = "done"
  <2>1. \E x \in Run: PassedFor(x, t)
    BY <1>2 DEF DoneWasReviewed, PassedFor
  <2> QED BY <1>1, <2>1, PassedStays
<1>3. CASE task[t].state # "done"
  <2>1. Completes(t)
    BY <1>1, <1>3, AnyTaskStep DEF TaskSteps, TaskStep, ReopenTask, ReferInv, PhaseInv
  <2>2. PICK x \in Run: CompleteRun(x) /\ RunRole(x) = "executor" /\ RunTask(x) = t
    BY <2>1 DEF Completes
  <2>3. run[x] \in RunRow /\ run[x].asg \in Asg
    BY <2>2, UsedRows DEF CompleteRun, ReferInv, PhaseInv
  <2>4. run[x].verdict = "PASS"
    BY <2>2 DEF CompleteRun, ReviewMet, RunRole
  <2>5. run'[x] = [run[x] EXCEPT !.status = "completed"]
    BY <2>2 DEF CompleteRun, SetRun
  <2>6. asg[run[x].asg].status # "none"
    BY <2>2 DEF CompleteRun, LiveLease
  <2>7. asg'[run[x].asg].task = t /\ asg'[run[x].asg].role = "executor"
    BY <2>2, <2>3, <2>6, AsgMoves DEF ReferInv, RunRole, RunTask
  <2> QED BY <2>3, <2>4, <2>5, <2>7 DEF PassedFor, OfTask, RunRole, RunRow
<1> QED BY <1>2, <1>3

\* A task that needs an independent review is only ever done by a run that the
\* last verdict on it passed, and that run stays as the evidence.
THEOREM ReviewedWork == SysSpec => []DoneWasReviewed
<1>1. StoreInit => DoneWasReviewed
  BY InitialStatesAssumption, GraphAssumption DEF StoreInit, DoneWasReviewed
<1>2. ReferInv /\ DoneWasReviewed /\ [SysNext]_vars => DoneWasReviewed'
  BY ReviewStep
<1> QED BY <1>1, <1>2, ReferInvariant, PTL DEF SysSpec

\* A prerequisite without an acceptance contract of its own is not taken back
\* from under a task that is done: only a reopening could, and that looks for
\* dependents.  A late verdict can take back one that has a contract.
THEOREM DoneRests ==
  ASSUME \A t \in Task: DependsOn[t] \cap NativeContract = {}
  PROVE  SysSpec => []DoneRestsOnDone
<1>1. StoreInit => DoneRestsOnDone
  BY InitialStatesAssumption DEF StoreInit, DoneRestsOnDone
<1>2. TypeOK /\ DoneRestsOnDone /\ [SysNext]_vars => DoneRestsOnDone'
  <2> SUFFICES ASSUME TypeOK, DoneRestsOnDone, [SysNext]_vars, NEW t \in Task,
                      task'[t].state = "done", NEW d \in DependsOn[t]
               PROVE  task'[d].state = "done"
    BY DEF DoneRestsOnDone, GateEligible
  <2>1. d \in Task /\ d \notin NativeContract
    BY GraphAssumption
  <2>2. TaskStep(d) /\ TaskStep(t)
    BY <2>1, AnyTaskStep DEF TaskSteps
  <2>3. task[d].state = "done"
    <3>1. CASE task[t].state = "done"
      BY <3>1 DEF DoneRestsOnDone, GateEligible
    <3>2. CASE task[t].state # "done"
      <4>1. Completes(t)
        BY <2>2, <3>2 DEF TaskStep, ReopenTask
      <4> QED BY <4>1 DEF Completes, CompleteRun, GateEligible, RunRole, RunTask
    <3> QED BY <3>1, <3>2
  <2>4. ~ReopenTask(d)
    <3> SUFFICES ASSUME ReopenTask(d)  PROVE FALSE
      OBVIOUS
    <3>1. task'[d].state # "done"
      BY <2>1 DEF ReopenTask, SetTask, TypeOK, TaskTable
    <3>2. d # t /\ task'[t] = task[t]
      BY <2>1, <3>1 DEF ReopenTask, SetTask, TypeOK, TaskTable
    <3> QED BY <3>2 DEF ReopenTask, DependentStarted
  <2>5. Completes(d) => task'[d].state = "done"
    BY <2>1 DEF Completes, CompleteRun, RunRole, RunTask, SetTask, TypeOK, TaskTable
  <2> QED BY <2>1, <2>2, <2>3, <2>4, <2>5 DEF TaskStep
<1> QED BY <1>1, <1>2, TypeCorrect, PTL DEF SysSpec

-----------------------------------------------------------------------------
(* The work store without the launcher.                                       *)
\* An executor is only appointed to a task that is then not offered any more.
LEMMA LifeAppoints ==
  ASSUME TypeOK, LifeNext, NEW a \in Asg, asg[a].status = "none",
         asg'[a].status # "none", asg'[a].role = "executor"
  PROVE  task'[asg'[a].task].state # "ready"
<1>1. ASSUME NEW as, as \in [Asg -> AsgRow \cup {NullAsg}], as[a].status = "none",
             NEW b \in Asg, NEW t \in Task, NEW g, NEW r, NEW p,
             asg' = [as EXCEPT ![b] = NewAsg(t, g, r, p)],
             r = "executor" => task'[t].state # "ready"
      PROVE  task'[asg'[a].task].state # "ready"
  <2>1. CASE a = b
    <3>1. asg'[a].task = t /\ asg'[a].role = r
      BY <1>1, <2>1 DEF NewAsg
    <3> QED BY <1>1, <3>1
  <2>2. CASE a # b
    BY <1>1, <2>2
  <2> QED BY <2>1, <2>2
<1>2. asg \in [Asg -> AsgRow \cup {NullAsg}]
  BY DEF TypeOK, AsgTable
<1>3. ASSUME NEW t \in Task, NEW g \in Agent, NEW r \in Role, NEW intake \in BOOLEAN,
             Claim(t, g, r, intake)
      PROVE  task'[asg'[a].task].state # "ready"
  <2>1. PICK b \in Asg: asg' = [asg EXCEPT ![b] = NewAsg(t, g, r, ClaimPhase(r, intake))]
    BY <1>3 DEF Claim
  <2>2. r = "executor" => task'[t].state # "ready"
    BY <1>3 DEF Claim, ClaimedTask, SetTask, TypeOK, TaskTable
  <2> QED BY <1>1, <1>2, <2>1, <2>2
<1>4. ASSUME NEW t \in Task, NEW g \in Agent, NEW r \in Role, ClaimForExecution(t, g, r)
      PROVE  task'[asg'[a].task].state # "ready"
  <2>1. PICK b \in Asg: asg' = [asg EXCEPT ![b] = NewAsg(t, g, r, ClaimPhase(r, TRUE))]
    BY <1>4 DEF ClaimForExecution
  <2>2. r = "executor" => task'[t].state # "ready"
    BY <1>4 DEF ClaimForExecution, ClaimedTask, SetTask, TypeOK, TaskTable
  <2> QED BY <1>1, <1>2, <2>1, <2>2
<1>5. ASSUME NEW t \in Task, NEW g \in Agent, NEW r \in Role, Dispatch(t, g, r)
      PROVE  task'[asg'[a].task].state # "ready"
  <2> DEFINE swept == SetAsg(asg, Stale, "expired")
  <2>1. PICK b \in Asg: asg' = [swept EXCEPT ![b] = NewAsg(t, g, r, ClaimPhase(r, TRUE))]
    BY <1>5 DEF Dispatch
  <2>2. task'[t].state # "ready"
    BY <1>5 DEF Dispatch, SetTask, TypeOK, TaskTable
  <2>3. swept \in [Asg -> AsgRow \cup {NullAsg}]
    BY SweepType DEF AsgTable
  <2>4. swept[a].status = "none"
    BY DEF SetAsg, Stale, Lapsed
  <2> HIDE DEF swept
  <2> QED BY <1>1, <2>1, <2>2, <2>3, <2>4
<1>6. ASSUME NEW t \in Task, NEW g \in Agent, NEW force, Takeover(t, g, force)
      PROVE  task'[asg'[a].task].state # "ready"
  <2> DEFINE D == {c \in Asg: /\ asg[c].task = t /\ asg[c].role = "executor"
                              /\ asg[c].status \in ActiveOrExpired}
             dropped == SetAsg(asg, D, "released")
  <2>1. PICK b \in Asg: asg' = [dropped EXCEPT ![b] = NewAsg(t, g, "executor", "context_review")]
    BY <1>6 DEF Takeover
  <2>2. task'[t].state # "ready"
    BY <1>6 DEF Takeover
  <2>3. dropped \in [Asg -> AsgRow \cup {NullAsg}]
    BY SetAsgType DEF AsgTable, TypeOK, AsgStatus, ActiveOrExpired
  <2>4. dropped[a].status = "none"
    BY DEF SetAsg, ActiveOrExpired
  <2> HIDE DEF dropped
  <2> QED BY <1>1, <2>1, <2>2, <2>3, <2>4
\* nothing else inserts a row
<1>7. ASSUME NEW S, NEW st, asg' = SetAsg(asg, S, st), \A b \in S: asg[b].status # "none"
      PROVE  FALSE
  BY <1>7 DEF SetAsg
<1>8. ASSUME NEW b, NEW q, asg' = [asg EXCEPT ![b] = q], asg[b].status # "none"
      PROVE  FALSE
  BY <1>2, <1>8
<1>9. ClaimsNext => task'[asg'[a].task].state # "ready"
  <2>1. ASSUME NEW t \in Task, NEW g \in Agent, NEW r \in Role,
               ClaimTask(t, g, r) \/ ApproveRequest(t, g, r)
        PROVE  task'[asg'[a].task].state # "ready"
    BY <1>3, <2>1 DEF ClaimTask, ApproveRequest
  <2>2. ASSUME NEW t, NEW g, NEW r, RequestAssignment(t, g, r) \/ CloseRequest(t, g, r)
        PROVE  FALSE
    BY <2>2 DEF RequestAssignment, CloseRequest
  <2>3. ASSUME NEW b \in Asg, NEW x, LeaseLapses(b) \/ RecoverAssignment(b, x)
        PROVE  FALSE
    BY <1>8, <2>3 DEF LeaseLapses, RecoverAssignment, LiveLease, Recoverable, Lapsed
  <2>4. ~ExpireStale
    BY <1>7 DEF ExpireStale, Stale, Lapsed
  <2>5. ~\E t, m: SetMode(t, m)
    BY DEF SetMode
  <2> QED BY <1>4, <1>5, <2>1, <2>2, <2>3, <2>4, <2>5 DEF ClaimsNext
<1>10. ExecutionNext => task'[asg'[a].task].state # "ready"
  <2>1. ASSUME NEW b \in Asg, StartRun(b)  PROVE FALSE
    BY <1>8, <2>1 DEF StartRun, LiveLease
  <2>2. ASSUME NEW x \in Run, CompleteRun(x) \/ CreateHandoff(x)  PROVE FALSE
    BY <1>7, <2>2 DEF CompleteRun, CreateHandoff, LiveLease
  <2>3. ASSUME NEW x \in Run, CancelReviewerRun(x)  PROVE FALSE
    BY <1>7, <2>3 DEF CancelReviewerRun
  <2>4. ASSUME NEW t, CancelTask(t)  PROVE FALSE
    <3> DEFINE S == {b \in Asg: asg[b].task = t /\ asg[b].status = "active"}
    <3>1. asg' = SetAsg(asg, S, "released") /\ \A b \in S: asg[b].status # "none"
      BY <2>4 DEF CancelTask
    <3> HIDE DEF S
    <3> QED BY <1>7, <3>1
  <2>5. ASSUME NEW x, NEW y, NEW v, NEW t,
               CancelManagedRun(x) \/ ReopenTask(t) \/ SubmitReview(y, x, v)
        PROVE  FALSE
    BY <2>5 DEF CancelManagedRun, ReopenTask, SubmitReview
  <2>6. (\E x \in Run: CancelManagedRun(x)) => FALSE
    BY <2>5
  <2>7. (\E t \in Task: CancelTask(t) \/ ReopenTask(t)) => FALSE
    BY <2>4, <2>5
  <2>8. (\E y, x \in Run, v \in Verdict: SubmitReview(y, x, v)) => FALSE
    BY <2>5
  <2> QED BY <1>6, <2>1, <2>2, <2>3, <2>6, <2>7, <2>8 DEF ExecutionNext
<1>11. ~IntakeNext
  <2>1. ASSUME NEW b, NEW op, IntakeCheck(b, op) \/ IntakeRefused(b, op)  PROVE FALSE
    BY <2>1 DEF IntakeCheck, IntakeRefused, IntakeDone
  <2>2. ASSUME NEW b,
               IntakeRead(b) \/ StartInterview(b) \/ FinalizeInterview(b)
               \/ BeginExecution(b) \/ HumanMessage(b) \/ AgentReply(b)
        PROVE  FALSE
    <3>1. \/ asg' = asg
          \/ asg[b].status = "active" /\ \E q: asg' = [asg EXCEPT ![b] = q]
      BY <2>2 DEF IntakeRead, StartInterview, FinalizeInterview, BeginExecution,
                  HumanMessage, AgentReply, MoveToPhase
    <3> QED BY <1>8, <3>1
  <2>3. ASSUME NEW t, ReassignProject(t)  PROVE FALSE
    BY <2>3 DEF ReassignProject, ActiveFor
  <2> QED BY <2>1, <2>2, <2>3 DEF IntakeNext
<1> QED BY <1>9, <1>10, <1>11 DEF LifeNext

\* What keeps the right of a to come back, what takes it away, and what is left of
\* its runs then.
Keeps(a) ==
  asg'[a].status \in ActiveOrExpired /\ (LiveLease(a) => asg'[a].status = "active")
Ending(a) ==
  \/ \E x \in Run: run[x].asg = a /\ run'[x].status \in EndedRunStatus
  \/ task'[asg[a].task].state = "cancelled"
  \/ asg[a].role = "executor" /\
     \E g \in Agent, force \in BOOLEAN: Takeover(asg[a].task, g, force)
Closed(a) ==
  \A x \in Run: run[x].asg = a => run'[x].status \notin {"running", "paused"}

LEMMA SameKeeps ==
  ASSUME NEW a, asg[a].status \in ActiveOrExpired, asg'[a].status = asg[a].status
  PROVE  Keeps(a)
BY DEF Keeps, LiveLease

LEMMA ClaimsKeep ==
  ASSUME TypeOK, ClaimsNext, NEW a \in Asg, asg[a].status \in ActiveOrExpired
  PROVE  Keeps(a)
<1> DEFINE swept == SetAsg(asg, Stale, "expired")
<1>1. asg \in [Asg -> AsgRow \cup {NullAsg}] /\ asg[a] \in AsgRow
  BY UsedRows DEF TypeOK, AsgTable, ActiveOrExpired
<1>2. /\ swept \in [Asg -> AsgRow \cup {NullAsg}]
      /\ swept[a].status \in ActiveOrExpired
      /\ LiveLease(a) => swept[a].status = "active"
  BY <1>1, SweepType DEF AsgTable, SetAsg, Stale, Lapsed, LiveLease, ActiveOrExpired, AsgRow
<1>3. ASSUME NEW b, FreshAsg(b)  PROVE a # b
  BY <1>3 DEF FreshAsg, ActiveOrExpired
<1>4. ASSUME NEW t \in Task, NEW g \in Agent, NEW r \in Role, NEW intake \in BOOLEAN,
             Claim(t, g, r, intake)
      PROVE  Keeps(a)
  <2>1. PICK b \in Asg: /\ FreshAsg(b)
                        /\ asg' = [asg EXCEPT ![b] = NewAsg(t, g, r, ClaimPhase(r, intake))]
    BY <1>4 DEF Claim
  <2>2. asg'[a] = asg[a]
    BY <1>1, <1>3, <2>1
  <2> QED BY <2>2, SameKeeps
<1>5. ASSUME NEW t \in Task, NEW g \in Agent, NEW r \in Role, ClaimForExecution(t, g, r)
      PROVE  Keeps(a)
  <2>1. PICK b \in Asg: /\ FreshAsg(b)
                        /\ asg' = [asg EXCEPT ![b] = NewAsg(t, g, r, ClaimPhase(r, TRUE))]
    BY <1>5 DEF ClaimForExecution
  <2>2. asg'[a] = asg[a]
    BY <1>1, <1>3, <2>1
  <2> QED BY <2>2, SameKeeps
<1>6. ASSUME NEW t \in Task, NEW g \in Agent, NEW r \in Role, Dispatch(t, g, r)
      PROVE  Keeps(a)
  <2>1. PICK b \in Asg: /\ FreshAsg(b)
                        /\ asg' = [swept EXCEPT ![b] = NewAsg(t, g, r, ClaimPhase(r, TRUE))]
    BY <1>6 DEF Dispatch
  <2> HIDE DEF swept
  <2>2. asg'[a] = swept[a]
    BY <1>2, <1>3, <2>1
  <2> QED BY <1>2, <2>2 DEF Keeps
<1>7. ASSUME NEW t \in Task, NEW g \in Agent, NEW r \in Role,
             \/ ClaimTask(t, g, r) \/ ApproveRequest(t, g, r)
             \/ RequestAssignment(t, g, r) \/ CloseRequest(t, g, r)
      PROVE  Keeps(a)
  <2>1. (\E intake \in BOOLEAN: Claim(t, g, r, intake)) \/ UNCHANGED asg
    BY <1>7 DEF ClaimTask, ApproveRequest, RequestAssignment, CloseRequest
  <2> QED BY <1>4, <2>1, SameKeeps
<1>8. ASSUME NEW b \in Asg, LeaseLapses(b)  PROVE Keeps(a)
  <2>1. asg'[a].status = asg[a].status
    BY <1>1, <1>8 DEF LeaseLapses, AsgRow
  <2> QED BY <2>1, SameKeeps
<1>9. ASSUME NEW b \in Asg, NEW x \in Run, RecoverAssignment(b, x)  PROVE Keeps(a)
  <2>1. asg'[a].status = asg[a].status \/ asg'[a].status = "active"
    BY <1>1, <1>9 DEF RecoverAssignment, AsgRow
  <2> QED BY <2>1, SameKeeps DEF Keeps, ActiveOrExpired
<1>10. ASSUME ExpireStale  PROVE Keeps(a)
  BY <1>2, <1>10 DEF ExpireStale, Keeps
<1>11. ASSUME NEW t \in Task, NEW m \in AssignmentMode, SetMode(t, m)  PROVE Keeps(a)
  BY <1>11, SameKeeps DEF SetMode
<1> QED BY <1>5, <1>6, <1>7, <1>8, <1>9, <1>10, <1>11 DEF ClaimsNext

LEMMA IntakeKeeps ==
  ASSUME TypeOK, IntakeNext, NEW a \in Asg, asg[a].status \in ActiveOrExpired
  PROVE  Keeps(a)
<1>1. asg \in [Asg -> AsgRow \cup {NullAsg}] /\ asg[a] \in AsgRow
  BY UsedRows DEF TypeOK, AsgTable, ActiveOrExpired
<1>2. ASSUME NEW b \in Asg, NEW op \in IntakeOp,
             IntakeCheck(b, op) \/ IntakeRefused(b, op)
      PROVE  Keeps(a)
  BY <1>2, SameKeeps DEF IntakeCheck, IntakeRefused
<1>3. ASSUME NEW b \in Asg,
             IntakeRead(b) \/ StartInterview(b) \/ FinalizeInterview(b)
             \/ BeginExecution(b) \/ HumanMessage(b) \/ AgentReply(b)
      PROVE  Keeps(a)
  <2>1. \/ asg' = asg
        \/ \E p: asg' = [asg EXCEPT ![b] = [@ EXCEPT !.phase = p]]
        \/ \E p: asg' = [asg EXCEPT ![b] = [@ EXCEPT !.phase = p, !.lapsed = FALSE]]
    BY <1>3 DEF IntakeRead, StartInterview, FinalizeInterview, BeginExecution,
                HumanMessage, AgentReply, MoveToPhase
  <2>2. \/ asg'[a] = asg[a]
        \/ \E p: asg'[a] = [asg[a] EXCEPT !.phase = p]
        \/ \E p: asg'[a] = [asg[a] EXCEPT !.phase = p, !.lapsed = FALSE]
    BY <1>1, <2>1
  <2>3. asg'[a].status = asg[a].status
    BY <1>1, <2>2 DEF AsgRow
  <2> QED BY <2>3, SameKeeps
<1>4. ASSUME NEW t \in Task, ReassignProject(t)  PROVE Keeps(a)
  <2>1. \/ asg'[a] = asg[a]
        \/ asg'[a] = [asg[a] EXCEPT !.phase = "context_review"]
    BY <1>4 DEF ReassignProject
  <2>2. asg'[a].status = asg[a].status
    BY <1>1, <2>1 DEF AsgRow
  <2> QED BY <2>2, SameKeeps
<1> QED BY <1>2, <1>3, <1>4 DEF IntakeNext

\* Only the end of its run, of its task or a takeover takes a lease away, and that
\* leaves no run behind that could still act under it.
LEMMA ExecutionEnds ==
  ASSUME PhaseInv, OneLiveRunPerAssignment, ExecutionNext,
         NEW a \in Asg, asg[a].status \in ActiveOrExpired
  PROVE  Keeps(a) \/ (Ending(a) /\ Closed(a))
<1> USE DEF PhaseInv
<1>1. asg \in [Asg -> AsgRow \cup {NullAsg}] /\ asg[a] \in AsgRow
  BY UsedRows DEF TypeOK, AsgTable, ActiveOrExpired
<1>2. ASSUME NEW x \in Run, run[x].status \in LiveRunStatus,
             run[x].asg = a, NEW y \in Run, run[y].asg = a, y # x
      PROVE  run[y].status \notin {"running", "paused"}
  BY <1>2 DEF OneLiveRunPerAssignment, LiveRunStatus
<1>3. ASSUME NEW S, NEW st \in EndedRunStatus, NEW x \in Run, x \in S,
             run[x].status \in LiveRunStatus, run[x].asg = a,
             run' = SetRun(run, S, st)
      PROVE  Ending(a) /\ Closed(a)
  <2>1. run'[x].status = st
    <3>1. run[x] \in RunRow
      BY <1>3, UsedRows DEF LiveRunStatus
    <3> QED BY <1>3, <3>1 DEF SetRun, RunRow
  <2>2. ASSUME NEW y \in Run, run[y].asg = a, y # x
        PROVE  run'[y].status \notin {"running", "paused"}
    <3>1. run[y].status \notin {"running", "paused"} /\ run[y] \in RunRow \cup {NullRun}
      BY <1>2, <1>3, <2>2 DEF TypeOK, RunTable
    <3>2. run'[y] = run[y] \/ run'[y] = [run[y] EXCEPT !.status = st]
      BY <1>3 DEF SetRun
    <3> QED BY <3>1, <3>2 DEF RunRow, NullRun, EndedRunStatus
  <2> QED BY <1>3, <2>1, <2>2 DEF Ending, Closed, EndedRunStatus
<1>4. ASSUME NEW S, NEW st, asg' = SetAsg(asg, S, st), a \notin S
      PROVE  Keeps(a)
  BY <1>4, SameKeeps DEF SetAsg
<1>5. ASSUME NEW b \in Asg, StartRun(b)  PROVE Keeps(a)
  <2>1. asg'[a].status = asg[a].status
    BY <1>1, <1>5 DEF StartRun, AsgRow
  <2> QED BY <2>1, SameKeeps
<1>6. ASSUME NEW x \in Run, CompleteRun(x) \/ CreateHandoff(x) \/ CancelReviewerRun(x)
      PROVE  Keeps(a) \/ (Ending(a) /\ Closed(a))
  <2>1. CASE run[x].asg = a
    <3>1. run[x].status \in LiveRunStatus
      BY <1>6 DEF CompleteRun, CreateHandoff, CancelReviewerRun, LiveRunStatus
    <3>2. CASE CompleteRun(x)
      <4>1. run' = SetRun(run, {x}, "completed")
        BY <3>2 DEF CompleteRun
      <4> QED BY <1>3, <2>1, <3>1, <4>1 DEF EndedRunStatus
    <3>3. CASE CreateHandoff(x)
      <4> DEFINE S == {y \in Run: run[y].asg = a /\ run[y].status \in {"running", "paused"}}
      <4>1. run' = SetRun(run, S, "handed_off") /\ x \in S
        BY <2>1, <3>3 DEF CreateHandoff
      <4> HIDE DEF S
      <4> QED BY <1>3, <2>1, <3>1, <4>1 DEF EndedRunStatus
    <3>4. CASE CancelReviewerRun(x)
      <4>1. run' = SetRun(run, {x}, "cancelled")
        BY <3>4 DEF CancelReviewerRun
      <4> QED BY <1>3, <2>1, <3>1, <4>1 DEF EndedRunStatus
    <3> QED BY <1>6, <3>2, <3>3, <3>4
  <2>2. CASE run[x].asg # a
    <3>1. \E S, st: a \notin S /\ asg' = SetAsg(asg, S, st)
      BY <1>6, <2>2 DEF CompleteRun, CreateHandoff, CancelReviewerRun
    <3> QED BY <1>4, <3>1
  <2> QED BY <2>1, <2>2
<1>7. ASSUME NEW x \in Run, CancelManagedRun(x)  PROVE Keeps(a)
  BY <1>7, SameKeeps DEF CancelManagedRun
<1>8. ASSUME NEW t \in Task, ReopenTask(t)  PROVE Keeps(a)
  BY <1>8, SameKeeps DEF ReopenTask
<1>9. ASSUME NEW y \in Run, NEW x \in Run, NEW v \in Verdict, SubmitReview(y, x, v)
      PROVE  Keeps(a)
  BY <1>9, SameKeeps DEF SubmitReview
<1>10. ASSUME NEW t \in Task, CancelTask(t)
       PROVE  Keeps(a) \/ (Ending(a) /\ Closed(a))
  <2>1. CASE asg[a].task = t
    <3>1. task'[t].state = "cancelled"
      BY <1>10 DEF CancelTask, SetTask, TypeOK, TaskTable
    <3>2. ASSUME NEW x \in Run, run[x].asg = a
          PROVE  run'[x].status \notin {"running", "paused"}
      <4> DEFINE live == OfTask(x, t) /\ run[x].status \in LiveRunStatus
      <4>1. CASE live
        <5>1. run'[x] = [run[x] EXCEPT !.status = CancelStatus(x)]
          BY <1>10, <4>1 DEF CancelTask
        <5>2. run[x] \in RunRow
          BY <4>1, UsedRows DEF OfTask
        <5> QED BY <5>1, <5>2 DEF RunRow, CancelStatus
      <4>2. CASE ~live
        <5>1. run'[x] = run[x]
          BY <1>10, <4>2 DEF CancelTask
        <5> QED BY <2>1, <3>2, <4>2, <5>1 DEF OfTask, LiveRunStatus
      <4> QED BY <4>1, <4>2
    <3> QED BY <2>1, <3>1, <3>2 DEF Ending, Closed
  <2>2. CASE asg[a].task # t
    <3>1. \E S, st: a \notin S /\ asg' = SetAsg(asg, S, st)
      BY <1>10, <2>2 DEF CancelTask
    <3> QED BY <1>4, <3>1
  <2> QED BY <2>1, <2>2
<1>11. ASSUME NEW t \in Task, NEW g \in Agent, NEW force \in BOOLEAN, Takeover(t, g, force)
       PROVE  Keeps(a) \/ (Ending(a) /\ Closed(a))
  <2> DEFINE D == {c \in Asg: /\ asg[c].task = t /\ asg[c].role = "executor"
                              /\ asg[c].status \in ActiveOrExpired}
             dropped == SetAsg(asg, D, "released")
             stopped == SetRun(run, ExecutorRuns(t), "abandoned")
  <2>1. PICK b \in Asg, x \in Run:
          /\ FreshAsg(b) /\ FreshRun(x)
          /\ asg' = [dropped EXCEPT ![b] = NewAsg(t, g, "executor", "context_review")]
          /\ run' = [stopped EXCEPT ![x] = NewRun(b, "none")]
    BY <1>11 DEF Takeover
  <2>2. a # b
    BY <2>1 DEF FreshAsg, ActiveOrExpired
  <2>3. CASE a \notin D
    <3>1. asg'[a] = asg[a]
      BY <2>1, <2>2, <2>3 DEF SetAsg
    <3> QED BY <3>1, SameKeeps
  <2>4. CASE a \in D
    <3>1. ASSUME NEW y \in Run, run[y].asg = a
          PROVE  run'[y].status \notin {"running", "paused"}
      <4>1. y = x => run[y].status = "none"
        BY <2>1 DEF FreshRun
      <4>2. CASE run[y].status \in {"running", "paused"}
        <5>1. y \in ExecutorRuns(t) /\ run[y] \in RunRow
          BY <2>4, <3>1, <4>2, UsedRows DEF ExecutorRuns, OfTask, RunRole
        <5>2. run'[y] = [run[y] EXCEPT !.status = "abandoned"]
          BY <2>1, <4>1, <4>2, <5>1 DEF SetRun
        <5> QED BY <5>1, <5>2 DEF RunRow
      <4>3. CASE run[y].status \notin {"running", "paused"}
        <5>1. y \notin ExecutorRuns(t)
          BY <4>3 DEF ExecutorRuns
        <5>2. y # x => run'[y] = run[y]
          BY <2>1, <5>1 DEF SetRun
        <5>3. y # x
          <6> SUFFICES ASSUME y = x  PROVE FALSE
            OBVIOUS
          <6>1. run[y] = NullRun
            BY <4>1 DEF TypeOK, RunTable, RunRow, LiveRunStatus, EndedRunStatus
          <6> QED BY <3>1, <6>1, ZeroIsNoRun DEF NullRun, Asg
        <5> QED BY <4>3, <5>2, <5>3
      <4> QED BY <4>2, <4>3
    <3> QED BY <1>11, <2>4, <3>1 DEF Ending, Closed
  <2> QED BY <2>3, <2>4
<1> QED BY <1>5, <1>6, <1>7, <1>8, <1>9, <1>10, <1>11 DEF ExecutionNext

LEMMA LifeEnds ==
  ASSUME PhaseInv, OneLiveRunPerAssignment, LifeNext,
         NEW a \in Asg, asg[a].status \in ActiveOrExpired
  PROVE  Keeps(a) \/ (Ending(a) /\ Closed(a))
BY ClaimsKeep, IntakeKeeps, ExecutionEnds DEF LifeNext, PhaseInv

\* A task is offered again when no executor is left to it.
LEMMA LifeReadies ==
  ASSUME OwnershipInv, LifeNext, NEW t \in Task,
         task[t].state # "ready", task'[t].state = "ready"
  PROVE  ActiveFor(asg', t, "executor") = {}
<1> USE DEF OwnershipInv
<1>1. ASSUME NEW u, NEW st, st # "ready", task' = SetTask(task, u, st)  PROVE FALSE
  BY <1>1 DEF SetTask, TypeOK, TaskTable
<1>2. ASSUME NEW as, NEW u, task' = Requeued(as, u)
      PROVE  t = u /\ ActiveFor(as, t, "executor") = {}
  BY <1>2 DEF Requeued, SetTask, TypeOK, TaskTable
<1>3. ASSUME ClaimsNext  PROVE FALSE
  <2>1. ASSUME NEW u \in Task, NEW g \in Agent, NEW r \in Role,
               \/ ClaimTask(u, g, r) \/ ClaimForExecution(u, g, r)
               \/ ApproveRequest(u, g, r) \/ Dispatch(u, g, r)
        PROVE  FALSE
    <3>1. task' = task \/ task' = SetTask(task, u, "in_progress")
      BY <2>1 DEF ClaimTask, ClaimForExecution, ApproveRequest, Dispatch, Claim, ClaimedTask
    <3> QED BY <1>1, <3>1
  <2>2. ASSUME NEW u \in Task, NEW g \in Agent, NEW r \in Role,
               RequestAssignment(u, g, r) \/ CloseRequest(u, g, r)
        PROVE  FALSE
    BY <2>2 DEF RequestAssignment, CloseRequest
  <2>3. ASSUME NEW b \in Asg, LeaseLapses(b)  PROVE FALSE
    BY <2>3 DEF LeaseLapses
  <2>4. ASSUME NEW b \in Asg, NEW x \in Run, RecoverAssignment(b, x)  PROVE FALSE
    BY <2>4 DEF RecoverAssignment
  <2>5. ASSUME ExpireStale  PROVE FALSE
    BY <2>5 DEF ExpireStale
  <2>6. ASSUME NEW u \in Task, NEW m \in AssignmentMode, SetMode(u, m)  PROVE FALSE
    BY <2>6 DEF SetMode, TypeOK, TaskTable
  <2> QED BY <1>3, <2>1, <2>2, <2>3, <2>4, <2>5, <2>6 DEF ClaimsNext
<1>4. ASSUME IntakeNext  PROVE FALSE
  <2>1. task' = task
    BY <1>4 DEF IntakeNext, IntakeCheck, IntakeRefused, IntakeRead, StartInterview,
                FinalizeInterview, BeginExecution, HumanMessage, AgentReply,
                ReassignProject, IntakeDone
  <2> QED BY <2>1
<1>5. ASSUME NEW x \in Run, CreateHandoff(x)
      PROVE  ActiveFor(asg', t, "executor") = {}
  BY <1>2, <1>5 DEF CreateHandoff
<1>6. ASSUME NEW x \in Run, CancelReviewerRun(x)
      PROVE  ActiveFor(asg', t, "executor") = {}
  <2>1. ActiveFor(asg, t, "executor") = {}
    BY <1>2, <1>6 DEF CancelReviewerRun
  <2>2. \A a \in Asg: Shrinks(a)
    BY <1>6, SetAsgShrinks DEF CancelReviewerRun, AsgStatus
  <2> QED BY <2>1, <2>2 DEF ActiveFor, Shrinks
<1>7. ASSUME NEW u \in Task, ReopenTask(u)
      PROVE  ActiveFor(asg', t, "executor") = {}
  <2>1. t = u /\ task[u].state = "done" /\ asg' = asg
    BY <1>7 DEF ReopenTask, SetTask, TypeOK, TaskTable
  <2> QED BY <2>1 DEF DoneHasNoExecutor, ActiveFor
<1>8. ASSUME NEW x \in Run, CompleteRun(x) \/ CancelManagedRun(x)  PROVE FALSE
  BY <1>1, <1>8 DEF CompleteRun, CancelManagedRun
<1>9. ASSUME NEW b \in Asg, StartRun(b)  PROVE FALSE
  BY <1>9 DEF StartRun
<1>10. ASSUME NEW u \in Task, NEW g \in Agent, NEW force \in BOOLEAN, Takeover(u, g, force)
       PROVE  FALSE
  BY <1>10 DEF Takeover
<1>11. ASSUME NEW u \in Task, CancelTask(u)  PROVE FALSE
  BY <1>1, <1>11 DEF CancelTask
<1>12. ASSUME NEW y \in Run, NEW x \in Run, NEW v \in Verdict, SubmitReview(y, x, v)
       PROVE  FALSE
  BY <1>1, <1>12 DEF SubmitReview
<1> QED
  BY <1>3, <1>4, <1>5, <1>6, <1>7, <1>8, <1>9, <1>10, <1>11, <1>12
     DEF LifeNext, ExecutionNext

-----------------------------------------------------------------------------
(* The invariants of the work store without the launcher.                     *)
NoLaunch == \A l \in Attempt: attempt[l].status = "none"
NothingInterrupted == \A x \in Run: run[x].status # "interrupted"
LifeInv ==
  /\ OwnershipInv /\ SuccessionInv
  /\ NoLaunch /\ NothingInterrupted
  /\ ReadyMeansUnowned /\ LiveRunHasOpenAssignment

LEMMA NoLaunchStep ==
  ASSUME TypeOK, TypeOK', NoLaunch, LifeNext
  PROVE  NoLaunch' /\ NoExternal'
<1>1. NoLaunch'
  BY LifeAttempts DEF NoLaunch, AttemptStep
<1>2. ASSUME NEW l \in Attempt  PROVE attempt'[l] = NullAttempt
  <2>1. attempt'[l] \in AttemptRow \cup {NullAttempt} /\ attempt'[l].status = "none"
    BY <1>1 DEF NoLaunch, TypeOK, AttemptTable
  <2> QED BY <2>1, NoNullAttempt
<1> QED BY <1>1, <1>2 DEF NoExternal, NullAttempt

LEMMA InterruptedStep ==
  ASSUME PhaseInv, NoLaunch, NothingInterrupted, [SysNext]_vars
  PROVE  NothingInterrupted'
<1> SUFFICES ASSUME NEW x \in Run, run'[x].status = "interrupted"  PROVE FALSE
  BY DEF NothingInterrupted
<1>1. Attended(x)
  BY InterruptedWasAttended DEF NothingInterrupted
<1> QED BY <1>1 DEF Attended, NoLaunch, ActiveAttemptStatus

\* A task that is offered has no executor afterwards: it gets none with the step,
\* and none that it has takes its lease back.
LEMMA ReadyStep ==
  ASSUME LifeInv, LifeNext
  PROVE  ReadyMeansUnowned'
<1> USE DEF LifeInv, SuccessionInv, ReferInv
<1> SUFFICES ASSUME NEW t \in Task, task'[t].state = "ready",
                    NEW a \in ActiveFor(asg', t, "executor")
             PROVE  FALSE
  BY DEF ReadyMeansUnowned
<1>1. [SysNext]_vars
  BY DEF SysNext
<1>2. a \in Asg /\ asg'[a].status = "active" /\ asg'[a].task = t
      /\ asg'[a].role = "executor"
  BY DEF ActiveFor
<1>3. task[t].state = "ready"
  BY LifeReadies
<1>4. asg[a].status # "none"
  BY <1>2, LifeAppoints DEF PhaseInv
<1>5. /\ asg[a].task = t /\ asg[a].role = "executor"
      /\ asg[a].status = "active" \/ Recovers(a)
  BY <1>1, <1>2, <1>4, AsgMoves
<1>6. ~Recovers(a)
  BY <1>3, <1>5 DEF Recovers, RecoverAssignment
<1> QED BY <1>2, <1>3, <1>5, <1>6 DEF ReadyMeansUnowned, ActiveFor

\* A run that can act has an assignment that is active, or that its agent can take
\* back.
LEMMA OpenStep ==
  ASSUME LifeInv, LifeNext
  PROVE  LiveRunHasOpenAssignment'
<1> USE DEF LifeInv, SuccessionInv, ReferInv
<1> SUFFICES ASSUME NEW x \in Run, run'[x].status \in {"running", "paused"}
             PROVE  asg'[run'[x].asg].status \in ActiveOrExpired
  BY DEF LiveRunHasOpenAssignment, ActiveOrExpired
<1>1. [SysNext]_vars
  BY DEF SysNext
<1>2. CASE run[x].status = "none"
  <2>1. Begins(x)
    BY <1>1, <1>2, RunMoves
  <2> QED BY <2>1 DEF Begins, NewRun, ActiveOrExpired
<1>3. CASE run[x].status # "none"
  <2>1. Moves(x, run'[x]) /\ run[x] \in RunRow
    BY <1>1, <1>3, RunMoves, RunColumns
  <2>2. run'[x].asg = run[x].asg /\ run[x].status \in {"running", "paused"}
    BY <2>1 DEF Moves, RunStep, PastStatus, NothingInterrupted, RunRow, LiveRunStatus,
                EndedRunStatus
  <2>3. run[x].asg \in Asg /\ asg[run[x].asg].status \in ActiveOrExpired
    BY <2>1, <2>2 DEF LiveRunHasOpenAssignment, ActiveOrExpired, RunRow
  <2>4. ~Closed(run[x].asg)
    BY <2>2 DEF Closed
  <2>5. Keeps(run[x].asg)
    BY <2>3, <2>4, LifeEnds
  <2> QED BY <2>2, <2>5 DEF Keeps
<1> QED BY <1>2, <1>3

LEMMA LifeIsSystem == LifeSpec => SysSpec
<1>1. [LifeNext]_vars => [SysNext]_vars
  BY DEF SysNext
<1> QED BY <1>1, PTL DEF LifeSpec, SysSpec

LEMMA LifeInvariant == LifeSpec => []LifeInv
<1>1. StoreInit => NoLaunch /\ NothingInterrupted /\ ReadyMeansUnowned
                   /\ LiveRunHasOpenAssignment
  BY DEF StoreInit, NoLaunch, NothingInterrupted, ReadyMeansUnowned, ActiveFor,
         LiveRunHasOpenAssignment, NullAsg, NullRun, NullAttempt
<1>2. StoreInit /\ OwnershipInv /\ PhaseInv => LifeInv
  BY <1>1, SuccessionInit DEF LifeInv
<1>3. LifeInv /\ OwnershipInv' /\ PhaseInv' /\ [LifeNext]_vars => LifeInv'
  <2> SUFFICES ASSUME LifeInv, OwnershipInv', PhaseInv', [LifeNext]_vars
               PROVE  LifeInv'
    OBVIOUS
  <2>1. CASE UNCHANGED vars
    BY <2>1 DEF vars, LifeInv, SuccessionInv, NoLaunch, NothingInterrupted,
                ReadyMeansUnowned, LiveRunHasOpenAssignment, ReferInv, AsgInOrder,
                RunsHaveAsg, AttemptsRefer, AttemptRefers, CleaningAreExecutors, RunRole,
                NoExternal, OneLiveRunPerAssignment, FenceInv, Superseded, NoProcess,
                NothingToClean, HeldByRun, ActiveFor
  <2>2. CASE LifeNext
    <3>1. [SysNext]_vars
      BY <2>2 DEF SysNext
    <3>2. PhaseInv /\ NoLaunch /\ NothingInterrupted
      BY DEF LifeInv, SuccessionInv, ReferInv
    <3>3. NoLaunch' /\ NoExternal' /\ NothingInterrupted'
      BY <2>2, <3>1, <3>2, NoLaunchStep, InterruptedStep DEF PhaseInv
    <3>4. SuccessionInv'
      BY <3>1, <3>3, ReferStep, OneLiveStep, FenceStep DEF LifeInv, SuccessionInv
    <3>5. ReadyMeansUnowned' /\ LiveRunHasOpenAssignment'
      BY <2>2, ReadyStep, OpenStep
    <3> QED BY <3>3, <3>4, <3>5 DEF LifeInv
  <2> QED BY <2>1, <2>2
<1> QED
  BY <1>2, <1>3, LifeIsSystem, OwnershipInvariant, PhaseInvariant, PTL DEF LifeSpec

\* A task offered to the queue has no executor.
THEOREM OfferedTasksAreUnowned == LifeSpec => []ReadyMeansUnowned
<1>1. LifeInv => ReadyMeansUnowned
  BY DEF LifeInv
<1> QED BY <1>1, LifeInvariant, PTL

\* What ends an assignment ends the runs under it.
THEOREM EndedAssignmentsHaveNoRuns == LifeSpec => []LiveRunHasOpenAssignment
<1>1. LifeInv => LiveRunHasOpenAssignment
  BY DEF LifeInv
<1> QED BY <1>1, LifeInvariant, PTL

\* A lease that has not lapsed is only lost to the end of its run, the end of its
\* task or a takeover that an operator forces.  An ordinary takeover can find it: it
\* asks the latest executor only, and an earlier one may have come back.  That
\* one is held by a run, which the takeover ends.
THEOREM LeasesAreKept == LifeSpec => LiveLeaseIsNotRevoked
<1>1. ASSUME LifeInv, LifeNext, NEW a \in Asg, LiveLease(a), asg'[a].status # "active"
      PROVE  \/ task'[asg[a].task].state = "cancelled"
             \/ \E x \in Run: run[x].asg = a /\ run'[x].status \in EndedRunStatus
             \/ \E g \in Agent: Takeover(asg[a].task, g, TRUE)
  <2> USE DEF LifeInv, SuccessionInv, ReferInv
  <2> DEFINE t == asg[a].task
  <2>1. Ending(a)
    BY <1>1, LifeEnds DEF Keeps, LiveLease, ActiveOrExpired
  <2>2. ASSUME asg[a].role = "executor", NEW g \in Agent, Takeover(t, g, FALSE)
        PROVE  \E x \in Run: run[x].asg = a /\ run'[x].status \in EndedRunStatus
    <3>1. /\ ~CleanupBlocked(t) /\ a \notin LatestExecutor(t)
      BY <1>1, <2>2 DEF Takeover, UnsafePredecessor
    <3>2. Superseded(a)
      BY <2>2, <3>1 DEF LatestExecutor, Superseded, Asg
    <3>3. PICK x \in Run: run[x].asg = a /\ run[x].status \in HoldingStatus
      BY <1>1, <3>2 DEF FenceInv, HeldByRun, LiveLease
    <3>4. OfTask(x, t) /\ run[x] \in RunRow
      <4>1. run[x].status # "none"
        BY <3>3 DEF HoldingStatus
      <4> QED BY <1>1, <3>3, <4>1, RunColumns DEF OfTask
    <3>5. run[x].status \in {"running", "paused"}
      BY <3>1, <3>3, <3>4 DEF CleanupBlocked, HoldingStatus
    <3>6. x \in ExecutorRuns(t)
      BY <2>2, <3>3, <3>4, <3>5 DEF ExecutorRuns, RunRole
    <3> DEFINE stopped == SetRun(run, ExecutorRuns(t), "abandoned")
    <3>7. PICK b \in Asg, y \in Run: FreshRun(y) /\ run' = [stopped EXCEPT ![y] = NewRun(b, "none")]
      BY <2>2 DEF Takeover
    <3>8. x # y
      BY <3>5, <3>7 DEF FreshRun
    <3>9. run'[x] = [run[x] EXCEPT !.status = "abandoned"]
      BY <3>6, <3>7, <3>8 DEF SetRun
    <3>10. run'[x].status = "abandoned"
      BY <3>4, <3>9 DEF RunRow
    <3> QED BY <3>3, <3>10 DEF EndedRunStatus
  <2>3. ASSUME NEW g \in Agent, NEW force \in BOOLEAN, Takeover(t, g, force)
        PROVE  Takeover(t, g, FALSE) \/ Takeover(t, g, TRUE)
    <3>1. CASE force = TRUE
      BY <2>3, <3>1
    <3>2. CASE force = FALSE
      BY <2>3, <3>2
    <3> QED BY <3>1, <3>2
  <2> QED BY <2>1, <2>2, <2>3 DEF Ending
<1>2. LifeInv /\ [LifeNext]_vars =>
        [\A a \in Asg: LiveLease(a) /\ asg'[a].status # "active" =>
           \/ task'[asg[a].task].state = "cancelled"
           \/ \E x \in Run: run[x].asg = a /\ run'[x].status \in EndedRunStatus
           \/ \E g \in Agent: Takeover(asg[a].task, g, TRUE)]_vars
  BY <1>1
<1> QED BY <1>2, LifeInvariant, PTL DEF LifeSpec, LiveLeaseIsNotRevoked
=============================================================================
