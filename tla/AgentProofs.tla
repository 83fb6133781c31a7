----------------------------- MODULE AgentProofs -----------------------------
(* The launcher's task implements the system: its calls, the messages of the  *)
(* humans and the sweep of the capabilities are steps of Morrows or leave its *)
(* tables alone, so that what is proved of Morrows holds below it as well.    *)
(* Then what the launcher itself promises: one process for a run, one prompt  *)
(* for a message, no capability for a scope that is finished.                 *)
EXTENDS AgentProcess, LifecycleProofs, FiniteSetTheorems

-----------------------------------------------------------------------------
(* The refinement.                                                            *)
BaseInv == OwnershipInv /\ PhaseInv

LEMMA BaseStep ==
  ASSUME BaseInv, [SysNext]_vars
  PROVE  BaseInv'
BY OwnershipStays, PhaseStep DEF BaseInv

\* A message or a reply reaches at most one assignment, the executor's: a
\* reviewer has no interview, and there is one executor.
LEMMA OneTalks ==
  ASSUME BaseInv, NEW t, NEW S,
         S \subseteq {a \in Asg: /\ asg[a].status = "active" /\ asg[a].task = t
                                /\ asg[a].phase \in {"human_interview", "ready"}},
         NEW a \in S, NEW b \in S
  PROVE  a = b
<1>1. a \in Asg /\ b \in Asg /\ asg[a] \in AsgRow /\ asg[b] \in AsgRow
  BY UsedRows DEF BaseInv, PhaseInv
<1>2. asg[a].role = "executor" /\ asg[b].role = "executor"
  BY <1>1, VocabularyAssumption DEF BaseInv, PhaseInv, ReviewersImplement, AsgRow
<1> QED BY <1>1, <1>2 DEF BaseInv, OwnershipInv, OneActivePerRole

LEMMA MessageStep ==
  ASSUME BaseInv, NEW d, NEW t \in Task, NEW g, SendMessage(d, t, g)
  PROVE  UNCHANGED vars \/ \E a \in Asg: HumanMessage(a)
<1> DEFINE S == {a \in Asg: /\ asg[a].status = "active"
                            /\ asg[a].task = t /\ asg[a].agent = g
                            /\ asg[a].phase \in {"human_interview", "ready"}}
<1>1. /\ asg' = [a \in Asg |->
             IF a \in S
             THEN [asg[a] EXCEPT !.phase = "human_interview", !.lapsed = FALSE] ELSE asg[a]]
      /\ UNCHANGED <<task, run, requests, calls, launchVars>>
  BY DEF SendMessage
<1>2. asg \in [Asg -> AsgRow \cup {NullAsg}]
  BY DEF BaseInv, PhaseInv, TypeOK, AsgTable
<1>3. CASE S = {}
  <2>1. asg' = asg
    BY <1>1, <1>2, <1>3
  <2> QED BY <1>1, <2>1 DEF vars, launchVars
<1>4. ASSUME NEW a \in S  PROVE HumanMessage(a)
  <2>1. S = {a}
    BY <1>4, OneTalks
  <2>2. asg' = [asg EXCEPT ![a] = [@ EXCEPT !.phase = "human_interview", !.lapsed = FALSE]]
    BY <1>1, <1>2, <2>1
  <2> QED BY <1>1, <1>4, <2>2 DEF HumanMessage, MoveToPhase
<1> QED BY <1>3, <1>4

LEMMA ReplyStep ==
  ASSUME BaseInv, NEW t \in Task, NEW g, Reply(t, g)
  PROVE  UNCHANGED vars \/ \E a \in Asg: AgentReply(a)
<1> DEFINE S == {a \in Asg: /\ asg[a].status = "active"
                            /\ asg[a].task = t /\ asg[a].agent = g
                            /\ asg[a].phase = "human_interview"}
<1>1. /\ asg' = [a \in Asg |->
             IF a \in S THEN [asg[a] EXCEPT !.lapsed = FALSE] ELSE asg[a]]
      /\ UNCHANGED <<task, run, requests, calls, launchVars>>
  BY DEF Reply
<1>2. asg \in [Asg -> AsgRow \cup {NullAsg}]
  BY DEF BaseInv, PhaseInv, TypeOK, AsgTable
<1>3. CASE S = {}
  <2>1. asg' = asg
    BY <1>1, <1>2, <1>3
  <2> QED BY <1>1, <2>1 DEF vars, launchVars
<1>4. ASSUME NEW a \in S  PROVE AgentReply(a)
  <2>1. S = {a}
    BY <1>4, OneTalks
  <2>2. asg[a] \in AsgRow
    BY <1>4, UsedRows DEF BaseInv, PhaseInv
  <2>3. [asg[a] EXCEPT !.lapsed = FALSE]
          = [asg[a] EXCEPT !.phase = "human_interview", !.lapsed = FALSE]
    BY <1>4, <2>2 DEF AsgRow
  <2>4. asg' = [asg EXCEPT ![a] = [@ EXCEPT !.phase = "human_interview", !.lapsed = FALSE]]
    BY <1>1, <1>2, <2>1, <2>3
  <2> QED BY <1>1, <1>4, <2>4 DEF AgentReply, MoveToPhase
<1> QED BY <1>3, <1>4

LEMMA AgentStep ==
  ASSUME BaseInv, [AgentNext]_allVars
  PROVE  [SysNext]_vars
<1>1. CASE UNCHANGED allVars
  BY <1>1 DEF allVars
<1>2. CASE (LifeNext \/ ControlNext) /\ UNCHANGED agentVars
  BY <1>2 DEF SysNext, LaunchNext
<1>3. CASE LauncherNext
  <2> SUFFICES ASSUME NEW l \in Attempt,
                      \/ UNCHANGED vars \/ Confirm(l)
                      \/ \E success \in BOOLEAN: Report(l, success)
               PROVE  [SysNext]_vars
    BY <1>3 DEF LauncherNext, IssueCapability, NeedsNoCapability, AdoptCapability,
                LaunchFails, Spawn, RefuseRemote, ClaimDeliveries, PromptFails,
                WritePrompt, WriteFails, CompleteClaimed, End, OrphanExits
  <2>1. CASE Confirm(l)
    BY <2>1 DEF Confirm, SysNext, LaunchNext, ReportNext
  <2>2. ASSUME NEW success \in BOOLEAN, Report(l, success)
        PROVE  [SysNext]_vars
    BY <2>2 DEF Report, SysNext, LaunchNext, ReportNext
  <2> QED BY <2>1, <2>2
<1>4. CASE MessageNext
  <2>1. ASSUME NEW d \in Message, NEW t \in Task, NEW g \in Agent, SendMessage(d, t, g)
        PROVE  [SysNext]_vars
    BY <2>1, MessageStep DEF SysNext, LifeNext, IntakeNext
  <2>2. ASSUME NEW t \in Task, NEW g \in Agent, Reply(t, g)
        PROVE  [SysNext]_vars
    BY <2>2, ReplyStep DEF SysNext, LifeNext, IntakeNext
  <2>3. ASSUME NEW d \in Message, NEW l \in Attempt, SendInstruction(d, l)
        PROVE  UNCHANGED vars
    BY <2>3 DEF SendInstruction
  <2>4. ASSUME NEW d \in Message, Recall(d) \/ Acknowledge(d)
        PROVE  UNCHANGED vars
    BY <2>4 DEF Recall, Acknowledge
  <2> QED BY <1>4, <2>1, <2>2, <2>3, <2>4 DEF MessageNext
<1>5. CASE SweepNext
  <2>1. CASE SweepLists
    BY <2>1 DEF SweepLists
  <2>2. ASSUME NEW x \in Run,
               SweepRevokes(x) \/ CancelRevokes(x) \/ BeginCleanup(x) \/ EndCleanup(x)
        PROVE  [SysNext]_vars
    BY <2>2 DEF SweepRevokes, CancelRevokes, BeginCleanup, EndCleanup, SysNext,
                LaunchNext, ConfirmNext
  <2> QED BY <1>5, <2>1, <2>2 DEF SweepNext
<1>6. CASE Restart
  BY <1>6 DEF Restart, SysNext, LaunchNext
<1> QED BY <1>1, <1>2, <1>3, <1>4, <1>5, <1>6 DEF AgentNext

LEMMA BaseInvariant == AgentSpec => []BaseInv
<1>1. AgentInit => BaseInv
  BY OwnershipInit, PhaseInit DEF AgentInit, BaseInv
<1>2. BaseInv /\ [AgentNext]_allVars => BaseInv'
  BY AgentStep, BaseStep
<1> QED BY <1>1, <1>2, PTL DEF AgentSpec

\* Everything between the launcher's transactions, the messages included, is a
\* behaviour of the system: the processes and the capabilities only add to it.
THEOREM LauncherImplementsSystem == AgentSpec => SysSpec
<1>1. AgentInit => StoreInit
  BY DEF AgentInit
<1>2. BaseInv /\ [AgentNext]_allVars => [SysNext]_vars
  BY AgentStep
<1> QED BY <1>1, <1>2, BaseInvariant, PTL DEF AgentSpec, SysSpec

\* Cancelling a task leaves nothing of it able to act, the messages and the
\* launcher's processes notwithstanding.
THEOREM CancelledIsQuietBelow == AgentSpec => []CancelledIsQuiet
BY LauncherImplementsSystem, CancelIsComplete, PTL

\* A late report of a process, of a restarted daemon too, does not change how a
\* run ended.
THEOREM EndedRunsBelow == AgentSpec => EndedRunsStayEnded
BY LauncherImplementsSystem, EndedRuns, PTL

-----------------------------------------------------------------------------
(* What a step can do to a run and to an attempt, besides RunStep and         *)
(* AttemptStep.                                                               *)
\* the run is that of an external agent
Outside(x) == \E l \in Attempt: attempt[l].kind = "external" /\ attempt[l].run = x

\* Its scope is not finished, and it is not interrupted unless from outside.
Calm(x, q) ==
  /\ q.scope = "terminal" => run[x].scope = "terminal"
  /\ q.status = "interrupted" => run[x].status = "interrupted" \/ Outside(x)
AllCalm == \A x \in Run: Calm(x, run'[x])

LEMMA SameCalm == ASSUME UNCHANGED run PROVE AllCalm
BY DEF AllCalm, Calm

LEMMA SetRunCalm ==
  ASSUME TypeOK, NEW S, NEW st, st # "interrupted"
  PROVE  \A x \in Run: Calm(x, SetRun(run, S, st)[x])
<1> SUFFICES ASSUME NEW x \in Run
             PROVE  Calm(x, SetRun(run, S, st)[x])
  OBVIOUS
<1>1. run[x] \in RunRow \cup {NullRun}
  BY DEF TypeOK, RunTable
<1>2. \/ SetRun(run, S, st)[x] = run[x]
      \/ SetRun(run, S, st)[x] = [run[x] EXCEPT !.status = st]
  BY DEF SetRun
<1> QED BY <1>1, <1>2 DEF Calm, RunRow, NullRun

LEMMA NewRunCalm ==
  ASSUME TypeOK, NEW rs, rs \in [Run -> RunRow \cup {NullRun}],
         \A x \in Run: Calm(x, rs[x]),
         NEW y, NEW a, NEW s \in {"none", "intent"},
         run' = [rs EXCEPT ![y] = NewRun(a, s)]
  PROVE  AllCalm
<1> SUFFICES ASSUME NEW x \in Run
             PROVE  Calm(x, run'[x])
  BY DEF AllCalm
<1>1. run'[x] = NewRun(a, s) \/ run'[x] = rs[x]
  OBVIOUS
<1> QED BY <1>1 DEF Calm, NewRun

LEMMA OneCalm ==
  ASSUME TypeOK, NEW y \in Run, NEW q, Calm(y, q), run' = [run EXCEPT ![y] = q]
  PROVE  AllCalm
<1>1. run \in [Run -> RunRow \cup {NullRun}]
  BY DEF TypeOK, RunTable
<1> QED BY <1>1 DEF AllCalm, Calm

LEMMA LifeCalm ==
  ASSUME TypeOK, LifeNext
  PROVE  AllCalm
<1>1. run \in [Run -> RunRow \cup {NullRun}] /\ \A x \in Run: Calm(x, run[x])
  BY DEF TypeOK, RunTable, Calm
<1>2. ASSUME NEW S, NEW st, st # "interrupted", run' = SetRun(run, S, st)
      PROVE  AllCalm
  BY <1>2, SetRunCalm DEF AllCalm
<1>3. ASSUME ClaimsNext  PROVE AllCalm
  <2>1. ASSUME NEW t \in Task, NEW g \in Agent, NEW r \in Role, ClaimForExecution(t, g, r)
        PROVE  AllCalm
    <3>1. PICK a \in Asg, x \in Run: run' = [run EXCEPT ![x] = NewRun(a, "none")]
      BY <2>1 DEF ClaimForExecution
    <3> QED BY <1>1, <3>1, NewRunCalm
  <2>2. ASSUME ~\E t \in Task, g \in Agent, r \in Role: ClaimForExecution(t, g, r)
        PROVE  UNCHANGED run
    BY <1>3, <2>2 DEF ClaimsNext, ClaimTask, RequestAssignment, ApproveRequest,
         CloseRequest, Dispatch, LeaseLapses, RecoverAssignment, ExpireStale, SetMode
  <2> QED BY <2>1, <2>2, SameCalm
<1>4. ASSUME IntakeNext  PROVE AllCalm
  <2>1. UNCHANGED run
    BY <1>4 DEF IntakeNext, IntakeCheck, IntakeRefused, IntakeRead, StartInterview,
                FinalizeInterview, BeginExecution, HumanMessage, AgentReply,
                ReassignProject, IntakeDone
  <2> QED BY <2>1, SameCalm
<1>5. ASSUME NEW a \in Asg, StartRun(a)  PROVE AllCalm
  <2>1. PICK x \in Run: run' = [run EXCEPT ![x] = NewRun(a, "none")]
    BY <1>5 DEF StartRun
  <2> QED BY <1>1, <2>1, NewRunCalm
<1>6. ASSUME NEW x \in Run, CompleteRun(x)  PROVE AllCalm
  BY <1>2, <1>6 DEF CompleteRun
<1>7. ASSUME NEW x \in Run, CreateHandoff(x)  PROVE AllCalm
  <2> DEFINE S == {y \in Run: /\ run[y].asg = run[x].asg
                              /\ run[y].status \in {"running", "paused"}}
  <2>1. run' = SetRun(run, S, "handed_off")
    BY <1>7 DEF CreateHandoff
  <2> HIDE DEF S
  <2> QED BY <1>2, <2>1
<1>8. ASSUME NEW x \in Run, CancelManagedRun(x)  PROVE AllCalm
  BY <1>2, <1>8 DEF CancelManagedRun
<1>9. ASSUME NEW x \in Run, CancelReviewerRun(x)  PROVE AllCalm
  BY <1>2, <1>9 DEF CancelReviewerRun
<1>10. ASSUME NEW t \in Task, NEW g \in Agent, NEW force \in BOOLEAN, Takeover(t, g, force)
       PROVE  AllCalm
  <2> DEFINE stopped == SetRun(run, ExecutorRuns(t), "abandoned")
  <2>1. PICK a \in Asg, x \in Run: run' = [stopped EXCEPT ![x] = NewRun(a, "none")]
    BY <1>10 DEF Takeover
  <2>2. \A y \in Run: Calm(y, stopped[y])
    BY SetRunCalm
  <2>3. stopped \in [Run -> RunRow \cup {NullRun}]
    BY SetRunType DEF ExecutorRuns, RunTable, TypeOK, LiveRunStatus, EndedRunStatus
  <2> HIDE DEF stopped
  <2> QED BY <2>1, <2>2, <2>3, NewRunCalm
<1>11. ASSUME NEW t \in Task, CancelTask(t)  PROVE AllCalm
  <2> SUFFICES ASSUME NEW x \in Run  PROVE Calm(x, run'[x])
    BY DEF AllCalm
  <2>1. run'[x] = run[x] \/ run'[x] = [run[x] EXCEPT !.status = CancelStatus(x)]
    BY <1>11 DEF CancelTask
  <2>2. run[x] \in RunRow \cup {NullRun}
    BY <1>1
  <2> QED BY <2>1, <2>2 DEF Calm, RunRow, NullRun, CancelStatus
<1>12. ASSUME NEW t \in Task, ReopenTask(t)  PROVE AllCalm
  BY <1>12, SameCalm DEF ReopenTask
<1>13. ASSUME NEW y \in Run, NEW x \in Run, NEW v \in Verdict, SubmitReview(y, x, v)
       PROVE  AllCalm
  <2>1. run[x] \in RunRow
    BY <1>13, UsedRows DEF SubmitReview
  <2>2. Calm(x, [run[x] EXCEPT !.verdict = v])
    BY <2>1 DEF Calm, RunRow
  <2> QED BY <1>13, <2>2, OneCalm DEF SubmitReview
<1> QED
  BY <1>3, <1>4, <1>5, <1>6, <1>7, <1>8, <1>9, <1>10, <1>11, <1>12, <1>13
     DEF LifeNext, ExecutionNext

\* The exit of a process can interrupt its own run and no other.
LEMMA FinishRuns ==
  ASSUME TypeOK, NEW l \in Attempt, NEW success \in BOOLEAN, Finish(l, success),
         NEW y \in Run
  PROVE  /\ run'[y].scope = run[y].scope
         /\ run'[y].status = "interrupted" =>
              run[y].status = "interrupted" \/ y = attempt[l].run
<1> DEFINE x == attempt[l].run
<1>1. run[y] \in RunRow \cup {NullRun} /\ run \in [Run -> RunRow \cup {NullRun}]
  BY DEF TypeOK, RunTable
<1>2. \/ run' = run
      \/ \E st \in {"completed", "failed", "paused"}: run' = SetRun(run, {x}, st)
      \/ \E w: run' = [run EXCEPT ![x] = [@ EXCEPT !.status = "interrupted", !.window = w]]
  <2> DEFINE ended == \E st \in {"completed", "failed", "paused"}: run' = SetRun(run, {x}, st)
  <2>1. ASSUME run' = SetRun(run, {x}, IF success THEN "completed" ELSE "failed")
        PROVE  ended
    BY <2>1
  <2>2. ASSUME run' = SetRun(run, {x}, IF success THEN "paused" ELSE "failed")
        PROVE  ended
    BY <2>2
  <2> HIDE DEF ended
  <2> QED BY <2>1, <2>2 DEF Finish
<1>3. CASE run' = run
  BY <1>3
<1>4. ASSUME NEW st \in {"completed", "failed", "paused"}, run' = SetRun(run, {x}, st)
      PROVE  run'[y].scope = run[y].scope /\ (run'[y].status = "interrupted" => run[y].status = "interrupted")
  <2>1. run'[y] = run[y] \/ run'[y] = [run[y] EXCEPT !.status = st]
    BY <1>4 DEF SetRun
  <2> QED BY <1>1, <2>1 DEF RunRow, NullRun
<1>5. ASSUME NEW w,
             run' = [run EXCEPT ![x] = [@ EXCEPT !.status = "interrupted", !.window = w]]
      PROVE  /\ run'[y].scope = run[y].scope
             /\ y # x => run'[y] = run[y]
  <2>1. y # x => run'[y] = run[y]
    BY <1>1, <1>5
  <2>2. y = x => run'[y] = [run[y] EXCEPT !.status = "interrupted", !.window = w]
    BY <1>1, <1>5
  <2> QED BY <1>1, <2>1, <2>2 DEF RunRow, NullRun
<1> QED BY <1>2, <1>3, <1>4, <1>5

\* an attempt on its way to be retired is an external one
RetiringAreExternal == \A l \in retiring: attempt[l].kind = "external"

LEMMA OutsideCalm ==
  ASSUME TypeOK, NEW l \in Attempt, attempt[l].kind = "external",
         NEW success \in BOOLEAN, Finish(l, success)
  PROVE  AllCalm
BY FinishRuns DEF AllCalm, Calm, Outside

LEMMA ControlCalm ==
  ASSUME TypeOK, RetiringAreExternal, ControlNext
  PROVE  AllCalm
<1>1. run \in [Run -> RunRow \cup {NullRun}] /\ \A x \in Run: Calm(x, run[x])
  BY DEF TypeOK, RunTable, Calm
<1>2. ASSUME NEW S, NEW st, st # "interrupted", run' = SetRun(run, S, st)
      PROVE  AllCalm
  BY <1>2, SetRunCalm DEF AllCalm
<1>3. ASSUME NEW a \in Asg, NEW k \in AttemptKind, EnqueueLaunch(a, k)  PROVE AllCalm
  BY <1>3, SameCalm DEF EnqueueLaunch, lifeVars
<1>4. ASSUME NEW l \in Attempt, ClaimLaunchJob(l) \/ RetireExternal(l)  PROVE AllCalm
  BY <1>4, SameCalm DEF ClaimLaunchJob, RetireExternal, lifeVars
<1>5. ASSUME NEW l \in Attempt, Starts(l)  PROVE AllCalm
  <2>1. CASE AcceptExternal(l)
    <3>1. PICK x \in Run: run' = [run EXCEPT ![x] = NewRun(attempt[l].asg, "none")]
      BY <2>1 DEF AcceptExternal
    <3> QED BY <1>1, <3>1, NewRunCalm
  <2>2. ASSUME NEW x \in Run, BeginLaunch(l, x)  PROVE AllCalm
    <3>1. CASE \E s \in LaunchScope(attempt[l].kind,
                          IF asg[attempt[l].asg].phase = "ready" THEN "implementing"
                          ELSE asg[attempt[l].asg].phase):
                 run' = [run EXCEPT ![x] = NewRun(attempt[l].asg, s)]
      <4>1. PICK s \in {"none", "intent"}:
                 run' = [run EXCEPT ![x] = NewRun(attempt[l].asg, s)]
        BY <3>1 DEF LaunchScope
      <4> QED BY <1>1, <4>1, NewRunCalm
    <3>2. CASE /\ run[x].status = "interrupted"
               /\ run' = [run EXCEPT ![x] = [@ EXCEPT !.status = "running", !.window = "none"]]
      <4>1. run[x] \in RunRow
        BY <3>2, UsedRows
      <4>2. Calm(x, [run[x] EXCEPT !.status = "running", !.window = "none"])
        BY <4>1 DEF Calm, RunRow
      <4> QED BY <3>2, <4>2, OneCalm
    <3> QED BY <2>2, <3>1, <3>2 DEF BeginLaunch
  <2> QED BY <1>5, <2>1, <2>2 DEF Starts
<1>6. ASSUME NEW l \in Attempt, StopLaunch(l)  PROVE AllCalm
  <2> DEFINE S == {y \in {attempt[l].run} \cap Run: run[y].status \in {"running", "paused"}}
  <2>1. run' = SetRun(run, S, "paused")
    BY <1>6 DEF StopLaunch
  <2> HIDE DEF S
  <2> QED BY <1>2, <2>1
<1>7. ASSUME NEW l \in Attempt, CompleteExternal(l)  PROVE AllCalm
  BY <1>7, OutsideCalm DEF CompleteExternal, ExternalActive
<1>8. ASSUME NEW l \in Attempt, FailExternal(l)  PROVE AllCalm
  <2>1. CASE Finish(l, FALSE)
    BY <1>8, <2>1, OutsideCalm DEF FailExternal, RetiringAreExternal
  <2>2. CASE UNCHANGED lifeVars
    BY <2>2, SameCalm DEF lifeVars
  <2> QED BY <1>8, <2>1, <2>2 DEF FailExternal
<1>9. ASSUME NEW x \in Run, ProvisionStart(x) \/ ProvisionFails(x) \/ RestartRun(x)
             \/ RenewInterrupted(x)
      PROVE  AllCalm
  BY <1>9, SameCalm DEF ProvisionStart, ProvisionFails, RestartRun, RenewInterrupted, lifeVars
\* the columns that the others write
<1>10. ASSUME NEW x \in Run, run[x].status # "none", NEW q,
              \/ q = [run[x] EXCEPT !.scope = "bound"]
              \/ \E w: q = [run[x] EXCEPT !.wait = w]
              \/ \E w: q = [run[x] EXCEPT !.window = w]
              \/ q = [run[x] EXCEPT !.window = "open", !.wait = "none", !.queued = TRUE],
              run' = [run EXCEPT ![x] = q]
       PROVE  AllCalm
  <2>1. run[x] \in RunRow
    BY <1>10, UsedRows
  <2>2. Calm(x, q)
    BY <1>10, <2>1 DEF Calm, RunRow
  <2> QED BY <1>10, <2>2, OneCalm
<1>11. ASSUME NEW x \in Run, Bind(x)  PROVE AllCalm
  BY <1>10, <1>11, SameCalm DEF Bind
<1>12. ASSUME NEW x \in Run, NEW status \in {"pending", "ready"}, RegisterWait(x, status)
       PROVE  AllCalm
  BY <1>10, <1>12 DEF RegisterWait
<1>13. ASSUME NEW x \in Run, JobTerminal(x)  PROVE AllCalm
  <2>1. run[x].status # "none"
    BY <1>1, <1>13 DEF JobTerminal, RunRow, NullRun, LiveRunStatus, EndedRunStatus
  <2> QED BY <1>10, <1>13, <2>1 DEF JobTerminal
<1>14. ASSUME NEW x \in Run, ResumeWait(x) \/ WindowCloses(x)  PROVE AllCalm
  BY <1>10, <1>14 DEF ResumeWait, WindowCloses
<1>15. ASSUME NEW x \in Run, BeginExpiredCleanup(x)  PROVE AllCalm
  BY <1>2, <1>15 DEF BeginExpiredCleanup
<1> QED
  BY <1>3, <1>4, <1>5, <1>6, <1>7, <1>8, <1>9, <1>11, <1>12, <1>13, <1>14, <1>15
     DEF ControlNext, Starts

-----------------------------------------------------------------------------
(* The attempts of a run are of one kind.                                     *)
LEMMA NotUsed ==
  ASSUME TypeOK, NEW l \in Attempt
  PROVE  /\ attempt[l].status = "none" <=> attempt[l] = NullAttempt
         /\ attempt[l].status # "none" => attempt[l] \in AttemptRow
<1>1. attempt[l] \in AttemptRow \cup {NullAttempt}
  BY DEF TypeOK, AttemptTable
<1>2. NullAttempt.status = "none"
  BY DEF NullAttempt
<1> QED BY <1>1, <1>2, NoNullAttempt

LEMMA StartsAlone ==
  ASSUME TypeOK, NEW l \in Attempt, Starts(l), NEW m \in Attempt, m # l
  PROVE  attempt'[m] = attempt[m]
BY DEF Starts, AcceptExternal, BeginLaunch, TypeOK, AttemptTable

\* A new attempt of a run that has others is a restart, and of their kind.
LEMMA ForBefore ==
  ASSUME ReferInv, [SysNext]_vars, NEW l \in Attempt, NEW x \in Run,
         attempt'[l].run = x \/ attempt'[l].restart = x
  PROVE  \/ \E last \in Attempt:
              /\ attempt[last].run = x \/ attempt[last].restart = x
              /\ attempt'[l].kind = attempt[last].kind
         \/ /\ run[x].status = "none"
            /\ \A m \in Attempt \ {l}: attempt'[m] = attempt[m]
<1> USE DEF ReferInv, PhaseInv
<1>1. CASE AttemptStep(attempt[l], attempt'[l])
  BY <1>1 DEF AttemptStep
<1>2. CASE Queues(l)
  <2>1. PICK a \in Asg:
          \/ \E k \in AttemptKind:
               attempt'[l] = IF k = "external" THEN Invitation(a) ELSE QueuedAttempt(a, k, 0)
          \/ \E y \in Run, last \in Attempt:
               /\ attempt[last].run = y
               /\ attempt'[l] = QueuedAttempt(a, attempt[last].kind, y)
    BY <1>2 DEF Queues
  <2>2. PICK y \in Run, last \in Attempt:
          /\ attempt[last].run = y
          /\ attempt'[l] = QueuedAttempt(a, attempt[last].kind, y)
    <3>1. ASSUME NEW k \in AttemptKind,
                 attempt'[l] = IF k = "external" THEN Invitation(a) ELSE QueuedAttempt(a, k, 0)
          PROVE  FALSE
      <4>1. attempt'[l].run = 0 /\ attempt'[l].restart = 0
        BY <3>1 DEF Invitation, QueuedAttempt
      <4> QED BY <4>1, ZeroIsNoRun
    <3> QED BY <2>1, <3>1
  <2>3. y = x /\ attempt'[l].kind = attempt[last].kind
    BY <2>2, ZeroIsNoRun DEF QueuedAttempt
  <2> QED BY <2>2, <2>3
<1>3. CASE Starts(l)
  <2>1. PICK y \in Run, st \in {"starting", "running"}: StartsWith(l, y, st)
    BY <1>3, StartsRow
  <2>2. /\ attempt'[l].kind = attempt[l].kind
        /\ attempt'[l].run = y /\ attempt'[l].restart = attempt[l].restart
    BY <2>1 DEF StartsWith, AttemptRow
  <2>3. run[y].status = "none" \/ attempt[l].restart = y
    BY <2>1 DEF StartsWith
  <2> QED BY <1>3, <2>2, <2>3, StartsAlone
<1> QED BY <1>1, <1>2, <1>3, AnyAttemptStep DEF AttemptSteps

For(l, x) == attempt[l].run = x \/ attempt[l].restart = x
OneKind ==
  \A l, m \in Attempt, x \in Run: For(l, x) /\ For(m, x) => attempt[l].kind = attempt[m].kind

\* Nothing refers to a run before it begins.
LEMMA NotForUnused ==
  ASSUME ReferInv, NEW m \in Attempt, NEW x \in Run, For(m, x)
  PROVE  run[x].status # "none"
<1>1. attempt[m].status # "none"
  BY NotUsed, ZeroIsNoRun DEF For, NullAttempt, ReferInv, PhaseInv
<1> QED BY <1>1, ZeroIsNoRun DEF For, ReferInv, AttemptsRefer, AttemptRefers

LEMMA OneKindStep ==
  ASSUME ReferInv, OneKind, [SysNext]_vars
  PROVE  OneKind'
<1> SUFFICES ASSUME NEW l \in Attempt, NEW m \in Attempt, NEW x \in Run,
                    For(l, x)', For(m, x)', l # m
             PROVE  attempt'[l].kind = attempt'[m].kind
  BY DEF OneKind
<1>1. ASSUME NEW j \in Attempt, NEW k \in Attempt, j # k, For(j, x)', For(k, x)'
      PROVE  \E last \in Attempt: For(last, x) /\ attempt'[j].kind = attempt[last].kind
  <2>1. ASSUME run[x].status = "none", attempt'[k] = attempt[k]
        PROVE  FALSE
    BY <1>1, <2>1, NotForUnused DEF For
  <2> QED BY <1>1, <2>1, ForBefore DEF For
<1> QED BY <1>1 DEF OneKind

\* A used attempt keeps its kind.
LEMMA KindStays ==
  ASSUME TypeOK, [SysNext]_vars, NEW l \in Attempt, attempt[l].status # "none"
  PROVE  attempt'[l].kind = attempt[l].kind
<1>1. CASE Starts(l)
  <2>1. PICK y \in Run, st \in {"starting", "running"}: StartsWith(l, y, st)
    BY <1>1, StartsRow
  <2> QED BY <2>1 DEF StartsWith, AttemptRow
<1>2. CASE AttemptStep(attempt[l], attempt'[l])
  BY <1>2 DEF AttemptStep
<1>3. ~Queues(l)
  BY DEF Queues, FreshAttempt
<1> QED BY <1>1, <1>2, <1>3, AnyAttemptStep DEF AttemptSteps

LEMMA RetiringSteps ==
  ASSUME [SysNext]_vars
  PROVE  \A l \in retiring': l \in retiring \/ ExternalActive(l)
<1> DEFINE P == \A l \in retiring': l \in retiring \/ ExternalActive(l)
<1> SUFFICES P
  OBVIOUS
<1>1. CASE UNCHANGED vars
  BY <1>1 DEF vars
<1>2. CASE ClaimsNext
  <2>1. UNCHANGED retiring
    <3>1. ASSUME NEW t, NEW g, NEW r,
                 \/ ClaimTask(t, g, r) \/ ClaimForExecution(t, g, r)
                 \/ RequestAssignment(t, g, r) \/ ApproveRequest(t, g, r)
                 \/ CloseRequest(t, g, r) \/ Dispatch(t, g, r)
          PROVE  UNCHANGED retiring
      BY <3>1 DEF ClaimTask, ClaimForExecution, RequestAssignment, ApproveRequest,
                  CloseRequest, Dispatch, launchVars
    <3>2. ASSUME NEW a, NEW x, NEW t, NEW m,
                 \/ LeaseLapses(a) \/ RecoverAssignment(a, x) \/ ExpireStale
                 \/ SetMode(t, m)
          PROVE  UNCHANGED retiring
      BY <3>2 DEF LeaseLapses, RecoverAssignment, ExpireStale, SetMode, launchVars
    <3> QED BY <1>2, <3>1, <3>2 DEF ClaimsNext
  <2> QED BY <2>1
<1>3. CASE ExecutionNext
  <2>1. UNCHANGED retiring
    BY <1>3 DEF ExecutionNext, StartRun, CompleteRun, CreateHandoff, CancelManagedRun,
                CancelReviewerRun, Takeover, CancelTask, ReopenTask, SubmitReview,
                launchVars
  <2> QED BY <2>1
<1>4. CASE IntakeNext
  <2>1. UNCHANGED retiring
    BY <1>4 DEF IntakeNext, IntakeCheck, IntakeRefused, IntakeRead, StartInterview,
                FinalizeInterview, BeginExecution, HumanMessage, AgentReply,
                ReassignProject, IntakeDone, launchVars
  <2> QED BY <2>1
<1>5. CASE ReportNext
  BY <1>5 DEF ReportNext, MarkRunning, FinishLaunch
<1>6. CASE ConfirmNext
  BY <1>6 DEF ConfirmNext, CompleteCleanup, Terminalize, launchVars
<1>7. CASE DaemonRestart
  BY <1>7 DEF DaemonRestart
<1>8. CASE ControlNext
  <2>1. ASSUME NEW a, NEW k, EnqueueLaunch(a, k)  PROVE P
    BY <2>1 DEF EnqueueLaunch
  <2>2. ASSUME NEW l,
               \/ ClaimLaunchJob(l) \/ StopLaunch(l) \/ AcceptExternal(l)
               \/ CompleteExternal(l) \/ RetireExternal(l) \/ FailExternal(l)
        PROVE  P
    BY <2>2 DEF ClaimLaunchJob, StopLaunch, AcceptExternal, CompleteExternal,
                RetireExternal, FailExternal
  <2>3. ASSUME NEW l, NEW x, BeginLaunch(l, x)  PROVE P
    BY <2>3 DEF BeginLaunch
  <2>4. ASSUME NEW x,
               \/ ProvisionStart(x) \/ Bind(x) \/ ProvisionFails(x) \/ RestartRun(x)
               \/ JobTerminal(x) \/ ResumeWait(x) \/ RenewInterrupted(x)
               \/ WindowCloses(x) \/ BeginExpiredCleanup(x)
        PROVE  P
    BY <2>4 DEF ProvisionStart, Bind, ProvisionFails, RestartRun, JobTerminal,
                ResumeWait, RenewInterrupted, WindowCloses, BeginExpiredCleanup, launchVars
  <2>5. ASSUME NEW x, NEW status, RegisterWait(x, status)  PROVE P
    BY <2>5 DEF RegisterWait, launchVars
  <2> HIDE DEF P
  <2>6. (\E l \in Attempt: \E x \in Run: BeginLaunch(l, x)) => P
    BY <2>3
  <2>7. (\E l \in Attempt:
           \/ ClaimLaunchJob(l) \/ StopLaunch(l) \/ AcceptExternal(l)
           \/ CompleteExternal(l) \/ RetireExternal(l) \/ FailExternal(l)) => P
    BY <2>2
  <2>8. (\E x \in Run:
           \/ ProvisionStart(x) \/ Bind(x) \/ ProvisionFails(x) \/ RestartRun(x)
           \/ JobTerminal(x) \/ ResumeWait(x) \/ RenewInterrupted(x)
           \/ WindowCloses(x) \/ BeginExpiredCleanup(x)
           \/ \E status \in {"pending", "ready"}: RegisterWait(x, status)) => P
    BY <2>4, <2>5
  <2> QED BY <1>8, <2>1, <2>6, <2>7, <2>8 DEF ControlNext
<1> QED BY <1>1, <1>2, <1>3, <1>4, <1>5, <1>6, <1>7, <1>8 DEF SysNext, LifeNext, LaunchNext

LEMMA RetiringStep ==
  ASSUME TypeOK, RetiringAreExternal, [SysNext]_vars
  PROVE  RetiringAreExternal'
<1> SUFFICES ASSUME NEW l \in retiring'
             PROVE  attempt'[l].kind = "external"
  BY DEF RetiringAreExternal
<1>1. l \in retiring \/ ExternalActive(l)
  BY RetiringSteps
<1>2. attempt[l].kind = "external"
  BY <1>1 DEF RetiringAreExternal, ExternalActive
<1>3. l \in Attempt
  BY TypeStep DEF TypeOK
<1>4. attempt[l].status # "none"
  BY <1>2, <1>3, NotUsed DEF NullAttempt
<1> QED BY <1>2, <1>3, <1>4, KindStays

-----------------------------------------------------------------------------
(* The launcher's own state is well typed.                                    *)
LEMMA SetDeliveryType ==
  ASSUME delivery \in [Message -> DeliveryRow \cup {NullDelivery}],
         NEW S, \A d \in S: delivery[d].status # "none",
         NEW st \in {"queued", "claimed", "delivered", "recalled"},
         NEW l \in Attempt \cup {0}
  PROVE  SetDelivery(S, st, l) \in [Message -> DeliveryRow \cup {NullDelivery}]
<1> SUFFICES ASSUME NEW d \in Message, d \in S
             PROVE  [delivery[d] EXCEPT !.status = st, !.by = l] \in DeliveryRow
  BY DEF SetDelivery
<1>1. delivery[d] \in DeliveryRow
  BY DEF NullDelivery
<1> QED BY <1>1 DEF DeliveryRow

LEMMA NewDeliveryType ==
  ASSUME delivery \in [Message -> DeliveryRow \cup {NullDelivery}],
         NEW d \in Message, NEW kind \in {"task_message", "launch_instruction"},
         NEW t \in Task, NEW g \in Agent
  PROVE  [delivery EXCEPT ![d] = Queued(kind, g, t)]
           \in [Message -> DeliveryRow \cup {NullDelivery}]
BY DEF Queued, DeliveryRow

LEMMA MoveType ==
  ASSUME AgentTypeOK, NEW l \in Attempt, NEW from, NEW to \in Stage, Move(l, from, to)
  PROVE  proc' \in [Attempt -> Stage]
BY DEF AgentTypeOK, Move

LEMMA LauncherType ==
  ASSUME AgentTypeOK, LauncherNext
  PROVE  AgentTypeOK'
<1> SUFFICES ASSUME NEW l \in Attempt,
                    \/ IssueCapability(l) \/ NeedsNoCapability(l) \/ AdoptCapability(l)
                    \/ LaunchFails(l) \/ Spawn(l) \/ RefuseRemote(l) \/ Confirm(l)
                    \/ ClaimDeliveries(l) \/ PromptFails(l) \/ WritePrompt(l)
                    \/ WriteFails(l) \/ CompleteClaimed(l) \/ End(l) \/ OrphanExits(l)
                    \/ \E success \in BOOLEAN: Report(l, success)
             PROVE  AgentTypeOK'
  BY DEF LauncherNext
<1>1. proc' \in [Attempt -> Stage]
  <2>1. ASSUME NEW success, Report(l, success)  PROVE proc' \in [Attempt -> Stage]
    BY <2>1 DEF Report, AgentTypeOK, Stage
  <2>2. (\E from, to \in Stage: Move(l, from, to)) => proc' \in [Attempt -> Stage]
    BY MoveType
  <2>3. ASSUME OrphanExits(l)  PROVE proc' \in [Attempt -> Stage]
    BY <2>3 DEF OrphanExits, AgentTypeOK
  <2> QED
    BY <2>1, <2>2, <2>3 DEF IssueCapability, NeedsNoCapability, AdoptCapability,
       LaunchFails, Spawn, RefuseRemote, Confirm, ClaimDeliveries, PromptFails,
       WritePrompt, WriteFails, CompleteClaimed, End, Stage
<1>2. alive' \subseteq Attempt /\ UNCHANGED <<listed, cleaning, restarts>>
  BY DEF IssueCapability, NeedsNoCapability, AdoptCapability, LaunchFails, Spawn,
     RefuseRemote, Confirm, ClaimDeliveries, PromptFails, WritePrompt, WriteFails,
     CompleteClaimed, End, OrphanExits, Report, Kill, AgentTypeOK, capabilityVars
<1>3. adopted' \in [Run -> Attempt \cup {0}]
  <2>1. \/ adopted' = adopted
        \/ \E k \in {0, l}: adopted' = [adopted EXCEPT ![RunOf(l)] = k]
    BY DEF IssueCapability, NeedsNoCapability, AdoptCapability, LaunchFails, Spawn,
       RefuseRemote, Confirm, ClaimDeliveries, PromptFails, WritePrompt, WriteFails,
       CompleteClaimed, End, OrphanExits, Report, capabilityVars, MaybeRevoked, Revoked, Clear
  <2> QED BY <2>1 DEF AgentTypeOK
<1>4. given' \in [Message -> SUBSET Attempt]
  <2>1. CASE WritePrompt(l)
    BY <2>1 DEF WritePrompt, AgentTypeOK
  <2>2. CASE ~WritePrompt(l)
    <3>1. given' = given
      BY <2>2 DEF IssueCapability, NeedsNoCapability, AdoptCapability, LaunchFails, Spawn,
         RefuseRemote, Confirm, ClaimDeliveries, PromptFails, WriteFails,
         CompleteClaimed, End, OrphanExits, Report, messageVars
    <3> QED BY <3>1 DEF AgentTypeOK
  <2> QED BY <2>1, <2>2
<1>5. delivery' \in [Message -> DeliveryRow \cup {NullDelivery}]
  <2> DEFINE T == [Message -> DeliveryRow \cup {NullDelivery}]
  <2>1. delivery \in T
    BY DEF AgentTypeOK
  <2>2. ASSUME ClaimDeliveries(l)  PROVE delivery' \in T
    <3> DEFINE a == asg[attempt[l].asg]
               S == QueuedFor(a.agent, a.task)
    <3>1. \A d \in S: delivery[d].status # "none"
      BY DEF QueuedFor
    <3>2. delivery' = SetDelivery(S, "claimed", l) \/ delivery' = delivery
      BY <2>2 DEF ClaimDeliveries
    <3> HIDE DEF S
    <3> QED BY <2>1, <3>1, <3>2, SetDeliveryType
  <2>3. ASSUME WriteFails(l) \/ CompleteClaimed(l)  PROVE delivery' \in T
    <3> DEFINE S == ClaimedBy(l)
    <3>1. \A d \in S: delivery[d].status # "none"
      BY DEF ClaimedBy
    <3>2. \/ delivery' = delivery
          \/ delivery' = SetDelivery(S, "queued", 0)
          \/ delivery' = SetDelivery(S, "delivered", l)
      <4>1. CASE WriteFails(l)
        BY <4>1 DEF WriteFails
      <4>2. CASE CompleteClaimed(l)
        BY <4>2 DEF CompleteClaimed, Kept
      <4> QED BY <2>3, <4>1, <4>2
    <3> HIDE DEF S
    <3>3. SetDelivery(S, "queued", 0) \in T
      BY <2>1, <3>1, SetDeliveryType
    <3>4. SetDelivery(S, "delivered", l) \in T
      BY <2>1, <3>1, SetDeliveryType
    <3> QED BY <2>1, <3>2, <3>3, <3>4
  <2>4. ASSUME ~(ClaimDeliveries(l) \/ WriteFails(l) \/ CompleteClaimed(l))
        PROVE  delivery' = delivery
    BY <2>4 DEF IssueCapability, NeedsNoCapability, AdoptCapability, LaunchFails, Spawn,
       RefuseRemote, Confirm, PromptFails, WritePrompt, End, OrphanExits, Report, messageVars
  <2> QED BY <2>1, <2>2, <2>3, <2>4
<1> QED BY <1>1, <1>2, <1>3, <1>4, <1>5 DEF AgentTypeOK

LEMMA MessageType ==
  ASSUME ReferInv, AgentTypeOK, MessageNext
  PROVE  AgentTypeOK'
<1>1. delivery' \in [Message -> DeliveryRow \cup {NullDelivery}]
  <2>1. ASSUME NEW d \in Message, NEW t \in Task, NEW g \in Agent, SendMessage(d, t, g)
        PROVE  delivery' \in [Message -> DeliveryRow \cup {NullDelivery}]
    BY <2>1, NewDeliveryType DEF SendMessage, AgentTypeOK
  <2>2. ASSUME NEW d \in Message, NEW l \in Attempt, SendInstruction(d, l)
        PROVE  delivery' \in [Message -> DeliveryRow \cup {NullDelivery}]
    <3> DEFINE a == attempt[l].asg
    <3>1. asg[a].agent \in Agent /\ asg[a].task \in Task
      <4>1. TypeOK
        BY DEF ReferInv, PhaseInv
      <4>2. attempt[l].status # "none" /\ a \in Asg
        BY <2>2, <4>1, UsedAttempt DEF SendInstruction, ActiveAttemptStatus
      <4>3. asg[a].role = "executor"
        BY <4>2 DEF ReferInv, AttemptsRefer, AttemptRefers
      <4>4. asg[a] \in AsgRow \cup {NullAsg}
        BY <4>1, <4>2 DEF TypeOK, AsgTable
      <4> QED BY <4>3, <4>4 DEF AsgRow, NullAsg
    <3> QED BY <2>2, <3>1, NewDeliveryType DEF SendInstruction, AgentTypeOK
  <2>3. ASSUME NEW d \in Message, Recall(d) \/ Acknowledge(d)
        PROVE  delivery' \in [Message -> DeliveryRow \cup {NullDelivery}]
    <3> DEFINE S == {d}
    <3>1. \A e \in S: delivery[e].status # "none"
      BY <2>3 DEF Recall, Acknowledge, Recallable
    <3>2. \/ delivery' = SetDelivery(S, "recalled", 0)
          \/ delivery' = SetDelivery(S, "delivered", 0)
      BY <2>3 DEF Recall, Acknowledge
    <3> HIDE DEF S
    <3>3. SetDelivery(S, "recalled", 0) \in [Message -> DeliveryRow \cup {NullDelivery}]
      BY <3>1, SetDeliveryType DEF AgentTypeOK
    <3>4. SetDelivery(S, "delivered", 0) \in [Message -> DeliveryRow \cup {NullDelivery}]
      BY <3>1, SetDeliveryType DEF AgentTypeOK
    <3> QED BY <3>2, <3>3, <3>4
  <2>4. ASSUME NEW t, NEW g, Reply(t, g)
        PROVE  delivery' \in [Message -> DeliveryRow \cup {NullDelivery}]
    <3> DEFINE S == {d \in QueuedFor(g, t): delivery[d].kind = "task_message"}
    <3>1. \A d \in S: delivery[d].status # "none"
      BY DEF QueuedFor
    <3>2. delivery' = SetDelivery(S, "delivered", 0)
      BY <2>4 DEF Reply
    <3> HIDE DEF S
    <3> QED BY <3>1, <3>2, SetDeliveryType DEF AgentTypeOK
  <2> QED BY <2>1, <2>2, <2>3, <2>4 DEF MessageNext
<1>2. UNCHANGED <<proc, alive, given, capabilityVars, restarts>>
  BY DEF MessageNext, SendMessage, SendInstruction, Recall, Acknowledge, Reply
<1> QED BY <1>1, <1>2 DEF AgentTypeOK, capabilityVars

LEMMA AgentTypeStep ==
  ASSUME ReferInv, AgentTypeOK, [AgentNext]_allVars
  PROVE  AgentTypeOK'
<1>1. CASE UNCHANGED agentVars
  BY <1>1 DEF agentVars, messageVars, capabilityVars, AgentTypeOK
<1>2. CASE SweepNext
  <2>1. UNCHANGED <<proc, alive, delivery, given, restarts>>
    BY <1>2 DEF SweepNext, SweepLists, SweepRevokes, CancelRevokes, BeginCleanup,
                EndCleanup, messageVars
  <2>2. listed' \subseteq Run /\ cleaning' \subseteq Run
    BY <1>2 DEF SweepNext, SweepLists, SweepRevokes, CancelRevokes, BeginCleanup,
                EndCleanup, AgentTypeOK
  <2>3. adopted' = adopted \/ \E x \in Run: adopted' = [adopted EXCEPT ![x] = 0]
    BY <1>2 DEF SweepNext, SweepLists, SweepRevokes, CancelRevokes, BeginCleanup,
                EndCleanup, MaybeRevoked, Revoked, Clear
  <2> QED BY <2>1, <2>2, <2>3 DEF AgentTypeOK
<1>3. CASE Restart
  <2> DEFINE S == {d \in Message: delivery[d].status = "claimed"}
  <2>1. delivery' = SetDelivery(S, "queued", 0) /\ \A d \in S: delivery[d].status # "none"
    BY <1>3 DEF Restart
  <2>2. delivery' \in [Message -> DeliveryRow \cup {NullDelivery}]
    <3> HIDE DEF S
    <3> QED BY <2>1, SetDeliveryType DEF AgentTypeOK
  <2>3. proc' \in [Attempt -> Stage]
    BY <1>3 DEF Restart, Stage
  <2>4. restarts' \in 0 .. MaxRestart
    BY <1>3, RestartAssumption DEF Restart, AgentTypeOK
  <2> QED BY <1>3, <2>2, <2>3, <2>4 DEF Restart, AgentTypeOK
<1> QED
  BY <1>1, <1>2, <1>3, LauncherType, MessageType DEF AgentNext, allVars

\* The tables of the system below the launcher: what its proofs assume of them.
LowInv == BaseInv /\ ReferInv /\ ScopeInv

LEMMA LowInvariant == AgentSpec => []LowInv
BY BaseInvariant, LauncherImplementsSystem, ReferInvariant, ScopeInvariant, PTL DEF LowInv

\* The launcher's stages, processes, deliveries and capabilities keep their types.
THEOREM LauncherTypes == AgentSpec => []AgentTypeOK
<1>1. AgentInit => AgentTypeOK
  BY RestartAssumption DEF AgentInit, AgentTypeOK, Stage
<1>2. LowInv /\ AgentTypeOK /\ [AgentNext]_allVars => AgentTypeOK'
  BY AgentTypeStep DEF LowInv
<1> QED BY <1>1, <1>2, LowInvariant, PTL DEF AgentSpec

-----------------------------------------------------------------------------
(* One process for a run.                                                     *)
Waiting == {"none", "queued", "awaiting_agent"}

\* An attempt has a launcher's task only after it began, and when the task is
\* gone the attempt has ended.
StagedAttempt(l) ==
  /\ attempt[l].status \in Waiting => proc[l] = "none"
  /\ RunOf(l) = 0 => proc[l] \in {"none", "gone"}
  /\ proc[l] = "gone" /\ attempt[l].kind # "external" /\ RunOf(l) # 0 =>
       attempt[l].status \notin {"starting", "running"}
  /\ l \in alive => /\ attempt[l].kind = "local" /\ RunOf(l) # 0
                   /\ proc[l] \in Attached \cup {"failed", "gone"}
Staged == \A l \in Attempt: StagedAttempt(l)

\* Of the attempts of a run only one has not been taken back, and none of an
\* interrupted run.
SoleProcess ==
  \A l, m \in Attempt:
    /\ l # m /\ RunOf(l) = RunOf(m) /\ RunOf(l) # 0
    /\ attempt[l].kind # "external" /\ attempt[m].kind # "external"
    => proc[l] = "gone" \/ proc[m] = "gone"
QuietInterruption ==
  \A l \in Attempt, x \in Run:
    run[x].status = "interrupted" /\ RunOf(l) = x /\ attempt[l].kind # "external" =>
      proc[l] = "gone"

ProcessInv ==
  /\ AgentTypeOK /\ OneKind /\ RetiringAreExternal
  /\ Staged /\ SoleProcess /\ QuietInterruption

\* An attempt that has a run has begun.
LEMMA BegunAttempt ==
  ASSUME LowInv, NEW l \in Attempt
  PROVE  /\ RunOf(l) # 0 => attempt[l].status \notin Waiting
         /\ attempt[l].status \in {"starting", "running"} => RunOf(l) # 0
         /\ RunOf(l) \in Run \cup {0}
<1>1. TypeOK /\ attempt[l] \in AttemptRow \cup {NullAttempt}
  BY DEF LowInv, ReferInv, PhaseInv, TypeOK, AttemptTable
<1>2. attempt[l].status # "none" => AttemptRefers(l)
  BY DEF LowInv, ReferInv, AttemptsRefer
<1>3. attempt[l].status = "none" => RunOf(l) = 0
  BY <1>1, NotUsed DEF RunOf, NullAttempt
<1> QED BY <1>1, <1>2, <1>3 DEF RunOf, AttemptRefers, AttemptRow, NullAttempt, Waiting

\* The attempt of a process keeps its run.
LEMMA AliveKeepsRun ==
  ASSUME LowInv, ProcessInv, [SysNext]_vars, NEW l \in alive
  PROVE  /\ l \in Attempt /\ attempt'[l].run = attempt[l].run
         /\ attempt'[l].kind = attempt[l].kind /\ attempt[l].status \notin Waiting
<1>1. l \in Attempt
  BY DEF ProcessInv, AgentTypeOK
<1>2. ReferInv /\ TypeOK /\ AttemptSteps
  BY AnyAttemptStep DEF LowInv, ReferInv, PhaseInv
<1>3. attempt[l].status \notin Waiting
  BY <1>1, BegunAttempt DEF ProcessInv, Staged, StagedAttempt
<1>4. AttemptStep(attempt[l], attempt'[l])
  <2>1. ~Queues(l)
    BY <1>3 DEF Queues, FreshAttempt, Waiting
  <2>2. ~Starts(l)
    <3>1. ASSUME Starts(l)  PROVE FALSE
      <4>1. PICK x \in Run, st \in {"starting", "running"}: StartsWith(l, x, st)
        BY <1>1, <1>2, <3>1, StartsRow
      <4> QED BY <1>3, <4>1 DEF StartsWith, Waiting
    <3> QED BY <3>1
  <2> QED BY <1>1, <1>2, <2>1, <2>2 DEF AttemptSteps
<1> QED BY <1>1, <1>3, <1>4 DEF AttemptStep

\* The runs that a step interrupts are those of external agents.
OnlyOutside ==
  \A x \in Run: run'[x].status = "interrupted" =>
    run[x].status = "interrupted" \/ Outside(x)

\* A step of the tables, while no launcher's task moves.
LEMMA TablesAlone ==
  ASSUME LowInv, ProcessInv, [SysNext]_vars, OnlyOutside, UNCHANGED <<proc, alive>>
  PROVE  Staged' /\ SoleProcess' /\ QuietInterruption'
<1>1. ReferInv /\ TypeOK /\ AttemptSteps
  BY AnyAttemptStep DEF LowInv, ReferInv, PhaseInv
<1>2. ASSUME NEW l \in Attempt, Queues(l)
      PROVE  attempt[l].status = "none" /\ attempt'[l].status \in Waiting
  BY <1>2, QueuedWaits DEF Queues, FreshAttempt, Waiting
<1>3. ASSUME NEW l \in Attempt, Starts(l)
      PROVE  /\ attempt[l].status \in Waiting /\ attempt'[l].status \in {"starting", "running"}
             /\ attempt'[l].run \in Run
             /\ run[attempt'[l].run].status \in {"none", "interrupted"}
             /\ run'[attempt'[l].run].status = "running"
  <2>1. PICK x \in Run, st \in {"starting", "running"}: StartsWith(l, x, st)
    BY <1>1, <1>3, StartsRow
  <2>2. attempt'[l].run = x /\ attempt'[l].status = st
    BY <2>1 DEF StartsWith, AttemptRow
  <2>3. run'[x].status = "running"
    BY <2>1 DEF StartsWith, NewRun
  <2> QED BY <2>1, <2>2, <2>3 DEF StartsWith, Waiting
<1>4. ASSUME NEW l \in Attempt
      PROVE  StagedAttempt(l)'
  <2>1. StagedAttempt(l)
    BY DEF ProcessInv, Staged
  <2>2. l \in alive' => /\ attempt'[l].kind = "local" /\ RunOf(l)' # 0
                         /\ proc'[l] \in Attached \cup {"failed", "gone"}
    <3>1. CASE l \in alive
      BY <2>1, <3>1, AliveKeepsRun DEF StagedAttempt, RunOf
    <3>2. CASE l \notin alive
      BY <3>2
    <3> QED BY <3>1, <3>2
  <2>3. CASE AttemptStep(attempt[l], attempt'[l])
    BY <2>1, <2>2, <2>3
       DEF StagedAttempt, AttemptStep, Waiting, RunOf, ActiveAttemptStatus
  <2>4. CASE Queues(l)
    BY <1>2, <2>1, <2>2, <2>4 DEF StagedAttempt, Waiting
  <2>5. CASE Starts(l)
    BY <1>3, <2>1, <2>2, <2>5 DEF StagedAttempt, Waiting
  <2> QED BY <1>1, <2>3, <2>4, <2>5 DEF AttemptSteps
\* where the run of an attempt comes from
<1>5. ASSUME NEW l \in Attempt, attempt'[l].run # 0
      PROVE  (attempt'[l].run = attempt[l].run /\ attempt'[l].kind = attempt[l].kind) \/ Starts(l)
  <2>1. CASE AttemptStep(attempt[l], attempt'[l])
    BY <2>1 DEF AttemptStep
  <2>2. CASE Queues(l)
    <3>1. attempt'[l].run = 0
      <4>1. \A b, k, x: Invitation(b).run = 0 /\ QueuedAttempt(b, k, x).run = 0
        BY DEF Invitation, QueuedAttempt
      <4>2. \E b, k, x: attempt'[l] \in {Invitation(b), QueuedAttempt(b, k, x)}
        BY <2>2 DEF Queues
      <4> QED BY <4>1, <4>2
    <3> QED BY <1>5, <3>1
  <2> QED BY <1>1, <2>1, <2>2 DEF AttemptSteps
<1>6. ASSUME NEW l \in Attempt, NEW m \in Attempt, l # m, Starts(l),
             attempt'[m].run = attempt'[l].run, attempt'[m].kind # "external"
      PROVE  proc[m] = "gone"
  <2> DEFINE x == attempt'[l].run
  <2>1. attempt'[m] = attempt[m] /\ x \in Run
    BY <1>1, <1>3, <1>6, StartsAlone
  <2>2. attempt[m].run = x /\ attempt[m].kind # "external"
    BY <1>6, <2>1
  <2>3. run[x].status # "none"
    BY <1>1, <2>1, <2>2, NotForUnused DEF For
  <2>4. run[x].status = "interrupted"
    BY <1>3, <1>6, <2>3
  <2> QED BY <2>1, <2>2, <2>4 DEF ProcessInv, QuietInterruption, RunOf
<1>7. SoleProcess'
  <2> SUFFICES ASSUME NEW l \in Attempt, NEW m \in Attempt, l # m,
                      attempt'[l].run = attempt'[m].run, attempt'[l].run # 0,
                      attempt'[l].kind # "external", attempt'[m].kind # "external"
               PROVE  proc[l] = "gone" \/ proc[m] = "gone"
    BY DEF SoleProcess, RunOf
  <2>1. CASE Starts(l)
    BY <1>6, <2>1
  <2>2. CASE Starts(m)
    BY <1>6, <2>2
  <2>3. CASE ~Starts(l) /\ ~Starts(m)
    BY <1>5, <2>3 DEF ProcessInv, SoleProcess, RunOf
  <2> QED BY <2>1, <2>2, <2>3
<1>8. QuietInterruption'
  <2> SUFFICES ASSUME NEW l \in Attempt, NEW x \in Run, run'[x].status = "interrupted",
                      attempt'[l].run = x, attempt'[l].kind # "external"
               PROVE  proc[l] = "gone"
    BY DEF QuietInterruption, RunOf
  <2>1. ~Starts(l)
    BY <1>3
  <2>2. attempt[l].run = x /\ attempt[l].kind # "external"
    BY <1>5, <2>1, ZeroIsNoRun
  <2>3. run[x].status = "interrupted" \/ Outside(x)
    BY DEF OnlyOutside
  <2>4. ~Outside(x)
    BY <2>2 DEF Outside, ProcessInv, OneKind, For
  <2> QED BY <2>2, <2>3, <2>4 DEF ProcessInv, QuietInterruption, RunOf
<1> QED BY <1>4, <1>7, <1>8 DEF Staged

\* The task of a launch goes on: its process may begin or end.
LEMMA TaskGoesOn ==
  ASSUME LowInv, ProcessInv, NEW l \in Attempt, NEW to \in Stage \ {"none", "gone"},
         UNCHANGED run, \A m \in Attempt: AttemptStep(attempt[m], attempt'[m]),
         proc[l] # "gone", RunOf(l) # 0, proc' = [proc EXCEPT ![l] = to],
         alive' \subseteq alive \cup {l},
         l \in alive' => attempt[l].kind = "local" /\ to \in Attached
  PROVE  Staged' /\ SoleProcess' /\ QuietInterruption'
<1>1. /\ proc'[l] = to
      /\ \A m \in Attempt \ {l}: proc'[m] = proc[m] /\ (m \in alive' => m \in alive)
  BY DEF ProcessInv, AgentTypeOK
<1>2. \A m \in Attempt:
        /\ attempt'[m].run = attempt[m].run /\ attempt'[m].kind = attempt[m].kind
        /\ attempt'[m].status \in Waiting => attempt[m].status \in Waiting
        /\ attempt'[m].status \in {"starting", "running"} =>
             attempt[m].status \in {"starting", "running"}
  BY DEF AttemptStep, Waiting, ActiveAttemptStatus
<1>3. Staged'
  <2> SUFFICES ASSUME NEW m \in Attempt  PROVE StagedAttempt(m)'
    BY DEF Staged
  <2>1. StagedAttempt(m) /\ StagedAttempt(l)
    BY DEF ProcessInv, Staged
  <2>2. CASE m = l
    <3>1. attempt[l].status \notin Waiting
      BY BegunAttempt
    <3> QED BY <1>1, <1>2, <2>2, <3>1 DEF StagedAttempt, RunOf
  <2>3. CASE m # l
    BY <1>1, <1>2, <2>1, <2>3 DEF StagedAttempt, RunOf
  <2> QED BY <2>2, <2>3
<1>4. SoleProcess'
  BY <1>1, <1>2 DEF ProcessInv, SoleProcess, RunOf
<1>5. QuietInterruption'
  BY <1>1, <1>2 DEF ProcessInv, QuietInterruption, RunOf
<1> QED BY <1>3, <1>4, <1>5

\* It reports and is over.
LEMMA TaskEnds ==
  ASSUME LowInv, ProcessInv, NEW l \in Attempt, NEW success \in BOOLEAN, Report(l, success)
  PROVE  Staged' /\ SoleProcess' /\ QuietInterruption'
<1>1. /\ Reports(l) /\ UNCHANGED alive
      /\ proc'[l] = "gone" /\ \A m \in Attempt \ {l}: proc'[m] = proc[m]
  BY DEF Report, Reports, ProcessInv, AgentTypeOK, Staged, StagedAttempt, Attached
<1>2. TypeOK /\ attempt[l] \in AttemptRow \cup {NullAttempt}
  BY DEF LowInv, ReferInv, PhaseInv, TypeOK, AttemptTable
<1>3. /\ \A m \in Attempt: AttemptStep(attempt[m], attempt'[m])
      /\ attempt'[l].status \in EndedAttemptStatus
      /\ \A x \in Run: run'[x].status = "interrupted" =>
           run[x].status = "interrupted" \/ x = RunOf(l)
  <2>1. CASE attempt[l].status \in ActiveAttemptStatus
    <3>1. Finish(l, success)
      BY <2>1 DEF Report, FinishLaunch
    <3>2. attempt[l] \in AttemptRow
      BY <1>2, <2>1, UsedAttempt DEF ActiveAttemptStatus
    <3>3. PICK st \in EndedAttemptStatus, j \in JobStatus:
            attempt' = [attempt EXCEPT ![l] = [@ EXCEPT !.status = st, !.job = j]]
      BY <3>1, <3>2 DEF Finish, EndedAttemptStatus, AttemptRow, JobStatus
    <3>4. /\ attempt'[l] = [attempt[l] EXCEPT !.status = st, !.job = j]
          /\ \A m \in Attempt \ {l}: attempt'[m] = attempt[m]
      BY <1>2, <3>3 DEF TypeOK, AttemptTable
    <3>5. AttemptStep(attempt[l], attempt'[l]) /\ attempt'[l].status = st
      <4>1. AttemptStep(attempt[l], [attempt[l] EXCEPT !.status = st, !.job = j])
        BY <3>2, EndedAttempt
      <4>2. attempt'[l].status = st
        BY <3>2, <3>4 DEF AttemptRow
      <4> QED BY <3>4, <4>1, <4>2
    <3>6. \A m \in Attempt: AttemptStep(attempt[m], attempt'[m])
      BY <3>4, <3>5 DEF AttemptStep
    <3> QED BY <1>2, <3>1, <3>5, <3>6, FinishRuns DEF RunOf
  <2>2. CASE attempt[l].status \notin ActiveAttemptStatus
    <3>1. UNCHANGED <<attempt, run>>
      <4>1. UNCHANGED vars
        BY <2>2 DEF Report
      <4> QED BY <4>1 DEF vars
    <3>2. attempt[l].status # "none"
      BY <1>1, <2>2 DEF Reports, ProcessInv, Staged, StagedAttempt, Waiting, ActiveAttemptStatus
    <3>3. attempt[l].status \in EndedAttemptStatus
      BY <1>2, <2>2, <3>2, NotUsed DEF AttemptRow
    <3> QED BY <3>1, <3>3 DEF AttemptStep
  <2> QED BY <2>1, <2>2
<1>4. \A m \in Attempt:
        /\ attempt'[m].run = attempt[m].run /\ attempt'[m].kind = attempt[m].kind
        /\ attempt'[m].status \in Waiting => attempt[m].status \in Waiting
        /\ attempt'[m].status \in {"starting", "running"} =>
             attempt[m].status \in {"starting", "running"}
  BY <1>3 DEF AttemptStep, Waiting, ActiveAttemptStatus
<1>5. Staged'
  <2> SUFFICES ASSUME NEW m \in Attempt  PROVE StagedAttempt(m)'
    BY DEF Staged
  <2>1. StagedAttempt(m)
    BY DEF ProcessInv, Staged
  <2>2. CASE m = l
    BY <1>1, <1>3, <1>4, <2>1, <2>2 DEF StagedAttempt, Waiting, EndedAttemptStatus, RunOf
  <2>3. CASE m # l
    BY <1>1, <1>4, <2>1, <2>3 DEF StagedAttempt, RunOf
  <2> QED BY <2>2, <2>3
<1>6. SoleProcess'
  BY <1>1, <1>4 DEF ProcessInv, SoleProcess, RunOf
<1>7. QuietInterruption'
  <2> SUFFICES ASSUME NEW m \in Attempt, NEW x \in Run, run'[x].status = "interrupted",
                      attempt'[m].run = x, attempt'[m].kind # "external"
               PROVE  proc'[m] = "gone"
    BY DEF QuietInterruption, RunOf
  <2>1. RunOf(m) = x /\ attempt[m].kind # "external" /\ x # 0
    BY <1>4, ZeroIsNoRun DEF RunOf
  <2>2. CASE run[x].status = "interrupted"
    BY <1>1, <2>1, <2>2 DEF ProcessInv, QuietInterruption
  <2>3. CASE x = RunOf(l) /\ m # l
    <3>1. attempt[l].kind # "external"
      BY <2>1, <2>3 DEF ProcessInv, OneKind, For, RunOf
    <3>2. proc[l] # "gone"
      BY <1>1 DEF Reports
    <3> QED BY <1>1, <2>1, <2>3, <3>1, <3>2 DEF ProcessInv, SoleProcess
  <2> QED BY <1>1, <1>3, <2>2, <2>3
<1> QED BY <1>5, <1>6, <1>7

\* The daemon starts again: every task is over or has failed.
LEMMA TasksRestart ==
  ASSUME LowInv, ProcessInv, Restart
  PROVE  Staged' /\ SoleProcess' /\ QuietInterruption'
<1> DEFINE Cut(m) == /\ attempt[m].status \in {"starting", "running"}
                     /\ attempt[m].kind # "external"
<1>1. /\ alive' \subseteq alive /\ UNCHANGED run
      /\ \A m \in Attempt:
           proc'[m] = IF Cut(m) THEN "failed"
                      ELSE IF proc[m] = "none" /\ ~Launching(m) THEN "none" ELSE "gone"
  BY DEF Restart, DaemonRestart
<1>2. \A m \in Attempt: attempt[m] \in AttemptRow \cup {NullAttempt}
  BY DEF LowInv, ReferInv, PhaseInv, TypeOK, AttemptTable
<1>3. ASSUME NEW m \in Attempt
      PROVE  /\ attempt'[m].status = attempt[m].status
             /\ attempt'[m].run = attempt[m].run /\ attempt'[m].kind = attempt[m].kind
  <2>1. attempt'[m] = attempt[m] \/ attempt'[m] = [attempt[m] EXCEPT !.job = "pending"]
    BY DEF Restart, DaemonRestart
  <2> QED BY <1>2, <2>1 DEF AttemptRow, NullAttempt
<1>4. ASSUME NEW m \in Attempt
      PROVE  StagedAttempt(m) /\ (proc[m] = "gone" => proc'[m] = "gone")
  <2>1. StagedAttempt(m)
    BY DEF ProcessInv, Staged
  <2> QED BY <1>1, <2>1, BegunAttempt DEF StagedAttempt
<1>5. Staged'
  <2> SUFFICES ASSUME NEW m \in Attempt  PROVE StagedAttempt(m)'
    BY DEF Staged
  <2>1. attempt[m].status \in Waiting => proc'[m] = "none"
    BY <1>1, <1>4, BegunAttempt DEF StagedAttempt, Launching, Waiting
  <2>2. RunOf(m) = 0 => proc'[m] \in {"none", "gone"}
    BY <1>1, BegunAttempt
  <2>3. proc'[m] = "gone" /\ attempt[m].kind # "external" =>
          attempt[m].status \notin {"starting", "running"}
    BY <1>1
  <2>4. m \in alive' => /\ attempt[m].kind = "local" /\ RunOf(m) # 0
                         /\ proc'[m] \in {"failed", "gone"}
    BY <1>1, <1>4 DEF StagedAttempt, Attached
  <2> QED BY <1>1, <1>3, <2>1, <2>2, <2>3, <2>4 DEF StagedAttempt, RunOf
<1>6. SoleProcess'
  BY <1>3, <1>4 DEF ProcessInv, SoleProcess, RunOf
<1>7. QuietInterruption'
  BY <1>1, <1>3, <1>4 DEF ProcessInv, QuietInterruption, RunOf
<1> QED BY <1>5, <1>6, <1>7

\* Confirming a process leaves the runs as they are.
LEMMA ConfirmedAttempts ==
  ASSUME LowInv, NEW l \in Attempt, UNCHANGED vars \/ MarkRunning(l)
  PROVE  UNCHANGED run /\ \A m \in Attempt: AttemptStep(attempt[m], attempt'[m])
<1>1. CASE UNCHANGED vars
  BY <1>1 DEF vars, AttemptStep
<1>2. CASE MarkRunning(l)
  <2>1. TypeOK
    BY DEF LowInv, ReferInv, PhaseInv
  <2>2. attempt[l] \in AttemptRow
    BY <1>2, <2>1, UsedAttempt DEF MarkRunning
  <2>3. /\ attempt'[l] = [attempt[l] EXCEPT !.status = "running"]
        /\ \A m \in Attempt \ {l}: attempt'[m] = attempt[m]
    BY <1>2, <2>1 DEF MarkRunning, TypeOK, AttemptTable
  <2>4. AttemptStep(attempt[l], attempt'[l])
    BY <1>2, <2>2, <2>3 DEF MarkRunning, AttemptStep, AttemptRow, ActiveAttemptStatus
  <2> QED BY <1>2, <2>3, <2>4 DEF MarkRunning, lifeVars, AttemptStep
<1> QED BY <1>1, <1>2

LEMMA LauncherProcesses ==
  ASSUME LowInv, ProcessInv, LauncherNext
  PROVE  Staged' /\ SoleProcess' /\ QuietInterruption'
<1> DEFINE Goal == Staged' /\ SoleProcess' /\ QuietInterruption'
<1>1. ASSUME NEW l \in Attempt, NEW from \in Stage \ {"gone"},
             NEW to \in Stage \ {"none", "gone"}, Move(l, from, to),
             from = "none" => RunOf(l) # 0,
             UNCHANGED vars \/ MarkRunning(l),
             alive' \subseteq alive \cup {l},
             l \in alive' => attempt[l].kind = "local" /\ to \in Attached
      PROVE  Goal
  <2>1. StagedAttempt(l)
    BY DEF ProcessInv, Staged
  <2>2. RunOf(l) # 0
    BY <1>1, <2>1 DEF StagedAttempt, Move
  <2> QED BY <1>1, <2>2, ConfirmedAttempts, TaskGoesOn DEF Move
<1>2. ASSUME NEW l \in Attempt  PROVE StagedAttempt(l)
  BY DEF ProcessInv, Staged
<1>3. ASSUME NEW l \in Attempt, NEW success \in BOOLEAN, Report(l, success)  PROVE Goal
  BY <1>3, TaskEnds
<1> HIDE DEF Goal
<1>4. ASSUME NEW l \in Attempt, IssueCapability(l)  PROVE Goal
  BY <1>1, <1>2, <1>4 DEF IssueCapability, Launching, Move, Stage, StagedAttempt, Attached
<1>5. ASSUME NEW l \in Attempt, NeedsNoCapability(l)  PROVE Goal
  BY <1>1, <1>2, <1>5 DEF NeedsNoCapability, Launching, Move, Stage, StagedAttempt, Attached
<1>6. ASSUME NEW l \in Attempt, AdoptCapability(l)  PROVE Goal
  BY <1>1, <1>2, <1>6 DEF AdoptCapability, Move, Stage, StagedAttempt, Attached
<1>7. ASSUME NEW l \in Attempt, LaunchFails(l)  PROVE Goal
  BY <1>1, <1>2, <1>7 DEF LaunchFails, Launching, Move, Stage, StagedAttempt, Attached
<1>8. ASSUME NEW l \in Attempt, Spawn(l)  PROVE Goal
  BY <1>1, <1>2, <1>8 DEF Spawn, Move, Stage, StagedAttempt, Attached
<1>9. ASSUME NEW l \in Attempt, RefuseRemote(l)  PROVE Goal
  BY <1>1, <1>2, <1>9 DEF RefuseRemote, Move, Stage, StagedAttempt, Attached
<1>10. ASSUME NEW l \in Attempt, Confirm(l)  PROVE Goal
  BY <1>1, <1>2, <1>10 DEF Confirm, Kill, Move, Stage, StagedAttempt, Attached
<1>11. ASSUME NEW l \in Attempt, ClaimDeliveries(l)  PROVE Goal
  BY <1>1, <1>2, <1>11 DEF ClaimDeliveries, Kill, Move, Stage, StagedAttempt, Attached
<1>12. ASSUME NEW l \in Attempt, PromptFails(l) \/ WriteFails(l)  PROVE Goal
  BY <1>1, <1>2, <1>12 DEF PromptFails, WriteFails, Kill, Move, Stage, StagedAttempt, Attached
<1>13. ASSUME NEW l \in Attempt, WritePrompt(l) \/ CompleteClaimed(l)  PROVE Goal
  BY <1>1, <1>2, <1>13 DEF WritePrompt, CompleteClaimed, Move, Stage, StagedAttempt, Attached
<1>14. ASSUME NEW l \in Attempt, End(l)  PROVE Goal
  BY <1>1, <1>2, <1>14 DEF End, Kill, Move, Stage, StagedAttempt, Attached
<1>15. ASSUME NEW l \in Attempt, OrphanExits(l)  PROVE Goal
  <2>1. UNCHANGED <<attempt, run, proc>> /\ alive' \subseteq alive
    BY <1>15 DEF OrphanExits, vars, launchVars
  <2>2. \A m \in Attempt: StagedAttempt(m)'
    BY <1>2, <2>1 DEF StagedAttempt, RunOf
  <2> QED
    BY <2>1, <2>2 DEF Goal, ProcessInv, Staged, SoleProcess, QuietInterruption, RunOf
<1>16. Goal
  BY <1>3, <1>4, <1>5, <1>6, <1>7, <1>8, <1>9, <1>10, <1>11, <1>12, <1>13, <1>14, <1>15
     DEF LauncherNext
<1> QED BY <1>16 DEF Goal

LEMMA ProcessStep ==
  ASSUME LowInv, ProcessInv, [AgentNext]_allVars
  PROVE  ProcessInv'
<1>1. BaseInv /\ ReferInv /\ TypeOK /\ [SysNext]_vars
  BY AgentStep DEF LowInv, ReferInv, PhaseInv
<1>2. AgentTypeOK' /\ OneKind' /\ RetiringAreExternal'
  BY <1>1, AgentTypeStep, OneKindStep, RetiringStep DEF ProcessInv
<1>3. Staged' /\ SoleProcess' /\ QuietInterruption'
  <2>1. ASSUME AllCalm \/ UNCHANGED run, UNCHANGED <<proc, alive>>
        PROVE  Staged' /\ SoleProcess' /\ QuietInterruption'
    <3>1. OnlyOutside
      BY <2>1 DEF AllCalm, Calm, OnlyOutside
    <3> QED BY <1>1, <2>1, <3>1, TablesAlone
  <2>2. CASE UNCHANGED allVars
    BY <2>1, <2>2 DEF allVars, agentVars, vars
  <2>3. CASE (LifeNext \/ ControlNext) /\ UNCHANGED agentVars
    BY <1>1, <2>1, <2>3, LifeCalm, ControlCalm DEF ProcessInv, agentVars
  <2>4. CASE LauncherNext
    BY <2>4, LauncherProcesses
  <2>5. CASE MessageNext
    <3>1. UNCHANGED <<run, proc, alive>>
      BY <2>5 DEF MessageNext, SendMessage, SendInstruction, Recall, Acknowledge, Reply, vars
    <3> QED BY <2>1, <3>1
  <2>6. CASE SweepNext
    <3>1. ASSUME NEW x \in Run, EndCleanup(x)
          PROVE  Staged' /\ SoleProcess' /\ QuietInterruption'
      <4>1. run \in [Run -> RunRow \cup {NullRun}]
        BY <1>1 DEF TypeOK, RunTable
      <4>2. \A y \in Run: run'[y].status = "interrupted" => run[y].status = "interrupted"
        <5>1. CASE UNCHANGED vars
          BY <5>1 DEF vars
        <5>2. CASE CompleteCleanup(x)
          <6> DEFINE st == IF run[x].status = "cancelling" THEN "cancelled" ELSE "failed"
          <6>1. run' = [run EXCEPT ![x] = [@ EXCEPT !.status = st, !.scope = "terminal"]]
            BY <5>2 DEF CompleteCleanup
          <6>2. st # "interrupted"
            OBVIOUS
          <6> HIDE DEF st
          <6>3. run'[x] = [run[x] EXCEPT !.status = st, !.scope = "terminal"]
            BY <4>1, <6>1
          <6>4. run'[x].status # "interrupted"
            BY <4>1, <6>2, <6>3 DEF RunRow, NullRun
          <6>5. \A y \in Run \ {x}: run'[y] = run[y]
            BY <4>1, <6>1
          <6> QED BY <6>4, <6>5
        <5>3. CASE Terminalize(x)
          <6>1. run' = [run EXCEPT ![x] = [@ EXCEPT !.scope = "terminal"]]
            BY <5>3 DEF Terminalize
          <6>2. run'[x] = [run[x] EXCEPT !.scope = "terminal"]
            BY <4>1, <6>1
          <6>3. run'[x].status = run[x].status
            BY <4>1, <6>2 DEF RunRow, NullRun
          <6>4. \A y \in Run \ {x}: run'[y] = run[y]
            BY <4>1, <6>1
          <6> QED BY <6>3, <6>4
        <5> QED BY <3>1, <5>1, <5>2, <5>3 DEF EndCleanup
      <4>3. OnlyOutside
        BY <4>2 DEF OnlyOutside
      <4> QED BY <1>1, <3>1, <4>3, TablesAlone DEF EndCleanup
    <3>2. ASSUME ~\E x \in Run: EndCleanup(x)
          PROVE  UNCHANGED <<run, proc, alive>>
      BY <2>6, <3>2 DEF SweepNext, SweepLists, SweepRevokes, CancelRevokes,
                        BeginCleanup, vars
    <3> QED BY <2>1, <3>1, <3>2
  <2>7. CASE Restart
    BY <2>7, TasksRestart
  <2> QED BY <2>2, <2>3, <2>4, <2>5, <2>6, <2>7 DEF AgentNext
<1> QED BY <1>2, <1>3 DEF ProcessInv

LEMMA ProcessInvariant == AgentSpec => []ProcessInv
<1>1. AgentInit => ProcessInv
  <2> SUFFICES ASSUME AgentInit  PROVE ProcessInv
    OBVIOUS
  <2>1. AgentTypeOK
    BY RestartAssumption DEF AgentInit, AgentTypeOK, Stage
  <2>2. /\ \A l \in Attempt: attempt[l] = NullAttempt /\ proc[l] = "none"
        /\ \A x \in Run: run[x] = NullRun
        /\ alive = {} /\ retiring = {}
    BY DEF AgentInit, StoreInit
  <2>3. OneKind /\ RetiringAreExternal
    BY <2>2 DEF OneKind, RetiringAreExternal
  <2>4. Staged /\ SoleProcess /\ QuietInterruption
    BY <2>2 DEF Staged, StagedAttempt, SoleProcess, QuietInterruption, RunOf, NullAttempt, NullRun
  <2> QED BY <2>1, <2>3, <2>4 DEF ProcessInv
<1>2. LowInv /\ ProcessInv /\ [AgentNext]_allVars => ProcessInv'
  BY ProcessStep
<1> QED BY <1>1, <1>2, LowInvariant, PTL DEF AgentSpec

-----------------------------------------------------------------------------
(* The processes that nobody watches.                                         *)
\* What a daemon that is gone has left of a run: at most one process for each
\* time the daemon started again.
Orphans(x) == {l \in alive: RunOf(l) = x /\ proc[l] \notin Attached}
Watched(x) == {l \in alive: RunOf(l) = x /\ proc[l] \in Attached}
OrphansCounted == \A x \in Run: Cardinality(Orphans(x)) <= restarts

LEMMA AliveFinite ==
  ASSUME AgentTypeOK, NEW S \in SUBSET alive
  PROVE  IsFiniteSet(S) /\ Cardinality(S) \in Nat
<1>1. IsFiniteSet(Attempt)
  BY FS_Interval, BoundsAssumption DEF Attempt
<1> QED BY <1>1, FS_Subset, FS_CardinalityType DEF AgentTypeOK

\* The launcher holds at most one process of a run.
LEMMA OneWatched ==
  ASSUME ProcessInv, NEW x \in Run, NEW l \in Watched(x), NEW m \in Watched(x)
  PROVE  l = m
<1>1. l \in Attempt /\ m \in Attempt
  BY DEF ProcessInv, AgentTypeOK, Watched
<1>2. RunOf(l) = RunOf(m) /\ proc[l] # "gone" /\ proc[m] # "gone"
  BY DEF Watched, Attached
<1>3. attempt[l].kind = "local" /\ attempt[m].kind = "local" /\ RunOf(l) # 0
  BY <1>1 DEF ProcessInv, Staged, StagedAttempt, Watched
<1> QED BY <1>1, <1>2, <1>3 DEF ProcessInv, SoleProcess

\* A set and one element more.
LEMMA OneMore ==
  ASSUME AgentTypeOK, NEW S \in SUBSET alive, NEW T \in SUBSET alive, NEW U,
         U \subseteq S \cup T, \A l, m \in T: l = m
  PROVE  Cardinality(U) <= Cardinality(S) + 1 /\ Cardinality(U) \in Nat
<1>1. IsFiniteSet(S) /\ Cardinality(S) \in Nat /\ Cardinality(U) \in Nat
  <2>1. U \in SUBSET alive
    OBVIOUS
  <2> QED BY <2>1, AliveFinite
<1>2. CASE T = {}
  BY <1>1, <1>2, FS_Subset
<1>3. ASSUME NEW h \in T
      PROVE  Cardinality(U) <= Cardinality(S) + 1
  <2>1. U \subseteq S \cup {h}
    OBVIOUS
  <2>2. IsFiniteSet(S \cup {h}) /\ Cardinality(S \cup {h}) <= Cardinality(S) + 1
    BY <1>1, FS_AddElement
  <2>3. Cardinality(S \cup {h}) \in Nat
    BY <2>2, FS_CardinalityType
  <2>4. Cardinality(U) <= Cardinality(S \cup {h})
    BY <2>1, <2>2, FS_Subset
  <2> QED BY <1>1, <2>2, <2>3, <2>4
<1> QED BY <1>1, <1>2, <1>3

\* No process is left behind by a task of the launcher.
LEMMA LauncherKeepsOrphans ==
  ASSUME LauncherNext, NEW m \in alive', proc'[m] \notin Attached, AgentTypeOK
  PROVE  m \in alive /\ proc[m] \notin Attached
<1> PICK l \in Attempt:
         \/ IssueCapability(l) \/ NeedsNoCapability(l) \/ AdoptCapability(l)
         \/ LaunchFails(l) \/ Spawn(l) \/ RefuseRemote(l) \/ Confirm(l)
         \/ ClaimDeliveries(l) \/ PromptFails(l) \/ WritePrompt(l)
         \/ WriteFails(l) \/ CompleteClaimed(l) \/ End(l) \/ OrphanExits(l)
         \/ \E success \in BOOLEAN: Report(l, success)
  BY DEF LauncherNext
<1>1. proc \in [Attempt -> Stage] /\ m \in Attempt
  BY LauncherType DEF AgentTypeOK
<1>2. ASSUME NEW from, NEW to, Move(l, from, to),
             \/ alive' = alive /\ from \notin Attached
             \/ alive' \subseteq alive \cup {l} /\ to \in Attached
             \/ alive' = alive \ {l}
      PROVE  m \in alive /\ proc[m] \notin Attached
  <2>1. CASE m = l
    BY <1>1, <1>2, <2>1 DEF Move
  <2>2. CASE m # l
    BY <1>1, <1>2, <2>2 DEF Move
  <2> QED BY <2>1, <2>2
<1>3. CASE IssueCapability(l) \/ NeedsNoCapability(l)
  BY <1>2, <1>3 DEF IssueCapability, NeedsNoCapability, Attached
<1>4. CASE AdoptCapability(l) \/ LaunchFails(l) \/ RefuseRemote(l)
  BY <1>2, <1>4 DEF AdoptCapability, LaunchFails, RefuseRemote, Attached
<1>5. CASE Spawn(l) \/ Confirm(l)
  BY <1>2, <1>5 DEF Spawn, Confirm, Kill, Attached
<1>6. CASE ClaimDeliveries(l) \/ PromptFails(l)
  BY <1>2, <1>6 DEF ClaimDeliveries, PromptFails, Kill, Attached
<1>7. CASE WritePrompt(l) \/ WriteFails(l)
  BY <1>2, <1>7 DEF WritePrompt, WriteFails, Kill, Attached
<1>8. CASE CompleteClaimed(l) \/ End(l)
  BY <1>2, <1>8 DEF CompleteClaimed, End, Kill, Attached
<1>9. CASE OrphanExits(l)
  BY <1>9 DEF OrphanExits
<1>10. ASSUME NEW success \in BOOLEAN, Report(l, success)
       PROVE  m \in alive /\ proc[m] \notin Attached
  BY <1>1, <1>10 DEF Report, Reports, Attached
<1> QED BY <1>3, <1>4, <1>5, <1>6, <1>7, <1>8, <1>9, <1>10

LEMMA OrphanStep ==
  ASSUME LowInv, ProcessInv, OrphansCounted, [AgentNext]_allVars
  PROVE  OrphansCounted'
<1> SUFFICES ASSUME NEW x \in Run
             PROVE  Cardinality(Orphans(x)') <= restarts'
  BY DEF OrphansCounted
<1>1. AgentTypeOK /\ restarts \in Nat /\ [SysNext]_vars
  BY AgentStep, RestartAssumption DEF LowInv, ProcessInv, AgentTypeOK
<1>2. \A l \in alive: RunOf(l)' = RunOf(l)
  BY <1>1, AliveKeepsRun DEF RunOf
<1>3. /\ Cardinality(Orphans(x)) <= restarts /\ Cardinality(Orphans(x)) \in Nat
      /\ IsFiniteSet(Orphans(x)) /\ Orphans(x) \in SUBSET alive
  <2>1. Orphans(x) \in SUBSET alive
    BY DEF Orphans
  <2> QED BY <1>1, <2>1, AliveFinite DEF OrphansCounted
<1>4. CASE Restart
  <2>1. alive' \subseteq alive /\ restarts' = restarts + 1
    BY <1>4 DEF Restart
  <2>2. Orphans(x)' \subseteq Orphans(x) \cup Watched(x)
    BY <1>2, <2>1 DEF Orphans, Watched
  <2>3. Watched(x) \in SUBSET alive /\ \A l, m \in Watched(x): l = m
    BY OneWatched DEF Watched
  <2>4. /\ Cardinality(Orphans(x)') <= Cardinality(Orphans(x)) + 1
        /\ Cardinality(Orphans(x)') \in Nat
    BY <1>1, <1>3, <2>2, <2>3, OneMore
  <2> QED BY <1>1, <1>3, <2>1, <2>4
<1>5. CASE ~Restart
  <2>1. restarts' = restarts
    BY <1>5 DEF AgentNext, LauncherNext, MessageNext, SweepNext, IssueCapability,
       NeedsNoCapability, AdoptCapability, LaunchFails, Spawn, RefuseRemote, Confirm,
       ClaimDeliveries, PromptFails, WritePrompt, WriteFails, CompleteClaimed, End,
       OrphanExits, Report, SendMessage, SendInstruction, Recall, Acknowledge, Reply,
       SweepLists, SweepRevokes, CancelRevokes, BeginCleanup, EndCleanup, agentVars,
       allVars
  <2>2. ASSUME NEW m \in alive', proc'[m] \notin Attached
        PROVE  m \in alive /\ proc[m] \notin Attached
    <3>1. CASE LauncherNext
      BY <1>1, <2>2, <3>1, LauncherKeepsOrphans
    <3>2. CASE UNCHANGED <<proc, alive>>
      BY <2>2, <3>2
    <3>3. CASE MessageNext \/ SweepNext
      <4>1. UNCHANGED <<proc, alive>>
        BY <3>3 DEF MessageNext, SweepNext, SendMessage, SendInstruction, Recall,
           Acknowledge, Reply, SweepLists, SweepRevokes, CancelRevokes, BeginCleanup,
           EndCleanup
      <4> QED BY <3>2, <4>1
    <3> QED BY <1>5, <3>1, <3>2, <3>3 DEF AgentNext, allVars, agentVars
  <2>3. Orphans(x)' \subseteq Orphans(x)
    BY <1>2, <2>2 DEF Orphans
  <2>4. /\ Cardinality(Orphans(x)') <= Cardinality(Orphans(x))
        /\ Cardinality(Orphans(x)') \in Nat
    BY <1>3, <2>3, FS_Subset, FS_CardinalityType
  <2> QED BY <1>1, <1>3, <2>1, <2>4
<1> QED BY <1>4, <1>5

LEMMA AloneInv ==
  ASSUME ProcessInv, OrphansCounted
  PROVE  OneLocalProcessPerRun
<1> SUFFICES ASSUME NEW x \in Run
             PROVE  LET here == {l \in alive: RunOf(l) = x} IN
                    /\ Cardinality(here) <= 1 + restarts
                    /\ \A l, m \in here: proc[l] \in Attached /\ proc[m] \in Attached => l = m
  BY DEF OneLocalProcessPerRun
<1> DEFINE here == {l \in alive: RunOf(l) = x}
<1>1. AgentTypeOK /\ restarts \in Nat
  BY RestartAssumption DEF ProcessInv, AgentTypeOK
<1>2. Orphans(x) \in SUBSET alive /\ Watched(x) \in SUBSET alive
  BY DEF Orphans, Watched
<1>3. here \subseteq Orphans(x) \cup Watched(x) /\ \A l, m \in Watched(x): l = m
  BY OneWatched DEF Orphans, Watched
<1>4. Cardinality(Orphans(x)) <= restarts /\ Cardinality(Orphans(x)) \in Nat
  BY <1>1, <1>2, AliveFinite DEF OrphansCounted
<1>5. Cardinality(here) <= 1 + restarts
  <2> HIDE DEF here
  <2>1. Cardinality(here) <= Cardinality(Orphans(x)) + 1 /\ Cardinality(here) \in Nat
    BY <1>1, <1>2, <1>3, OneMore
  <2> QED BY <1>1, <1>4, <2>1
<1>6. \A l, m \in here: proc[l] \in Attached /\ proc[m] \in Attached => l = m
  BY OneWatched DEF Watched
<1> QED BY <1>5, <1>6

\* The launcher never holds two processes of a run, whatever the order of its
\* restart, of a cancel, of a stop and of the report of its last process; a daemon
\* that goes down without unwinding leaves at most one more each time, until that
\* process ends by itself.
THEOREM OneProcess == AgentSpec => []OneLocalProcessPerRun
<1>1. AgentInit => OrphansCounted
  <2> SUFFICES ASSUME AgentInit, NEW x \in Run
               PROVE  Cardinality(Orphans(x)) <= restarts
    BY DEF OrphansCounted
  <2>1. Orphans(x) = {} /\ restarts = 0
    BY DEF AgentInit, Orphans
  <2> QED BY <2>1, FS_EmptySet
<1>2. LowInv /\ ProcessInv /\ OrphansCounted /\ [AgentNext]_allVars => OrphansCounted'
  BY OrphanStep
<1>3. AgentSpec => []OrphansCounted
  BY <1>1, <1>2, LowInvariant, ProcessInvariant, PTL DEF AgentSpec
<1> QED BY <1>3, AloneInv, ProcessInvariant, PTL

-----------------------------------------------------------------------------
(* No capability for a scope that is finished.                                *)
\* A run that is being cleaned up has lost its capability and gets no other: the
\* fence of the adoption asks for a run that runs.
CleaningIsFenced ==
  \A x \in cleaning: adopted[x] = 0 /\ run[x].status \in PastStatus
FinishedIsRevoked == \A x \in Run: run[x].scope = "terminal" => adopted[x] = 0
CapabilityInv == CleaningIsFenced /\ FinishedIsRevoked

\* No scope is finished by the step.
NoneFinishes == \A x \in Run: run'[x].scope = "terminal" => run[x].scope = "terminal"

LEMMA PastStays ==
  ASSUME LowInv, [SysNext]_vars, NEW x \in Run, run[x].status \in PastStatus
  PROVE  run'[x].status \in PastStatus
<1>1. run[x].status # "none"
  BY DEF PastStatus, EndedRunStatus
<1> QED BY <1>1, RunMoves DEF LowInv, ReferInv, Moves, RunStep

LEMMA CapabilityKept ==
  ASSUME LowInv, AgentTypeOK, CapabilityInv, [SysNext]_vars, NoneFinishes,
         cleaning' \subseteq cleaning,
         \A x \in Run: adopted'[x] = adopted[x] \/ adopted'[x] = 0
  PROVE  CapabilityInv'
<1>1. CleaningIsFenced'
  BY PastStays DEF CapabilityInv, CleaningIsFenced, AgentTypeOK
<1>2. FinishedIsRevoked'
  BY DEF CapabilityInv, FinishedIsRevoked, NoneFinishes
<1> QED BY <1>1, <1>2 DEF CapabilityInv

LEMMA ClearKeeps ==
  ASSUME AgentTypeOK, NEW y, Clear(y) \/ UNCHANGED adopted, NEW x \in Run
  PROVE  adopted'[x] = adopted[x] \/ adopted'[x] = 0
BY DEF Clear, AgentTypeOK

\* What is adopted is for a run that runs, so nothing has asked for its cleanup.
LEMMA AdoptionFenced ==
  ASSUME LowInv, AgentTypeOK, CapabilityInv, NEW l \in Attempt, AdoptCapability(l)
  PROVE  CapabilityInv'
<1>1. UNCHANGED <<run, cleaning>>
  BY DEF AdoptCapability, vars
<1>2. CASE MayAdopt(RunOf(l))
  <2> DEFINE x == RunOf(l)
  <2>1. adopted' = [adopted EXCEPT ![x] = l] /\ run[x].status = "running"
    BY <1>2 DEF AdoptCapability, MayAdopt
  <2>2. run[x].status \notin PastStatus /\ run[x].status \notin EndedRunStatus
    BY <2>1 DEF PastStatus, EndedRunStatus
  <2>3. x \notin cleaning
    BY <2>2 DEF CapabilityInv, CleaningIsFenced
  <2>4. x \in Run => run[x].scope # "terminal"
    BY <2>2 DEF LowInv, ScopeInv, TerminalHasEnded
  <2>5. \A y \in Run \ {x}: adopted'[y] = adopted[y]
    BY <2>1 DEF AgentTypeOK
  <2>6. CleaningIsFenced'
    BY <1>1, <2>3, <2>5 DEF CapabilityInv, CleaningIsFenced, AgentTypeOK
  <2>7. FinishedIsRevoked'
    BY <1>1, <2>4, <2>5 DEF CapabilityInv, FinishedIsRevoked
  <2> QED BY <2>6, <2>7 DEF CapabilityInv
<1>3. CASE ~MayAdopt(RunOf(l))
  BY <1>1, <1>3 DEF AdoptCapability, CapabilityInv, CleaningIsFenced, FinishedIsRevoked
<1> QED BY <1>2, <1>3

LEMMA LauncherCapability ==
  ASSUME LowInv, AgentTypeOK, CapabilityInv, [SysNext]_vars, NEW l \in Attempt,
         \/ IssueCapability(l) \/ NeedsNoCapability(l)
         \/ LaunchFails(l) \/ Spawn(l) \/ RefuseRemote(l) \/ Confirm(l)
         \/ ClaimDeliveries(l) \/ PromptFails(l) \/ WritePrompt(l)
         \/ WriteFails(l) \/ CompleteClaimed(l) \/ End(l) \/ OrphanExits(l)
         \/ \E success \in BOOLEAN: Report(l, success)
  PROVE  CapabilityInv'
<1>1. UNCHANGED cleaning /\ (Clear(RunOf(l)) \/ UNCHANGED adopted)
  BY DEF IssueCapability, NeedsNoCapability, LaunchFails, Spawn,
     RefuseRemote, Confirm, ClaimDeliveries, PromptFails, WritePrompt, WriteFails,
     CompleteClaimed, End, OrphanExits, Report, capabilityVars, MaybeRevoked, Revoked
<1>2. NoneFinishes
  <2>1. ASSUME NEW success \in BOOLEAN, Report(l, success)  PROVE NoneFinishes
    <3>1. CASE Finish(l, success)
      BY <3>1, FinishRuns DEF NoneFinishes, LowInv, ReferInv, PhaseInv
    <3>2. CASE UNCHANGED vars
      BY <3>2 DEF vars, NoneFinishes
    <3> QED BY <2>1, <3>1, <3>2 DEF Report, FinishLaunch
  <2>2. ASSUME ~\E success \in BOOLEAN: Report(l, success)
        PROVE  UNCHANGED run
    BY <2>2 DEF IssueCapability, NeedsNoCapability, LaunchFails, Spawn,
       RefuseRemote, Confirm, ClaimDeliveries, PromptFails, WritePrompt, WriteFails,
       CompleteClaimed, End, OrphanExits, MarkRunning, vars, lifeVars
  <2> QED BY <2>1, <2>2 DEF NoneFinishes
<1> QED BY <1>1, <1>2, ClearKeeps, CapabilityKept

LEMMA SweepCapability ==
  ASSUME LowInv, AgentTypeOK, CapabilityInv, [SysNext]_vars, SweepNext
  PROVE  CapabilityInv'
<1>1. ASSUME UNCHANGED <<run, cleaning>>,
             UNCHANGED adopted \/ \E x \in Run: Clear(x)
      PROVE  CapabilityInv'
  <2>1. NoneFinishes
    BY <1>1 DEF NoneFinishes
  <2> QED BY <1>1, <2>1, ClearKeeps, CapabilityKept
<1>2. CASE SweepLists
  BY <1>1, <1>2 DEF SweepLists, vars
<1>3. ASSUME NEW x \in Run, SweepRevokes(x) \/ CancelRevokes(x)  PROVE CapabilityInv'
  BY <1>1, <1>3 DEF SweepRevokes, CancelRevokes, MaybeRevoked, Revoked, vars
<1>4. ASSUME NEW x \in Run, BeginCleanup(x)  PROVE CapabilityInv'
  <2>1. /\ adopted' = [adopted EXCEPT ![x] = 0] /\ cleaning' = cleaning \cup {x}
        /\ run[x].status \in PastStatus /\ UNCHANGED run
    BY <1>4 DEF BeginCleanup, Revoked, Clear, vars, PastStatus, EndedRunStatus, CleaningStatus
  <2>2. adopted'[x] = 0 /\ \A y \in Run \ {x}: adopted'[y] = adopted[y]
    BY <2>1 DEF AgentTypeOK
  <2>3. CleaningIsFenced'
    BY <2>1, <2>2 DEF CapabilityInv, CleaningIsFenced, AgentTypeOK
  <2>4. FinishedIsRevoked'
    BY <2>1, <2>2 DEF CapabilityInv, FinishedIsRevoked
  <2> QED BY <2>3, <2>4 DEF CapabilityInv
<1>5. ASSUME NEW x \in Run, EndCleanup(x)  PROVE CapabilityInv'
  <2>1. x \in cleaning /\ cleaning' \subseteq cleaning /\ UNCHANGED adopted
    BY <1>5 DEF EndCleanup
  <2>2. adopted[x] = 0
    BY <2>1 DEF CapabilityInv, CleaningIsFenced
  <2>3. \A y \in Run \ {x}: run'[y] = run[y]
    BY <1>5 DEF EndCleanup, CompleteCleanup, Terminalize, vars, LowInv, ReferInv, PhaseInv,
                TypeOK, RunTable
  <2>4. CleaningIsFenced'
    BY <2>1, PastStays DEF CapabilityInv, CleaningIsFenced, AgentTypeOK
  <2>5. FinishedIsRevoked'
    BY <2>1, <2>2, <2>3 DEF CapabilityInv, FinishedIsRevoked
  <2> QED BY <2>4, <2>5 DEF CapabilityInv
<1> QED BY <1>2, <1>3, <1>4, <1>5 DEF SweepNext

LEMMA CapabilityStep ==
  ASSUME LowInv, ProcessInv, CapabilityInv, [AgentNext]_allVars
  PROVE  CapabilityInv'
<1>1. TypeOK /\ AgentTypeOK /\ RetiringAreExternal /\ [SysNext]_vars
  BY AgentStep DEF LowInv, ReferInv, PhaseInv, ProcessInv
<1>2. ASSUME AllCalm \/ UNCHANGED run, UNCHANGED adopted, cleaning' \subseteq cleaning
      PROVE  CapabilityInv'
  <2>1. NoneFinishes
    BY <1>2 DEF NoneFinishes, AllCalm, Calm
  <2> QED BY <1>1, <1>2, <2>1, CapabilityKept
<1>3. CASE UNCHANGED allVars
  BY <1>2, <1>3 DEF allVars, agentVars, capabilityVars, vars
<1>4. CASE (LifeNext \/ ControlNext) /\ UNCHANGED agentVars
  BY <1>1, <1>2, <1>4, LifeCalm, ControlCalm DEF agentVars, capabilityVars
<1>5. CASE LauncherNext
  BY <1>1, <1>5, AdoptionFenced, LauncherCapability DEF LauncherNext
<1>6. CASE MessageNext
  <2>1. UNCHANGED <<run, adopted, cleaning>>
    BY <1>6 DEF MessageNext, SendMessage, SendInstruction, Recall, Acknowledge, Reply,
                vars, capabilityVars
  <2> QED BY <1>2, <2>1
<1>7. CASE SweepNext
  BY <1>1, <1>7, SweepCapability
<1>8. CASE Restart
  BY <1>2, <1>8 DEF Restart, DaemonRestart
<1> QED BY <1>3, <1>4, <1>5, <1>6, <1>7, <1>8 DEF AgentNext

\* The scope of a run that has ended has no capability once it is recorded as
\* finished, and none of the answers that are still on their way is adopted.
THEOREM NoLateCapability == AgentSpec => []FinishedScopeHasNoCapability
<1>1. AgentInit => CapabilityInv
  BY DEF AgentInit, StoreInit, CapabilityInv, CleaningIsFenced, FinishedIsRevoked
<1>2. LowInv /\ ProcessInv /\ CapabilityInv /\ [AgentNext]_allVars => CapabilityInv'
  BY CapabilityStep
<1>3. CapabilityInv => FinishedScopeHasNoCapability
  BY DEF CapabilityInv, FinishedIsRevoked, FinishedScopeHasNoCapability
<1> QED BY <1>1, <1>2, <1>3, LowInvariant, ProcessInvariant, PTL DEF AgentSpec

-----------------------------------------------------------------------------
(* A message is given once.                                                   *)
Late == {"holding", "prompted", "watched", "exited", "failed", "gone"}
Few(d, n) == IsFiniteSet(given[d]) /\ Cardinality(given[d]) <= n

\* A message that can still be claimed was given only before a restart; one that
\* is claimed belongs to a task that holds it, or has given it once more.
HandedOver(d) ==
  /\ Few(d, restarts + 1)
  /\ delivery[d].status \in {"none", "queued", "recalled"} => Few(d, restarts)
  /\ delivery[d].status = "claimed" =>
       /\ delivery[d].by \in Attempt /\ proc[delivery[d].by] \in Late
       /\ proc[delivery[d].by] = "holding" => Few(d, restarts)
Handed == \A d \in Message: HandedOver(d)

\* What may happen to a delivery while nobody claims it or writes a prompt ...
Settles(d) ==
  \/ delivery'[d].status = delivery[d].status /\ delivery'[d].by = delivery[d].by
  \/ /\ delivery[d].status \in {"none", "queued"}
     /\ delivery'[d].status \in {"queued", "recalled", "delivered"}
  \/ delivery'[d].status = "delivered"
  \/ /\ delivery[d].status = "claimed" /\ proc[delivery[d].by] = "holding"
     /\ delivery'[d].status = "queued"
\* ... and to a task
GoesOn(l) ==
  proc[l] \in Late => proc'[l] \in Late /\ (proc'[l] = "holding" => proc[l] = "holding")

LEMMA HandedOn ==
  ASSUME AgentTypeOK, Handed, UNCHANGED <<given, restarts>>,
         \A d \in Message: Settles(d), \A l \in Attempt: GoesOn(l)
  PROVE  Handed'
<1> SUFFICES ASSUME NEW d \in Message
             PROVE  HandedOver(d)'
  BY DEF Handed
<1>1. HandedOver(d) /\ Settles(d) /\ \A n: Few(d, n)' <=> Few(d, n)
  BY DEF Handed, Few
<1>2. CASE delivery'[d].status = delivery[d].status /\ delivery'[d].by = delivery[d].by
  BY <1>1, <1>2 DEF HandedOver, GoesOn
<1>3. CASE /\ delivery[d].status \in {"none", "queued"}
           /\ delivery'[d].status \in {"queued", "recalled", "delivered"}
  BY <1>1, <1>3 DEF HandedOver
<1>4. CASE delivery'[d].status = "delivered"
  BY <1>1, <1>4 DEF HandedOver
<1>5. CASE /\ delivery[d].status = "claimed" /\ proc[delivery[d].by] = "holding"
           /\ delivery'[d].status = "queued"
  BY <1>1, <1>5 DEF HandedOver
<1> QED BY <1>1, <1>2, <1>3, <1>4, <1>5 DEF Settles

LEMMA SetDeliveryRow ==
  ASSUME AgentTypeOK, NEW S, NEW st, NEW l, delivery' = SetDelivery(S, st, l),
         NEW d \in Message
  PROVE  /\ d \in S => delivery'[d].status = st /\ delivery'[d].by = l
         /\ d \notin S => delivery'[d] = delivery[d]
<1>1. delivery[d] \in DeliveryRow \cup {NullDelivery}
  BY DEF AgentTypeOK
<1>2. d \in S => delivery'[d] = [delivery[d] EXCEPT !.status = st, !.by = l]
  BY DEF SetDelivery
<1>3. d \notin S => delivery'[d] = delivery[d]
  BY DEF SetDelivery
<1> QED BY <1>1, <1>2, <1>3 DEF DeliveryRow, NullDelivery

LEMMA MoveGoesOn ==
  ASSUME AgentTypeOK, NEW l \in Attempt, NEW from, NEW to, Move(l, from, to),
         from \in Late => to \in Late, to # "holding"
  PROVE  \A m \in Attempt: GoesOn(m)
BY DEF Move, GoesOn, AgentTypeOK

\* The claim hands every message that waits to the task.
LEMMA ClaimHands ==
  ASSUME AgentTypeOK, Handed, NEW l \in Attempt, ClaimDeliveries(l)
  PROVE  Handed'
<1> DEFINE a == asg[attempt[l].asg]
           S == QueuedFor(a.agent, a.task)
<1>1. UNCHANGED <<given, restarts>>
  BY DEF ClaimDeliveries
<1>2. CASE /\ Move(l, "marked", "holding")
           /\ delivery' = SetDelivery(S, "claimed", l)
  <2>1. /\ proc[l] = "marked" /\ proc'[l] = "holding"
        /\ \A m \in Attempt \ {l}: proc'[m] = proc[m]
    BY <1>2 DEF Move, AgentTypeOK
  <2> SUFFICES ASSUME NEW d \in Message
               PROVE  HandedOver(d)'
    BY DEF Handed
  <2>2. HandedOver(d) /\ \A n: Few(d, n)' <=> Few(d, n)
    BY <1>1 DEF Handed, Few
  <2>3. CASE d \in S
    <3>1. delivery'[d].status = "claimed" /\ delivery'[d].by = l
      BY <1>2, <2>3, SetDeliveryRow
    <3>2. delivery[d].status = "queued"
      BY <2>3 DEF QueuedFor
    <3> QED BY <1>1, <2>1, <2>2, <3>1, <3>2 DEF HandedOver, Late
  <2>4. CASE d \notin S
    <3>1. delivery'[d] = delivery[d]
      <4> HIDE DEF S
      <4> QED BY <1>2, <2>4, SetDeliveryRow
    <3>2. delivery[d].status = "claimed" => delivery[d].by # l
      BY <2>1, <2>2 DEF HandedOver, Late
    <3> QED BY <1>1, <2>1, <2>2, <3>1, <3>2 DEF HandedOver
  <2> QED BY <2>3, <2>4
<1>3. CASE Move(l, "marked", "failed") /\ UNCHANGED delivery
  <2>1. \A m \in Attempt: GoesOn(m)
    BY <1>3, MoveGoesOn DEF Late
  <2>2. \A d \in Message: Settles(d)
    BY <1>3 DEF Settles
  <2> QED BY <1>1, <2>1, <2>2, HandedOn
<1> QED BY <1>2, <1>3 DEF ClaimDeliveries

\* The prompt gives it what it holds, and it holds it no longer.
LEMMA PromptGives ==
  ASSUME AgentTypeOK, Handed, NEW l \in Attempt, WritePrompt(l)
  PROVE  Handed'
<1>1. /\ proc[l] = "holding" /\ proc'[l] = "prompted"
      /\ \A m \in Attempt \ {l}: proc'[m] = proc[m]
      /\ UNCHANGED <<delivery, restarts>> /\ restarts \in Nat
  BY RestartAssumption DEF WritePrompt, Move, AgentTypeOK
<1> SUFFICES ASSUME NEW d \in Message
             PROVE  HandedOver(d)'
  BY DEF Handed
<1>2. HandedOver(d)
  BY DEF Handed
<1>3. CASE d \in ClaimedBy(l)
  <2>1. /\ delivery[d].status = "claimed" /\ delivery[d].by = l
        /\ given'[d] = given[d] \cup {l}
    BY <1>3 DEF ClaimedBy, WritePrompt
  <2>2. IsFiniteSet(given[d]) /\ Cardinality(given[d]) <= restarts
    BY <1>1, <1>2, <2>1 DEF HandedOver, Few
  <2>3. Cardinality(given[d]) \in Nat
    BY <2>2, FS_CardinalityType
  <2>4. IsFiniteSet(given'[d]) /\ Cardinality(given'[d]) <= restarts + 1
    <3>1. /\ IsFiniteSet(given[d] \cup {l})
          /\ Cardinality(given[d] \cup {l})
               = IF l \in given[d] THEN Cardinality(given[d]) ELSE Cardinality(given[d]) + 1
      BY <2>2, FS_AddElement
    <3> QED BY <1>1, <2>1, <2>2, <2>3, <3>1
  <2> QED BY <1>1, <2>1, <2>4 DEF HandedOver, Few, Late
<1>4. CASE d \notin ClaimedBy(l)
  <2>1. given'[d] = given[d] /\ (delivery[d].status = "claimed" => delivery[d].by # l)
    BY <1>4 DEF ClaimedBy, WritePrompt
  <2>2. \A n: Few(d, n)' <=> Few(d, n)
    BY <2>1 DEF Few
  <2> QED BY <1>1, <1>2, <2>1, <2>2 DEF HandedOver
<1> QED BY <1>3, <1>4

LEMMA LauncherHands ==
  ASSUME AgentTypeOK, Handed, LauncherNext
  PROVE  Handed'
<1> SUFFICES ASSUME NEW l \in Attempt,
                    \/ IssueCapability(l) \/ NeedsNoCapability(l) \/ AdoptCapability(l)
                    \/ LaunchFails(l) \/ Spawn(l) \/ RefuseRemote(l) \/ Confirm(l)
                    \/ PromptFails(l)
                    \/ WriteFails(l) \/ CompleteClaimed(l) \/ End(l) \/ OrphanExits(l)
                    \/ \E success \in BOOLEAN: Report(l, success)
             PROVE  Handed'
  BY ClaimHands, PromptGives DEF LauncherNext
<1>1. UNCHANGED <<given, restarts>>
  BY DEF IssueCapability, NeedsNoCapability, AdoptCapability, LaunchFails, Spawn,
     RefuseRemote, Confirm, PromptFails, WriteFails, CompleteClaimed, End, OrphanExits, Report,
     messageVars
<1>2. \A m \in Attempt: GoesOn(m)
  <2>1. ASSUME NEW success, Report(l, success)
        PROVE  \A m \in Attempt: GoesOn(m)
    BY <2>1 DEF Report, GoesOn, Late, AgentTypeOK
  <2>2. ASSUME NEW from, NEW to, Move(l, from, to), from \in Late => to \in Late,
               to # "holding"
        PROVE  \A m \in Attempt: GoesOn(m)
    BY <2>2, MoveGoesOn
  <2>3. CASE IssueCapability(l) \/ NeedsNoCapability(l)
    BY <2>2, <2>3 DEF IssueCapability, NeedsNoCapability, Late
  <2>4. CASE AdoptCapability(l) \/ LaunchFails(l)
    BY <2>2, <2>4 DEF AdoptCapability, LaunchFails, Late
  <2>5. CASE Spawn(l) \/ RefuseRemote(l) \/ Confirm(l)
    BY <2>2, <2>5 DEF Spawn, RefuseRemote, Confirm, Late
  <2>6. CASE PromptFails(l) \/ WriteFails(l)
    BY <2>2, <2>6 DEF PromptFails, WriteFails, Late
  <2>7. CASE CompleteClaimed(l) \/ End(l)
    BY <2>2, <2>7 DEF CompleteClaimed, End, Late
  <2>8. CASE OrphanExits(l)
    BY <2>8 DEF OrphanExits, GoesOn
  <2> QED BY <2>1, <2>3, <2>4, <2>5, <2>6, <2>7, <2>8
<1>3. \A d \in Message: Settles(d)
  <2> SUFFICES ASSUME NEW d \in Message  PROVE Settles(d)
    OBVIOUS
  <2>1. CASE WriteFails(l)
    <3>1. proc[l] = "holding" /\ delivery' = SetDelivery(ClaimedBy(l), "queued", 0)
      BY <2>1 DEF WriteFails, Move
    <3>2. CASE d \in ClaimedBy(l)
      <4>1. delivery'[d].status = "queued"
        BY <3>1, <3>2, SetDeliveryRow
      <4> QED BY <3>1, <3>2, <4>1 DEF Settles, ClaimedBy
    <3>3. CASE d \notin ClaimedBy(l)
      <4>1. delivery'[d] = delivery[d]
        BY <3>1, <3>3, SetDeliveryRow
      <4> QED BY <4>1 DEF Settles
    <3> QED BY <3>2, <3>3
  <2>2. CASE CompleteClaimed(l)
    <3>1. CASE delivery' = SetDelivery(ClaimedBy(l), "delivered", l)
      <4>1. delivery'[d].status = "delivered" \/ delivery'[d] = delivery[d]
        BY <3>1, SetDeliveryRow
      <4> QED BY <4>1 DEF Settles
    <3>2. CASE delivery' = delivery
      BY <3>2 DEF Settles
    <3> QED BY <2>2, <3>1, <3>2 DEF CompleteClaimed, Kept
  <2>3. CASE ~WriteFails(l) /\ ~CompleteClaimed(l)
    <3>1. delivery' = delivery
      BY <2>3 DEF IssueCapability, NeedsNoCapability, AdoptCapability, LaunchFails, Spawn,
         RefuseRemote, Confirm, PromptFails, End, OrphanExits, Report, messageVars
    <3> QED BY <3>1 DEF Settles
  <2> QED BY <2>1, <2>2, <2>3
<1> QED BY <1>1, <1>2, <1>3, HandedOn

LEMMA MessageHands ==
  ASSUME AgentTypeOK, Handed, MessageNext
  PROVE  Handed'
<1>1. UNCHANGED <<proc, given, restarts>>
  BY DEF MessageNext, SendMessage, SendInstruction, Recall, Acknowledge, Reply
<1>2. \A m \in Attempt: GoesOn(m)
  BY <1>1 DEF GoesOn
<1>3. ASSUME NEW d \in Message, delivery[d].status = "none", NEW q, q.status = "queued",
             delivery' = [delivery EXCEPT ![d] = q], NEW e \in Message
      PROVE  Settles(e)
  <2>1. IF e = d THEN delivery'[e] = q ELSE delivery'[e] = delivery[e]
    BY <1>3 DEF AgentTypeOK
  <2> QED BY <1>3, <2>1 DEF Settles
<1>4. ASSUME NEW S, NEW st \in {"recalled", "delivered"}, delivery' = SetDelivery(S, st, 0),
             \A d \in S: delivery[d].status = "queued", NEW e \in Message
      PROVE  Settles(e)
  <2>1. /\ e \in S => delivery'[e].status = st
        /\ e \notin S => delivery'[e] = delivery[e]
    BY <1>4, SetDeliveryRow
  <2> QED BY <1>4, <2>1 DEF Settles
<1>5. ASSUME NEW e \in Message  PROVE Settles(e)
  <2>1. ASSUME NEW d \in Message, NEW t, NEW g, SendMessage(d, t, g)  PROVE Settles(e)
    <3>1. /\ delivery[d].status = "none"
          /\ delivery' = [delivery EXCEPT ![d] = Queued("task_message", g, t)]
      BY <2>1 DEF SendMessage
    <3>2. Queued("task_message", g, t).status = "queued"
      BY DEF Queued
    <3> QED BY <1>3, <1>5, <3>1, <3>2
  <2>2. ASSUME NEW d \in Message, NEW l, SendInstruction(d, l)  PROVE Settles(e)
    <3>1. PICK g, t: /\ delivery[d].status = "none"
                     /\ delivery' = [delivery EXCEPT ![d] = Queued("launch_instruction", g, t)]
      BY <2>2 DEF SendInstruction
    <3>2. Queued("launch_instruction", g, t).status = "queued"
      BY DEF Queued
    <3> QED BY <1>3, <1>5, <3>1, <3>2
  <2>3. ASSUME NEW d \in Message, Recall(d)  PROVE Settles(e)
    BY <1>4, <1>5, <2>3 DEF Recall, Recallable
  <2>4. ASSUME NEW d \in Message, Acknowledge(d)  PROVE Settles(e)
    BY <1>4, <1>5, <2>4 DEF Acknowledge
  <2>5. ASSUME NEW t, NEW g, Reply(t, g)  PROVE Settles(e)
    <3> DEFINE S == {d \in QueuedFor(g, t): delivery[d].kind = "task_message"}
    <3>1. delivery' = SetDelivery(S, "delivered", 0) /\ \A d \in S: delivery[d].status = "queued"
      BY <2>5 DEF Reply, QueuedFor
    <3> HIDE DEF S
    <3> QED BY <1>4, <1>5, <3>1
  <2> QED BY <2>1, <2>2, <2>3, <2>4, <2>5 DEF MessageNext
<1> QED BY <1>1, <1>2, <1>5, HandedOn

\* A restart takes back what was claimed, and it alone may have been given.
LEMMA RestartHands ==
  ASSUME AgentTypeOK, Handed, Restart
  PROVE  Handed'
<1> DEFINE S == {d \in Message: delivery[d].status = "claimed"}
<1> SUFFICES ASSUME NEW d \in Message
             PROVE  HandedOver(d)'
  BY DEF Handed
<1>1. /\ UNCHANGED given /\ restarts' = restarts + 1 /\ restarts \in Nat
      /\ delivery' = SetDelivery(S, "queued", 0)
  BY RestartAssumption DEF Restart, AgentTypeOK
<1>2. Few(d, restarts + 1)
  BY DEF Handed, HandedOver
<1>3. delivery'[d].status # "claimed"
  <2>1. d \in S => delivery'[d].status = "queued"
    <3> HIDE DEF S
    <3> QED BY <1>1, SetDeliveryRow
  <2>2. d \notin S => delivery'[d] = delivery[d]
    <3> HIDE DEF S
    <3> QED BY <1>1, SetDeliveryRow
  <2> QED BY <2>1, <2>2
<1>4. Few(d, restarts + 1)' /\ Few(d, restarts)'
  <2>1. IsFiniteSet(given[d]) /\ Cardinality(given[d]) <= restarts + 1
    BY <1>2 DEF Few
  <2>2. Cardinality(given[d]) \in Nat
    BY <2>1, FS_CardinalityType
  <2> QED BY <1>1, <2>1, <2>2 DEF Few
<1> QED BY <1>3, <1>4 DEF HandedOver

LEMMA HandedStep ==
  ASSUME AgentTypeOK, Handed, [AgentNext]_allVars
  PROVE  Handed'
<1>1. ASSUME UNCHANGED <<proc, delivery, given, restarts>>  PROVE Handed'
  BY <1>1, HandedOn DEF Settles, GoesOn
<1>2. CASE UNCHANGED agentVars
  BY <1>1, <1>2 DEF agentVars, messageVars
<1>3. CASE SweepNext
  BY <1>1, <1>3 DEF SweepNext, SweepLists, SweepRevokes, CancelRevokes, BeginCleanup,
                    EndCleanup, messageVars
<1> QED
  BY <1>2, <1>3, LauncherHands, MessageHands, RestartHands DEF AgentNext, allVars

LEMMA HandedInvariant == AgentSpec => []Handed
<1>1. AgentInit => Handed
  BY FS_EmptySet DEF AgentInit, Handed, HandedOver, Few, NullDelivery
<1>2. AgentTypeOK /\ Handed /\ [AgentNext]_allVars => Handed'
  BY HandedStep
<1> QED BY <1>1, <1>2, LauncherTypes, PTL DEF AgentSpec

\* A message is in the prompt of one process, and of one more for every restart
\* of the daemon: neither a launch that fails nor a lost acknowledgement gives it
\* a second time.
THEOREM OnePrompt == AgentSpec => []GivenOnce
<1>1. AgentTypeOK /\ Handed => GivenOnce
  <2> SUFFICES ASSUME AgentTypeOK, Handed, NEW d \in Message
               PROVE  Cardinality(given[d]) <= 1 + restarts
    BY DEF GivenOnce
  <2>1. IsFiniteSet(given[d]) /\ Cardinality(given[d]) <= restarts + 1
    BY DEF Handed, HandedOver, Few
  <2> QED BY <2>1, FS_CardinalityType, RestartAssumption DEF AgentTypeOK
<1> QED BY <1>1, HandedInvariant, LauncherTypes, PTL

\* A message that was recalled is in no prompt, unless the daemon stopped between
\* a prompt and its acknowledgement.
THEOREM RecalledUnread == AgentSpec => []WithdrawnWasNotGiven
<1>1. Handed => WithdrawnWasNotGiven
  <2> SUFFICES ASSUME Handed, NEW d \in Message,
                      delivery[d].status = "recalled", restarts = 0
               PROVE  given[d] = {}
    BY DEF WithdrawnWasNotGiven
  <2>1. IsFiniteSet(given[d]) /\ Cardinality(given[d]) <= 0
    BY DEF Handed, HandedOver, Few
  <2> QED BY <2>1, FS_CardinalityType, FS_EmptySet
<1> QED BY <1>1, HandedInvariant, PTL
=============================================================================
