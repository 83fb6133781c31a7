---------------------------- MODULE MorrowsProofs ---------------------------
(* Theorems about Morrows, for every number of tasks, agents and rows: the    *)
(* types of its tables, and what a step of the whole system can do to a row.  *)
(* RowStep and RunStep are what the invariants of LifecycleProofs know of     *)
(* the steps that are not about them.                                         *)
EXTENDS Monitors, TLAPS

-----------------------------------------------------------------------------
(* What the updates of rows preserve.                                         *)
\* A status update of rows that are in use keeps the table of assignments well
\* formed (every UPDATE assignments SET status).
LEMMA SetAsgType ==
  ASSUME NEW as \in AsgTable, NEW S \in SUBSET Asg, NEW st \in AsgStatus,
         \A a \in S: as[a].status # "none"
  PROVE  SetAsg(as, S, st) \in AsgTable
<1> SUFFICES ASSUME NEW a \in Asg
             PROVE  (IF a \in S THEN [as[a] EXCEPT !.status = st] ELSE as[a])
                      \in AsgRow \cup {NullAsg}
  BY DEF SetAsg, AsgTable
<1>1. CASE a \in S
  <2>1. as[a] \in AsgRow \cup {NullAsg} /\ as[a].status # "none"
    BY <1>1 DEF AsgTable
  <2>2. NullAsg.status = "none"  BY DEF NullAsg
  <2>3. as[a] \in AsgRow  BY <2>1, <2>2
  <2> QED  BY <1>1, <2>3 DEF AsgRow
<1>2. CASE a \notin S  BY <1>2 DEF AsgTable
<1> QED  BY <1>1, <1>2

\* The same of the runs (every UPDATE runs SET status).
LEMMA SetRunType ==
  ASSUME NEW rs \in RunTable, NEW S \in SUBSET Run,
         NEW st \in LiveRunStatus \cup EndedRunStatus,
         \A x \in S: rs[x].status # "none"
  PROVE  SetRun(rs, S, st) \in RunTable
<1> SUFFICES ASSUME NEW x \in Run
             PROVE  (IF x \in S THEN [rs[x] EXCEPT !.status = st] ELSE rs[x])
                      \in RunRow \cup {NullRun}
  BY DEF SetRun, RunTable
<1>1. CASE x \in S
  <2>1. rs[x] \in RunRow \cup {NullRun} /\ rs[x].status # "none"
    BY <1>1 DEF RunTable
  <2>2. rs[x] \in RunRow  BY <2>1 DEF NullRun
  <2> QED  BY <1>1, <2>2 DEF RunRow
<1>2. CASE x \notin S  BY <1>2 DEF RunTable
<1> QED  BY <1>1, <1>2

\* The same of the tasks; an update of a row that is not there changes nothing.
LEMMA SetTaskType ==
  ASSUME NEW ts \in TaskTable, NEW t, NEW st \in TaskState
  PROVE  SetTask(ts, t, st) \in TaskTable
BY DEF SetTask, TaskTable

\* A new row is a row.
LEMMA NewAsgType ==
  ASSUME NEW as \in AsgTable, NEW a \in Asg, NEW t \in Task, NEW g \in Agent,
         NEW r \in Role, NEW p \in Phase
  PROVE  [as EXCEPT ![a] = NewAsg(t, g, r, p)] \in AsgTable
BY DEF AsgTable, AsgRow, NewAsg, AsgStatus

LEMMA NewRunType ==
  ASSUME NEW rs \in RunTable, NEW x \in Run, NEW a \in Asg, NEW s \in Scope
  PROVE  [rs EXCEPT ![x] = NewRun(a, s)] \in RunTable
BY DEF RunTable, RunRow, NewRun, LiveRunStatus, WaitStatus, Window

\* A row in use is a row and not the null record.
LEMMA UsedRows ==
  ASSUME TypeOK
  PROVE  /\ \A a \in Asg: asg[a].status # "none" => asg[a] \in AsgRow
         /\ \A x \in Run: run[x].status # "none" =>
              run[x] \in RunRow /\ run[x].asg \in Asg
<1>1. NullAsg.status = "none"  BY DEF NullAsg
<1>2. NullRun.status = "none"  BY DEF NullRun
<1>3. ASSUME NEW a \in Asg, asg[a].status # "none"  PROVE  asg[a] \in AsgRow
  <2>1. asg[a] \in AsgRow \cup {NullAsg}  BY DEF TypeOK, AsgTable
  <2> QED  BY <1>1, <1>3, <2>1
<1>4. ASSUME NEW x \in Run, run[x].status # "none"
      PROVE  run[x] \in RunRow /\ run[x].asg \in Asg
  <2>1. run[x] \in RunRow \cup {NullRun}  BY DEF TypeOK, RunTable
  <2>2. run[x] \in RunRow  BY <1>2, <1>4, <2>1
  <2> QED  BY <2>2 DEF RunRow
<1> QED  BY <1>3, <1>4

-----------------------------------------------------------------------------
(* The steps of Claims keep the types.                                        *)
LEMMA ClaimType ==
  ASSUME TypeOK, NEW t \in Task, NEW g \in Agent, NEW r \in Role,
         NEW intake \in BOOLEAN, Claim(t, g, r, intake)
  PROVE  task' \in TaskTable /\ asg' \in AsgTable
<1>1. ClaimPhase(r, intake) \in Phase  BY DEF ClaimPhase, Phase
<1>2. PICK a \in Asg: asg' = [asg EXCEPT ![a] = NewAsg(t, g, r, ClaimPhase(r, intake))]
  BY DEF Claim
<1>3. asg' \in AsgTable  BY <1>1, <1>2, NewAsgType DEF TypeOK
<1>4. task' \in TaskTable
  BY SetTaskType DEF Claim, ClaimedTask, TypeOK, TaskState
<1> QED  BY <1>3, <1>4

\* Sweeping stale leases keeps the assignments well formed (both sweeps).
LEMMA SweepType ==
  ASSUME TypeOK
  PROVE  SetAsg(asg, Stale, "expired") \in AsgTable
<1>1. Stale \in SUBSET Asg /\ \A a \in Stale: asg[a].status # "none"
  BY DEF Stale, Lapsed
<1> QED  BY <1>1, SetAsgType DEF TypeOK, AsgStatus

LEMMA ClaimsType ==
  ASSUME TypeOK, ClaimsNext
  PROVE  TypeOK'
<1> USE DEF launchVars
<1>1. ASSUME NEW t \in Task, NEW g \in Agent, NEW r \in Role, ClaimTask(t, g, r)
      PROVE  TypeOK'
  BY <1>1, ClaimType DEF ClaimTask, TypeOK
<1>2. ASSUME NEW t \in Task, NEW g \in Agent, NEW r \in Role,
             ClaimForExecution(t, g, r)
      PROVE  TypeOK'
  <2>1. ClaimPhase(r, TRUE) \in Phase  BY DEF ClaimPhase, Phase
  <2>2. asg' \in AsgTable
    <3>1. PICK a \in Asg: asg' = [asg EXCEPT ![a] = NewAsg(t, g, r, ClaimPhase(r, TRUE))]
      BY <1>2 DEF ClaimForExecution
    <3> QED  BY <2>1, <3>1, NewAsgType DEF TypeOK
  <2>3. run' \in RunTable
    <3>1. PICK a \in Asg, x \in Run: run' = [run EXCEPT ![x] = NewRun(a, "none")]
      BY <1>2 DEF ClaimForExecution
    <3> QED  BY <3>1, NewRunType DEF TypeOK, Scope
  <2>4. task' \in TaskTable
    BY <1>2, SetTaskType DEF ClaimForExecution, ClaimedTask, TypeOK, TaskState
  <2> QED  BY <1>2, <2>2, <2>3, <2>4 DEF ClaimForExecution, TypeOK
<1>3. ASSUME NEW t \in Task, NEW g \in Agent, NEW r \in Role,
             RequestAssignment(t, g, r)
      PROVE  TypeOK'
  BY <1>3 DEF RequestAssignment, TypeOK
<1>4. ASSUME NEW t \in Task, NEW g \in Agent, NEW r \in Role, ApproveRequest(t, g, r)
      PROVE  TypeOK'
  <2>1. task' \in TaskTable /\ asg' \in AsgTable
    BY <1>4, ClaimType DEF ApproveRequest, TypeOK
  <2> QED  BY <1>4, <2>1 DEF ApproveRequest, TypeOK
<1>5. ASSUME NEW t \in Task, NEW g \in Agent, NEW r \in Role, CloseRequest(t, g, r)
      PROVE  TypeOK'
  BY <1>5 DEF CloseRequest, TypeOK
<1>6. ASSUME NEW t \in Task, NEW g \in Agent, NEW r \in Role, Dispatch(t, g, r)
      PROVE  TypeOK'
  <2>1. ClaimPhase(r, TRUE) \in Phase  BY DEF ClaimPhase, Phase
  <2>2. asg' \in AsgTable
    <3>1. PICK a \in Asg:
            asg' = [SetAsg(asg, Stale, "expired") EXCEPT
                      ![a] = NewAsg(t, g, r, ClaimPhase(r, TRUE))]
      BY <1>6 DEF Dispatch, Dispatchable
    <3> QED  BY <2>1, <3>1, SweepType, NewAsgType
  <2>3. task' \in TaskTable
    BY <1>6, SetTaskType DEF Dispatch, TypeOK, TaskState
  <2> QED  BY <1>6, <2>2, <2>3 DEF Dispatch, TypeOK
<1>7. ASSUME NEW a \in Asg, LeaseLapses(a)  PROVE  TypeOK'
  <2>1. asg[a] \in AsgRow  BY <1>7, UsedRows DEF LeaseLapses, LiveLease
  <2>2. asg' \in AsgTable
    BY <1>7, <2>1 DEF LeaseLapses, TypeOK, AsgTable, AsgRow
  <2> QED  BY <1>7, <2>2 DEF LeaseLapses, TypeOK
<1>8. CASE ExpireStale
  BY <1>8, SweepType DEF ExpireStale, TypeOK
<1>9. ASSUME NEW a \in Asg, NEW x \in Run, RecoverAssignment(a, x)  PROVE  TypeOK'
  <2>1. asg[a] \in AsgRow
    BY <1>9, UsedRows DEF RecoverAssignment, Recoverable, Lapsed
  <2>2. asg' \in AsgTable
    BY <1>9, <2>1 DEF RecoverAssignment, TypeOK, AsgTable, AsgRow, AsgStatus
  <2> QED  BY <1>9, <2>2 DEF RecoverAssignment, TypeOK
<1>10. ASSUME NEW t \in Task, NEW m \in AssignmentMode, SetMode(t, m)  PROVE  TypeOK'
  <2>1. task' \in TaskTable  BY <1>10 DEF SetMode, TypeOK, TaskTable
  <2> QED  BY <1>10, <2>1 DEF SetMode, TypeOK
<1> QED
  BY <1>1, <1>2, <1>3, <1>4, <1>5, <1>6, <1>7, <1>8, <1>9, <1>10 DEF ClaimsNext

-----------------------------------------------------------------------------
(* So do the steps of Execution ...                                           *)
LEMMA RequeuedType ==
  ASSUME TypeOK, NEW t, NEW as
  PROVE  Requeued(as, t) \in TaskTable
BY SetTaskType DEF Requeued, TypeOK, TaskState

LEMMA TakeoverType ==
  ASSUME TypeOK, NEW t \in Task, NEW g \in Agent, NEW force \in BOOLEAN,
         Takeover(t, g, force)
  PROVE  TypeOK'
<1> DEFINE owners == {a \in Asg: /\ asg[a].task = t
                                 /\ asg[a].role = "executor"
                                 /\ asg[a].status \in ActiveOrExpired}
<1> DEFINE dropped == SetAsg(asg, owners, "released")
<1> DEFINE stopped == SetRun(run, ExecutorRuns(t), "abandoned")
<1>1. dropped \in AsgTable
  <2>1. \A a \in owners: asg[a].status # "none"  BY DEF ActiveOrExpired
  <2> QED  BY <2>1, SetAsgType DEF TypeOK, AsgStatus
<1>2. stopped \in RunTable
  <2>1. ExecutorRuns(t) \in SUBSET Run /\ \A x \in ExecutorRuns(t): run[x].status # "none"
    BY DEF ExecutorRuns
  <2> QED  BY <2>1, SetRunType DEF TypeOK, EndedRunStatus
<1>3. "executor" \in Role /\ "context_review" \in Phase
  BY VocabularyAssumption DEF Phase
<1>4. PICK a \in Asg, x \in Run:
        /\ asg' = [dropped EXCEPT ![a] = NewAsg(t, g, "executor", "context_review")]
        /\ run' = [stopped EXCEPT ![x] = NewRun(a, "none")]
  BY DEF Takeover
<1>5. asg' \in AsgTable  BY <1>1, <1>3, <1>4, NewAsgType
<1>6. run' \in RunTable
  <2>1. "none" \in Scope  BY DEF Scope
  <2> QED  BY <1>2, <1>4, <2>1, NewRunType
<1> QED  BY <1>5, <1>6 DEF Takeover, TypeOK, launchVars

LEMMA CancelTaskType ==
  ASSUME TypeOK, NEW t \in Task, CancelTask(t)
  PROVE  TypeOK'
<1>1. task' \in TaskTable
  BY SetTaskType DEF CancelTask, TypeOK, TaskState
<1>2. asg' \in AsgTable
  BY SetAsgType DEF CancelTask, TypeOK, AsgStatus
<1>3. run' \in RunTable
  <2> SUFFICES ASSUME NEW x \in Run  PROVE  run'[x] \in RunRow \cup {NullRun}
    BY DEF CancelTask, RunTable
  <2>1. CASE run'[x] = run[x]  BY <2>1 DEF TypeOK, RunTable
  <2>2. CASE run'[x] # run[x]
    <3>1. run[x].status # "none" /\ run'[x] = [run[x] EXCEPT !.status = CancelStatus(x)]
      BY <2>2 DEF CancelTask, LiveRunStatus
    <3>2. run[x] \in RunRow  BY <3>1, UsedRows
    <3> QED  BY <3>1, <3>2 DEF RunRow, CancelStatus, LiveRunStatus, EndedRunStatus
  <2> QED  BY <2>1, <2>2
<1>4. attempt' \in AttemptTable
  <2> SUFFICES ASSUME NEW l \in Attempt
               PROVE  attempt'[l] \in AttemptRow \cup {NullAttempt}
    BY DEF CancelTask, AttemptTable
  <2>1. CASE attempt'[l] = attempt[l]  BY <2>1 DEF TypeOK, AttemptTable
  <2>2. CASE attempt'[l] # attempt[l]
    <3>1. /\ attempt[l].status \in ActiveAttemptStatus
          /\ attempt'[l] = [attempt[l] EXCEPT !.status = "cancelled",
               !.job = IF attempt[l].job \in {"pending", "running"}
                       THEN "cancelled" ELSE attempt[l].job]
      BY <2>2 DEF CancelTask
    <3>2. attempt[l] \in AttemptRow
      <4>1. NullAttempt.status = "none"  BY DEF NullAttempt
      <4> QED  BY <3>1, <4>1 DEF TypeOK, AttemptTable, ActiveAttemptStatus
    <3> QED  BY <3>1, <3>2 DEF AttemptRow, EndedAttemptStatus, JobStatus
  <2> QED  BY <2>1, <2>2
<1>5. requests' \subseteq Task \X Agent \X Role
  BY DEF CancelTask, TypeOK
<1> QED  BY <1>1, <1>2, <1>3, <1>4, <1>5 DEF CancelTask, TypeOK

LEMMA ExecutionType ==
  ASSUME TypeOK, ExecutionNext
  PROVE  TypeOK'
<1> USE DEF launchVars
<1>1. ASSUME NEW a \in Asg, StartRun(a)  PROVE  TypeOK'
  <2>1. asg[a] \in AsgRow  BY <1>1, UsedRows DEF StartRun, LiveLease
  <2>2. asg' \in AsgTable
    BY <1>1, <2>1 DEF StartRun, TypeOK, AsgTable, AsgRow, Phase
  <2>3. run' \in RunTable
    <3>1. "none" \in Scope  BY DEF Scope
    <3>2. PICK x \in Run: run' = [run EXCEPT ![x] = NewRun(a, "none")]
      BY <1>1 DEF StartRun
    <3> QED  BY <3>1, <3>2, NewRunType DEF TypeOK
  <2> QED  BY <1>1, <2>2, <2>3 DEF StartRun, TypeOK
<1>2. ASSUME NEW x \in Run, CompleteRun(x)  PROVE  TypeOK'
  <2>1. run' \in RunTable
    BY <1>2, SetRunType DEF CompleteRun, TypeOK, EndedRunStatus
  <2>2. run[x].asg \in Asg  BY <1>2, UsedRows DEF CompleteRun
  <2>3. asg' \in AsgTable
    BY <1>2, <2>2, SetAsgType DEF CompleteRun, TypeOK, AsgStatus, LiveLease
  <2>4. task' \in TaskTable
    BY <1>2, SetTaskType DEF CompleteRun, TypeOK, TaskState
  <2> QED  BY <1>2, <2>1, <2>3, <2>4 DEF CompleteRun, TypeOK
<1>3. ASSUME NEW x \in Run, CreateHandoff(x)  PROVE  TypeOK'
  <2>1. run' \in RunTable
    BY <1>3, SetRunType DEF CreateHandoff, TypeOK, EndedRunStatus
  <2>2. run[x].asg \in Asg  BY <1>3, UsedRows DEF CreateHandoff
  <2>3. asg' \in AsgTable
    BY <1>3, <2>2, SetAsgType DEF CreateHandoff, TypeOK, AsgStatus, LiveLease
  <2>4. task' \in TaskTable
    BY <1>3, RequeuedType DEF CreateHandoff, TypeOK
  <2> QED  BY <1>3, <2>1, <2>3, <2>4 DEF CreateHandoff, TypeOK
<1>4. ASSUME NEW x \in Run, CancelManagedRun(x)  PROVE  TypeOK'
  BY <1>4, SetRunType DEF CancelManagedRun, TypeOK, LiveRunStatus
<1>5. ASSUME NEW x \in Run, CancelReviewerRun(x)  PROVE  TypeOK'
  <2>1. run' \in RunTable
    BY <1>5, SetRunType DEF CancelReviewerRun, TypeOK, EndedRunStatus
  <2>2. run[x].asg \in Asg  BY <1>5, UsedRows DEF CancelReviewerRun
  <2>3. asg' \in AsgTable
    BY <1>5, <2>2, SetAsgType DEF CancelReviewerRun, TypeOK, AsgStatus
  <2>4. task' \in TaskTable
    BY <1>5, RequeuedType DEF CancelReviewerRun
  <2> QED  BY <1>5, <2>1, <2>3, <2>4 DEF CancelReviewerRun, TypeOK
<1>6. ASSUME NEW t \in Task, ReopenTask(t)  PROVE  TypeOK'
  BY <1>6, SetTaskType DEF ReopenTask, TypeOK, TaskState
<1>7. ASSUME NEW y \in Run, NEW x \in Run, NEW v \in Verdict, SubmitReview(y, x, v)
      PROVE  TypeOK'
  <2>1. run[x] \in RunRow  BY <1>7, UsedRows DEF SubmitReview
  <2>2. run' \in RunTable
    BY <1>7, <2>1 DEF SubmitReview, TypeOK, RunTable, RunRow
  <2>3. task' \in TaskTable
    BY <1>7, SetTaskType DEF SubmitReview, TypeOK, TaskState
  <2> QED  BY <1>7, <2>2, <2>3 DEF SubmitReview, TypeOK
<1> QED
  BY <1>1, <1>2, <1>3, <1>4, <1>5, <1>6, <1>7, TakeoverType, CancelTaskType
     DEF ExecutionNext

-----------------------------------------------------------------------------
(* ... and those of Intake.                                                   *)
LEMMA MoveToPhaseType ==
  ASSUME TypeOK, NEW a \in Asg, NEW p \in Phase, MoveToPhase(a, p)
  PROVE  asg' \in AsgTable
<1>1. CASE asg[a].status = "active"
  <2>1. asg[a] \in AsgRow  BY <1>1, UsedRows
  <2> QED  BY <1>1, <2>1 DEF MoveToPhase, TypeOK, AsgTable, AsgRow
<1>2. CASE asg[a].status # "active"
  BY <1>2 DEF MoveToPhase, TypeOK
<1> QED  BY <1>1, <1>2

LEMMA IntakeType ==
  ASSUME TypeOK, IntakeNext
  PROVE  TypeOK'
<1> USE DEF launchVars
<1>1. ASSUME NEW a \in Asg, NEW op \in IntakeOp, IntakeDone(a, op), asg' \in AsgTable
      PROVE  TypeOK'
  BY <1>1 DEF IntakeDone, TypeOK
<1>2. IntakeOp = {"read", "interview", "finalize", "execute"}  BY DEF IntakeOp
<1>3. Phase = {"context_review", "human_interview", "ready", "implementing"}
  BY DEF Phase
<1>4. ASSUME NEW a \in Asg, NEW op \in IntakeOp,
             IntakeCheck(a, op) \/ IntakeRefused(a, op)
      PROVE  TypeOK'
  <2>1. CASE IntakeCheck(a, op)  BY <2>1 DEF IntakeCheck, TypeOK
  <2>2. CASE IntakeRefused(a, op)  BY <2>2, <1>1 DEF IntakeRefused, TypeOK
  <2> QED  BY <1>4, <2>1, <2>2
<1>5. ASSUME NEW a \in Asg, IntakeRead(a)  PROVE  TypeOK'
  <2>1. asg' \in AsgTable
    <3>1. CASE asg[a].status = "active"
      <4>1. asg[a] \in AsgRow  BY <3>1, UsedRows
      <4> QED  BY <1>5, <3>1, <4>1 DEF IntakeRead, TypeOK, AsgTable, AsgRow, Phase
    <3>2. CASE asg[a].status # "active"  BY <1>5, <3>2 DEF IntakeRead, TypeOK
    <3> QED  BY <3>1, <3>2
  <2> QED  BY <1>1, <1>2, <1>5, <2>1 DEF IntakeRead
<1>6. ASSUME NEW a \in Asg, StartInterview(a)  PROVE  TypeOK'
  BY <1>1, <1>2, <1>3, <1>6, MoveToPhaseType DEF StartInterview
<1>7. ASSUME NEW a \in Asg, FinalizeInterview(a)  PROVE  TypeOK'
  BY <1>1, <1>2, <1>3, <1>7, MoveToPhaseType DEF FinalizeInterview
<1>8. ASSUME NEW a \in Asg, BeginExecution(a)  PROVE  TypeOK'
  <2>1. asg[a] \in AsgRow  BY <1>8, UsedRows DEF BeginExecution
  <2>2. asg' \in AsgTable
    BY <1>8, <2>1 DEF BeginExecution, TypeOK, AsgTable, AsgRow, Phase
  <2> QED  BY <1>1, <1>2, <1>8, <2>2 DEF BeginExecution
<1>9. ASSUME NEW a \in Asg, HumanMessage(a) \/ AgentReply(a)  PROVE  TypeOK'
  BY <1>3, <1>9, MoveToPhaseType DEF HumanMessage, AgentReply, TypeOK
<1>10. ASSUME NEW t \in Task, ReassignProject(t)  PROVE  TypeOK'
  <2>1. asg' \in AsgTable
    <3> SUFFICES ASSUME NEW a \in Asg  PROVE  asg'[a] \in AsgRow \cup {NullAsg}
      BY <1>10 DEF ReassignProject, AsgTable
    <3>1. CASE a \in ActiveFor(asg, t, "executor")
      <4>1. asg[a] \in AsgRow  BY <3>1, UsedRows DEF ActiveFor
      <4> QED  BY <1>10, <3>1, <4>1 DEF ReassignProject, AsgRow, Phase
    <3>2. CASE a \notin ActiveFor(asg, t, "executor")
      BY <1>10, <3>2 DEF ReassignProject, TypeOK, AsgTable
    <3> QED  BY <3>1, <3>2
  <2> QED  BY <1>10, <2>1 DEF ReassignProject, TypeOK
<1> QED
  BY <1>4, <1>5, <1>6, <1>7, <1>8, <1>9, <1>10 DEF IntakeNext

-----------------------------------------------------------------------------
(* The steps of Launch keep the types.                                        *)
LEMMA UsedAttempt ==
  ASSUME TypeOK
  PROVE  \A l \in Attempt: attempt[l].status # "none" =>
           /\ attempt[l] \in AttemptRow
           /\ attempt[l].asg \in Asg
           /\ attempt[l].run \in Run \cup {0}
           /\ attempt[l].restart \in Run \cup {0}
<1>1. NullAttempt.status = "none"  BY DEF NullAttempt
<1> SUFFICES ASSUME NEW l \in Attempt, attempt[l].status # "none"
             PROVE  attempt[l] \in AttemptRow
  BY DEF AttemptRow
<1>2. attempt[l] \in AttemptRow \cup {NullAttempt}  BY DEF TypeOK, AttemptTable
<1> QED  BY <1>1, <1>2

\* No row has the id 0 that stands for a missing reference.
LEMMA ZeroIsNoRun == 0 \notin Run
BY BoundsAssumption DEF Run

LEMMA ReleaseLauncherType ==
  ASSUME TypeOK, NEW a \in Asg, ReleaseLauncher(a)
  PROVE  asg' \in AsgTable /\ task' \in TaskTable
BY SetAsgType, SetTaskType DEF ReleaseLauncher, TypeOK, AsgStatus, TaskState

LEMMA ExtendedType ==
  ASSUME TypeOK, NEW a \in Asg
  PROVE  Extended(a) \in AsgTable
<1>1. asg[a].status = "active" => asg[a] \in AsgRow  BY UsedRows
<1> QED  BY <1>1 DEF Extended, TypeOK, AsgTable, AsgRow

LEMMA NewAttemptType ==
  ASSUME TypeOK, NEW l \in Attempt, NEW row \in AttemptRow
  PROVE  [attempt EXCEPT ![l] = row] \in AttemptTable
BY DEF TypeOK, AttemptTable

\* A queued attempt or an invitation is a row.
LEMMA FreshAttemptType ==
  ASSUME NEW a \in Asg, NEW k \in {"local", "managed", "external"},
         NEW x \in Run \cup {0}
  PROVE  QueuedAttempt(a, k, x) \in AttemptRow /\ Invitation(a) \in AttemptRow
BY DEF QueuedAttempt, Invitation, AttemptRow, ActiveAttemptStatus, JobStatus

LEMMA QueueRestartType ==
  ASSUME TypeOK, NEW x \in Run, run[x].status # "none", QueueRestart(x)
  PROVE  attempt' \in AttemptTable
<1>1. PICK l \in Attempt, last \in Attempt:
        /\ attempt[last].run = x
        /\ attempt' = [attempt EXCEPT ![l] =
             QueuedAttempt(run[x].asg, attempt[last].kind, x)]
  BY DEF QueueRestart
<1>2. attempt[last] \in AttemptRow
  <2>1. NullAttempt.run = 0  BY DEF NullAttempt
  <2>2. attempt[last] # NullAttempt  BY <1>1, <2>1, ZeroIsNoRun
  <2> QED  BY <2>2 DEF TypeOK, AttemptTable
<1>3. run[x].asg \in Asg  BY UsedRows
<1>4. QueuedAttempt(run[x].asg, attempt[last].kind, x) \in AttemptRow
  BY <1>2, <1>3, FreshAttemptType DEF AttemptRow
<1> QED  BY <1>1, <1>4, NewAttemptType

\* The run of an attempt that went away keeps its type, whatever becomes of it.
LEMMA FinishType ==
  ASSUME TypeOK, NEW l \in Attempt, NEW success \in BOOLEAN, Finish(l, success)
  PROVE  /\ task' \in TaskTable /\ asg' \in AsgTable
         /\ run' \in RunTable /\ attempt' \in AttemptTable
<1> DEFINE a == attempt[l].asg
<1> DEFINE x == attempt[l].run
<1> DEFINE stopping == x # 0 /\ run[x].status = "cancelling"
<1> DEFINE intake == Exited(x) /\ asg[a].phase # "implementing"
<1> DEFINE managed == Exited(x) /\ ~intake /\ run[x].scope # "none"
<1> DEFINE waiting == managed /\ run[x].wait # "none"
<1>1. /\ attempt[l] \in AttemptRow /\ a \in Asg /\ x \in Run \cup {0}
  BY UsedAttempt DEF Finish, ActiveAttemptStatus
<1>2. attempt' \in AttemptTable
  <2>1. attempt' = [attempt EXCEPT ![l] =
          [@ EXCEPT !.status = IF stopping THEN "cancelled"
                               ELSE IF success THEN "completed" ELSE "failed",
                    !.job = IF attempt[l].job = "none" THEN "none"
                            ELSE IF stopping THEN "cancelled"
                            ELSE IF success THEN "done" ELSE "failed"]]
    BY DEF Finish
  <2> QED
    BY <1>1, <2>1 DEF AttemptRow, AttemptTable, EndedAttemptStatus, JobStatus, TypeOK
<1>3. CASE intake
  <2>1. /\ run' = SetRun(run, {x}, IF success THEN "completed" ELSE "failed")
        /\ asg' = Extended(a) /\ task' = task
    BY <1>3 DEF Finish, Exited
  <2>2. x \in Run /\ run[x].status # "none" /\ asg[a].phase # "implementing"
    BY <1>1, <1>3 DEF Exited
  <2>3. run' \in RunTable
    BY <2>1, <2>2, SetRunType DEF TypeOK, EndedRunStatus
  <2>4. asg' \in AsgTable
    BY <1>1, <2>1, ExtendedType
  <2> QED  BY <1>2, <2>1, <2>3, <2>4 DEF TypeOK
<1>4. CASE managed
  <2>1. /\ run' = [run EXCEPT ![x] = [@ EXCEPT
                     !.status = "interrupted",
                     !.window = IF waiting THEN "none" ELSE "open"]]
        /\ asg' = IF waiting THEN asg ELSE Extended(a)
        /\ task' = task
    BY <1>4 DEF Finish, Exited
  <2>2. x \in Run /\ run[x] \in RunRow
    BY <1>1, <1>4, UsedRows DEF Exited
  <2>3. run' \in RunTable
    BY <2>1, <2>2 DEF TypeOK, RunTable, RunRow, LiveRunStatus, Window
  <2>4. asg' \in AsgTable
    BY <1>1, <2>1, ExtendedType DEF TypeOK
  <2> QED  BY <1>2, <2>1, <2>3, <2>4 DEF TypeOK
<1>5. CASE Exited(x) /\ ~intake /\ ~managed
  <2>1. /\ run' = SetRun(run, {x}, IF success THEN "paused" ELSE "failed")
        /\ ReleaseLauncher(a)
    BY <1>5 DEF Finish, Exited
  <2>2. x \in Run /\ run[x].status # "none"  BY <1>1, <1>5 DEF Exited
  <2>3. run' \in RunTable
    BY <2>1, <2>2, SetRunType DEF TypeOK, EndedRunStatus, LiveRunStatus
  <2> QED  BY <1>1, <1>2, <2>1, <2>3, ReleaseLauncherType
<1>6. CASE ~Exited(x)
  <2>1. \/ ReleaseLauncher(a) /\ run' = run
        \/ UNCHANGED <<task, asg, run>>
    BY <1>6 DEF Finish
  <2> QED  BY <1>1, <1>2, <2>1, ReleaseLauncherType DEF TypeOK
<1> QED  BY <1>3, <1>4, <1>5, <1>6

LEMMA BeginLaunchType ==
  ASSUME TypeOK, NEW l \in Attempt, NEW x \in Run, BeginLaunch(l, x)
  PROVE  TypeOK'
<1> DEFINE a == attempt[l].asg
<1> DEFINE phase == IF asg[a].phase = "ready" THEN "implementing" ELSE asg[a].phase
<1>1. attempt[l] \in AttemptRow /\ a \in Asg
  BY UsedAttempt DEF BeginLaunch
<1>2. asg[a] \in AsgRow  BY <1>1, UsedRows DEF BeginLaunch, LiveLease
<1>3. asg' \in AsgTable
  BY <1>1, <1>2 DEF BeginLaunch, TypeOK, AsgTable, AsgRow, Phase
<1>4. attempt' \in AttemptTable
  BY <1>1 DEF BeginLaunch, TypeOK, AttemptTable, AttemptRow, ActiveAttemptStatus
<1>5. run' \in RunTable
  <2>1. CASE attempt[l].restart = 0
    <3>1. PICK s \in LaunchScope(attempt[l].kind, phase):
            run' = [run EXCEPT ![x] = NewRun(a, s)]
      BY <2>1, ZeroIsNoRun DEF BeginLaunch
    <3>2. s \in Scope  BY DEF LaunchScope, Scope
    <3> QED  BY <1>1, <3>1, <3>2, NewRunType DEF TypeOK
  <2>2. CASE attempt[l].restart = x
    <3>1. /\ run[x].status = "interrupted"
          /\ run' = [run EXCEPT ![x] = [@ EXCEPT !.status = "running", !.window = "none"]]
      BY <2>2, ZeroIsNoRun DEF BeginLaunch
    <3>2. run[x] \in RunRow  BY <3>1, UsedRows
    <3> QED  BY <3>1, <3>2 DEF TypeOK, RunTable, RunRow, LiveRunStatus, Window
  <2> QED  BY <2>1, <2>2 DEF BeginLaunch
<1> QED  BY <1>3, <1>4, <1>5 DEF BeginLaunch, TypeOK

LEMMA AttemptsType ==
  ASSUME TypeOK, NEW l \in Attempt,
         \/ ClaimLaunchJob(l) \/ MarkRunning(l) \/ StopLaunch(l) \/ AcceptExternal(l)
         \/ CompleteExternal(l) \/ RetireExternal(l) \/ FailExternal(l)
         \/ \E success \in BOOLEAN: FinishLaunch(l, success)
  PROVE  TypeOK'
<1> USE DEF lifeVars
<1>1. CASE ClaimLaunchJob(l)
  <2>1. attempt[l] \in AttemptRow  BY <1>1, UsedAttempt DEF ClaimLaunchJob
  <2>2. attempt' \in AttemptTable
    BY <1>1, <2>1 DEF ClaimLaunchJob, TypeOK, AttemptTable, AttemptRow, JobStatus
  <2> QED  BY <1>1, <2>2 DEF ClaimLaunchJob, TypeOK
<1>2. CASE MarkRunning(l)
  <2>1. attempt[l] \in AttemptRow  BY <1>2, UsedAttempt DEF MarkRunning
  <2>2. attempt' \in AttemptTable
    BY <1>2, <2>1 DEF MarkRunning, TypeOK, AttemptTable, AttemptRow, ActiveAttemptStatus
  <2> QED  BY <1>2, <2>2 DEF MarkRunning, TypeOK
<1>3. CASE StopLaunch(l)
  <2>1. attempt[l] \in AttemptRow /\ attempt[l].asg \in Asg
    BY <1>3, UsedAttempt DEF StopLaunch, ActiveAttemptStatus
  <2>2. attempt' \in AttemptTable
    BY <1>3, <2>1
       DEF StopLaunch, TypeOK, AttemptTable, AttemptRow, EndedAttemptStatus, JobStatus
  <2>3. run' \in RunTable
    BY <1>3, SetRunType DEF StopLaunch, TypeOK, LiveRunStatus
  <2>4. ReleaseLauncher(attempt[l].asg)  BY <1>3 DEF StopLaunch
  <2> QED  BY <1>3, <2>1, <2>2, <2>3, <2>4, ReleaseLauncherType DEF StopLaunch, TypeOK
<1>4. CASE AcceptExternal(l)
  <2>1. attempt[l] \in AttemptRow /\ attempt[l].asg \in Asg
    BY <1>4, UsedAttempt DEF AcceptExternal
  <2>2. PICK x \in Run:
          /\ run' = [run EXCEPT ![x] = NewRun(attempt[l].asg, "none")]
          /\ attempt' = [attempt EXCEPT ![l] = [@ EXCEPT !.status = "running", !.run = x]]
    BY <1>4 DEF AcceptExternal
  <2>3. attempt' \in AttemptTable
    BY <2>1, <2>2 DEF TypeOK, AttemptTable, AttemptRow, ActiveAttemptStatus
  <2>4. run' \in RunTable
    <3>1. "none" \in Scope  BY DEF Scope
    <3> QED  BY <2>1, <2>2, <3>1, NewRunType DEF TypeOK
  <2> QED  BY <1>4, <2>3, <2>4 DEF AcceptExternal, TypeOK
<1>5. CASE CompleteExternal(l)
  <2>1. Finish(l, TRUE)  BY <1>5 DEF CompleteExternal
  <2> QED  BY <1>5, <2>1, FinishType DEF CompleteExternal, Finish, TypeOK
<1>6. CASE RetireExternal(l)
  BY <1>6 DEF RetireExternal, TypeOK
<1>7. CASE FailExternal(l)
  <2>1. CASE Finish(l, FALSE)
    BY <1>7, <2>1, FinishType DEF FailExternal, Finish, TypeOK
  <2>2. CASE UNCHANGED <<lifeVars, attempt, binding>>
    BY <1>7, <2>2 DEF FailExternal, TypeOK
  <2> QED  BY <1>7, <2>1, <2>2 DEF FailExternal
<1>8. ASSUME NEW success \in BOOLEAN, FinishLaunch(l, success)  PROVE  TypeOK'
  <2>1. Finish(l, success)  BY <1>8 DEF FinishLaunch
  <2> QED  BY <1>8, <2>1, FinishType DEF FinishLaunch, Finish, TypeOK
<1> QED  BY <1>1, <1>2, <1>3, <1>4, <1>5, <1>6, <1>7, <1>8

LEMMA ScopesType ==
  ASSUME TypeOK, NEW x \in Run,
         \/ ProvisionStart(x) \/ Bind(x) \/ ProvisionFails(x) \/ RestartRun(x)
         \/ \E status \in {"pending", "ready"}: RegisterWait(x, status)
         \/ JobTerminal(x) \/ ResumeWait(x) \/ RenewInterrupted(x) \/ WindowCloses(x)
         \/ BeginExpiredCleanup(x) \/ CompleteCleanup(x) \/ Terminalize(x)
  PROVE  TypeOK'
<1> USE DEF lifeVars, launchVars
<1>1. CASE ProvisionStart(x) \/ ProvisionFails(x)
  BY <1>1 DEF ProvisionStart, ProvisionFails, TypeOK
<1>2. CASE Bind(x)
  <2>1. run[x] \in RunRow  BY <1>2, UsedRows DEF Bind
  <2>2. run' \in RunTable
    BY <1>2, <2>1 DEF Bind, TypeOK, RunTable, RunRow, Scope
  <2> QED  BY <1>2, <2>2 DEF Bind, TypeOK
<1>3. CASE RestartRun(x)
  <2>1. attempt' \in AttemptTable
    BY <1>3, QueueRestartType DEF RestartRun
  <2> QED  BY <1>3, <2>1 DEF RestartRun, TypeOK
<1>4. ASSUME NEW status \in {"pending", "ready"}, RegisterWait(x, status)
      PROVE  TypeOK'
  <2>1. run[x] \in RunRow  BY <1>4, UsedRows DEF RegisterWait
  <2>2. run' \in RunTable
    BY <1>4, <2>1 DEF RegisterWait, TypeOK, RunTable, RunRow, WaitStatus
  <2> QED  BY <1>4, <2>2 DEF RegisterWait, TypeOK
<1>5. CASE JobTerminal(x)
  <2>1. NullRun.wait = "none" /\ run[x] \in RunRow \cup {NullRun}
    BY DEF NullRun, TypeOK, RunTable
  <2>2. run[x] \in RunRow  BY <1>5, <2>1 DEF JobTerminal
  <2>3. run' \in RunTable
    BY <1>5, <2>2 DEF JobTerminal, TypeOK, RunTable, RunRow, WaitStatus
  <2> QED  BY <1>5, <2>3 DEF JobTerminal, TypeOK
<1>6. CASE ResumeWait(x)
  <2>1. run[x] \in RunRow /\ run[x].asg \in Asg  BY <1>6, UsedRows DEF ResumeWait
  <2>2. attempt' \in AttemptTable
    BY <1>6, QueueRestartType DEF ResumeWait
  <2>3. run' \in RunTable
    BY <1>6, <2>1 DEF ResumeWait, TypeOK, RunTable, RunRow, WaitStatus, Window
  <2>4. asg' \in AsgTable
    BY <1>6, <2>1, ExtendedType DEF ResumeWait
  <2> QED  BY <1>6, <2>2, <2>3, <2>4 DEF ResumeWait, TypeOK
<1>7. CASE RenewInterrupted(x)
  <2>1. asg' \in AsgTable
    BY <1>7, UsedRows, ExtendedType DEF RenewInterrupted
  <2> QED  BY <1>7, <2>1 DEF RenewInterrupted, TypeOK
<1>8. CASE WindowCloses(x)
  <2>1. run[x] \in RunRow  BY <1>8, UsedRows DEF WindowCloses
  <2>2. run' \in RunTable
    BY <1>8, <2>1 DEF WindowCloses, TypeOK, RunTable, RunRow, Window
  <2> QED  BY <1>8, <2>2 DEF WindowCloses, TypeOK
<1>9. CASE BeginExpiredCleanup(x)
  <2>1. run' \in RunTable
    BY <1>9, SetRunType DEF BeginExpiredCleanup, TypeOK, LiveRunStatus
  <2>2. run[x].asg \in Asg  BY <1>9, UsedRows DEF BeginExpiredCleanup
  <2>3. asg' \in AsgTable
    BY <1>9, <2>2, SetAsgType DEF BeginExpiredCleanup, TypeOK, AsgStatus
  <2> QED  BY <1>9, <2>1, <2>3 DEF BeginExpiredCleanup, TypeOK
<1>10. CASE CompleteCleanup(x)
  <2>1. run[x] \in RunRow /\ run[x].asg \in Asg
    BY <1>10, UsedRows DEF CompleteCleanup, CleaningStatus
  <2>2. run' \in RunTable
    BY <1>10, <2>1 DEF CompleteCleanup, TypeOK, RunTable, RunRow, EndedRunStatus, Scope
  <2>3. asg' \in AsgTable
    BY <1>10, <2>1, SetAsgType DEF CompleteCleanup, TypeOK, AsgStatus
  <2>4. task' \in TaskTable
    BY <1>10, SetTaskType DEF CompleteCleanup, CleanedTask, TypeOK, TaskState
  <2> QED  BY <1>10, <2>2, <2>3, <2>4 DEF CompleteCleanup, TypeOK
<1>11. CASE Terminalize(x)
  <2>1. run[x] \in RunRow  BY <1>11, UsedRows DEF Terminalize
  <2>2. run' \in RunTable
    BY <1>11, <2>1 DEF Terminalize, TypeOK, RunTable, RunRow, Scope
  <2> QED  BY <1>11, <2>2 DEF Terminalize, TypeOK
<1> QED
  BY <1>1, <1>2, <1>3, <1>4, <1>5, <1>6, <1>7, <1>8, <1>9, <1>10, <1>11

LEMMA LaunchType ==
  ASSUME TypeOK, LaunchNext
  PROVE  TypeOK'
<1>1. ASSUME NEW a \in Asg, NEW k \in AttemptKind, EnqueueLaunch(a, k)  PROVE  TypeOK'
  <2>1. PICK l \in Attempt:
          attempt' = [attempt EXCEPT ![l] =
            IF k = "external" THEN Invitation(a) ELSE QueuedAttempt(a, k, 0)]
    BY <1>1 DEF EnqueueLaunch
  <2>2. k \in {"local", "managed", "external"}  BY KindAssumption
  <2>3. attempt' \in AttemptTable
    BY <2>1, <2>2, FreshAttemptType, NewAttemptType
  <2> QED  BY <1>1, <2>3 DEF EnqueueLaunch, TypeOK, lifeVars
<1>2. CASE DaemonRestart
  <2>1. attempt' \in AttemptTable
    <3> SUFFICES ASSUME NEW l \in Attempt
                 PROVE  attempt'[l] \in AttemptRow \cup {NullAttempt}
      BY <1>2 DEF DaemonRestart, AttemptTable
    <3>1. CASE attempt[l].status = "queued" /\ attempt[l].job = "running"
      <4>1. attempt[l] \in AttemptRow  BY <3>1, UsedAttempt
      <4> QED  BY <1>2, <3>1, <4>1 DEF DaemonRestart, AttemptRow, JobStatus
    <3>2. CASE ~(attempt[l].status = "queued" /\ attempt[l].job = "running")
      BY <1>2, <3>2 DEF DaemonRestart, TypeOK, AttemptTable
    <3> QED  BY <3>1, <3>2
  <2> QED  BY <1>2, <2>1 DEF DaemonRestart, TypeOK
<1> QED
  BY <1>1, <1>2, BeginLaunchType, AttemptsType, ScopesType DEF LaunchNext, ReportNext, ConfirmNext, ControlNext

LEMMA TypeStep ==
  ASSUME TypeOK, [SysNext]_vars
  PROVE  TypeOK'
<1>1. CASE UNCHANGED vars  BY <1>1 DEF vars, TypeOK
<1>2. CASE SysNext
  BY <1>2, ClaimsType, ExecutionType, IntakeType, LaunchType DEF SysNext, LifeNext
<1> QED  BY <1>1, <1>2

LEMMA TypeInit == StoreInit => TypeOK
BY InitialStatesAssumption
   DEF StoreInit, TypeOK, TaskTable, AsgTable, RunTable, AttemptTable, TaskState

\* The tables of the store hold rows of their types, whatever the operators,
\* the employees, the launcher and the sweeps do and however many rows there are.
THEOREM TypeCorrect == SysSpec => []TypeOK
BY TypeInit, TypeStep, PTL DEF SysSpec


-----------------------------------------------------------------------------
(* What a step can do to a row: it does not revive an assignment or a run     *)
(* that has ended, and it does not let an assignment skip a phase of its      *)
(* intake.  The last rests on an invariant: reviewers have no intake, and no  *)
(* call of the intake is for one.                                             *)
ReviewersImplement ==
  \A a \in Asg: asg[a].role = "reviewer" => asg[a].phase = "implementing"
CallsAreOfExecutors == \A c \in calls: asg[c[1]].role = "executor"
PhaseInv == TypeOK /\ ReviewersImplement /\ CallsAreOfExecutors

\* what a step makes of a row p of the assignments, except for the two below
RowStep(p, q) ==
  /\ p.status = "none" <=> q.status = "none"
  /\ q.task = p.task /\ q.role = p.role
  /\ p.status \in {"released", "completed"} => q.status = p.status
  /\ q.status = "active" => p.status = "active"
  /\ p.status # "none" =>
       /\ q.phase = "implementing" => p.phase \in {"ready", "implementing"}
       /\ q.phase = "ready" => p.phase # "context_review"
  /\ q.role = "reviewer" => q.phase = "implementing"

\* a is inserted: nothing of its task is left that could still be at work
Appoints(a) ==
  \E t \in Task, g \in Agent, r \in Role, p \in Phase:
    /\ FreshAsg(a)
    /\ asg'[a] = NewAsg(t, g, r, p)
    /\ r = "reviewer" => p = "implementing"
    /\ ~PredecessorRuntimeActive(t) /\ ~CleanupBlocked(t)
    /\ ActiveFor(asg', t, r) = {a}
    /\ UNCHANGED attempt

\* a is taken back by the agent that lost it
Recovers(a) == \E x \in Run: RecoverAssignment(a, x)

\* ... and of a row p of the runs: it never works again once its cleanup is due
PastStatus == {"cleanup_pending", "cancelling"} \cup EndedRunStatus
RunStep(p, q) ==
  /\ p.status = "none" <=> q.status = "none"
  /\ q.asg = p.asg
  /\ p.status \in PastStatus => q.status \in PastStatus
  /\ p.status \in EndedRunStatus => q.status = p.status /\ q.verdict = p.verdict
  /\ q.status = "interrupted" => p.status \in {"running", "paused", "interrupted"}
  /\ q.status = "cleanup_pending" => p.status \in {"interrupted", "cleanup_pending"}

\* a run that holds its assignment stops to do so when its process reports, or it
\* ends together with the assignment
HoldingStatus == {"running", "paused", "cancelling"}
Attended(x) ==
  \E l \in Attempt: attempt[l].status \in ActiveAttemptStatus /\ attempt[l].run = x
MayLeave(x, st) ==
  run[x].status \in HoldingStatus /\ st \notin HoldingStatus =>
    \/ Attended(x)
    \/ st \in EndedRunStatus /\ asg'[run[x].asg].status # "active"

\* a scope is finished when its run has ended and has no process
MayFinish(x, q) ==
  q.scope = "terminal" =>
    \/ run[x].scope = "terminal"
    \/ q.status \in EndedRunStatus /\ ~ProcessActive(x) /\ UNCHANGED attempt

\* a run x that is in use becomes q
Moves(x, q) == RunStep(run[x], q) /\ MayLeave(x, q.status) /\ MayFinish(x, q)

\* x is inserted: no other run works under its assignment, unless it is a run
\* that an invited agent starts
Begins(x) ==
  \E a \in Asg, s \in {"none", "intent"}:
    /\ FreshRun(x)
    /\ run'[x] = NewRun(a, s)
    /\ asg'[a].status = "active"
    /\ \/ asg[a].status = "none"
       \/ LiveRunsOf(a) = {}
       \/ \E l \in Attempt: attempt[l].status = "awaiting_agent"

AsgSteps == \A a \in Asg: RowStep(asg[a], asg'[a]) \/ Appoints(a) \/ Recovers(a)
RunSteps == \A x \in Run: Moves(x, run'[x]) \/ Begins(x)

LEMMA Rows ==
  ASSUME PhaseInv, NEW a \in Asg
  PROVE  /\ asg[a].status # "none" => asg[a] \in AsgRow
         /\ asg[a].status = "none" <=> asg[a] = NullAsg
         /\ asg[a].role = "reviewer" => asg[a].phase = "implementing"
         /\ RowStep(asg[a], asg[a])
<1>1. asg[a] \in AsgRow \cup {NullAsg}
  BY DEF PhaseInv, TypeOK, AsgTable
<1>2. NullAsg.status = "none"
  BY DEF NullAsg
<1>3. \A p \in AsgRow: p.status # "none"
  BY DEF AsgRow, AsgStatus
<1>4. asg[a] = NullAsg => asg[a].phase = "none"
  BY DEF NullAsg
<1>5. asg[a] \in AsgRow => asg[a].phase \in Phase
  BY DEF AsgRow
<1>6. asg[a].status # "none" /\ asg[a].phase = "ready" => asg[a].phase # "context_review"
  OBVIOUS
<1> QED BY <1>1, <1>2, <1>3 DEF RowStep, PhaseInv, ReviewersImplement

\* A row that is in use gets another status.
LEMMA StatusStep ==
  ASSUME NEW p \in AsgRow, NEW st \in AsgStatus \ {"active"}, RowStep(p, p),
         p.status \in {"released", "completed"} => st = p.status
  PROVE  RowStep(p, [p EXCEPT !.status = st])
BY DEF RowStep, AsgRow, AsgStatus

LEMMA SetAsgStep ==
  ASSUME PhaseInv, NEW S, NEW st \in AsgStatus \ {"active"},
         \A a \in S: a \in Asg => asg[a].status \in {"active", "expired"}
  PROVE  \A a \in Asg: RowStep(asg[a], SetAsg(asg, S, st)[a])
<1> SUFFICES ASSUME NEW a \in Asg
             PROVE  RowStep(asg[a], SetAsg(asg, S, st)[a])
  OBVIOUS
<1>1. SetAsg(asg, S, st)[a] = IF a \in S THEN [asg[a] EXCEPT !.status = st] ELSE asg[a]
  BY DEF SetAsg
<1>2. CASE a \in S
  <2>1. asg[a].status \in {"active", "expired"}
    BY <1>2
  <2>2. asg[a] \in AsgRow /\ RowStep(asg[a], asg[a])
    BY <2>1, Rows
  <2> QED BY <1>1, <1>2, <2>1, <2>2, StatusStep
<1>3. CASE a \notin S
  BY <1>1, <1>3, Rows
<1> QED BY <1>2, <1>3

\* An update of one row.
LEMMA OneRow ==
  ASSUME PhaseInv, NEW a \in Asg, NEW q, RowStep(asg[a], q),
         asg' = [asg EXCEPT ![a] = q]
  PROVE  AsgSteps
BY Rows DEF AsgSteps, PhaseInv, TypeOK, AsgTable

\* A new row.
LEMMA NewRow ==
  ASSUME PhaseInv, NEW as, as \in [Asg -> AsgRow \cup {NullAsg}],
         \A b \in Asg: RowStep(asg[b], as[b]), NEW a \in Asg, FreshAsg(a),
         NEW t \in Task, NEW g \in Agent, NEW r \in Role, NEW p \in Phase,
         r = "reviewer" => p = "implementing",
         ~PredecessorRuntimeActive(t), ~CleanupBlocked(t), ActiveFor(as, t, r) = {},
         asg' = [as EXCEPT ![a] = NewAsg(t, g, r, p)], UNCHANGED attempt
  PROVE  AsgSteps
<1>1. asg'[a] = NewAsg(t, g, r, p) /\ \A b \in Asg \ {a}: asg'[b] = as[b]
  OBVIOUS
<1>2. ActiveFor(asg', t, r) = {a}
  BY <1>1 DEF ActiveFor, NewAsg
<1>3. Appoints(a)
  BY <1>1, <1>2 DEF Appoints
<1> QED BY <1>1, <1>3 DEF AsgSteps

LEMMA NewRowHere ==
  ASSUME PhaseInv, NEW a \in Asg, FreshAsg(a),
         NEW t \in Task, NEW g \in Agent, NEW r \in Role, NEW intake \in BOOLEAN,
         CanClaim(asg, t, g, r), UNCHANGED attempt,
         asg' = [asg EXCEPT ![a] = NewAsg(t, g, r, ClaimPhase(r, intake))]
  PROVE  AsgSteps
<1>1. asg \in [Asg -> AsgRow \cup {NullAsg}]
  BY DEF PhaseInv, TypeOK, AsgTable
<1>2. \A b \in Asg: RowStep(asg[b], asg[b])
  BY Rows
<1>3. ClaimPhase(r, intake) \in Phase
      /\ (r = "reviewer" => ClaimPhase(r, intake) = "implementing")
  BY DEF ClaimPhase, Phase
<1>4. ~PredecessorRuntimeActive(t) /\ ~CleanupBlocked(t) /\ ActiveFor(asg, t, r) = {}
  BY DEF CanClaim
<1> QED BY <1>1, <1>2, <1>3, <1>4, NewRow

\* The lease is extended, the phase moves: of an active row at most.
LEMMA ExtendedStep ==
  ASSUME PhaseInv, NEW a \in Asg, asg' = Extended(a)
  PROVE  AsgSteps
<1>1. CASE asg[a].status = "active"
  <2>1. asg[a] \in AsgRow /\ RowStep(asg[a], asg[a])
    BY <1>1, Rows
  <2>2. RowStep(asg[a], [asg[a] EXCEPT !.lapsed = FALSE])
    BY <2>1 DEF RowStep, AsgRow
  <2> QED BY <1>1, <2>2, OneRow DEF Extended
<1>2. CASE asg[a].status # "active"
  BY <1>2, Rows DEF Extended, AsgSteps
<1> QED BY <1>1, <1>2

LEMMA PhaseRow ==
  ASSUME NEW p \in AsgRow, RowStep(p, p), NEW ph \in Phase, NEW lapsed \in BOOLEAN,
         p.role = "reviewer" => ph = "implementing",
         ph = "implementing" => p.phase \in {"ready", "implementing"},
         ph = "ready" => p.phase # "context_review"
  PROVE  /\ RowStep(p, [p EXCEPT !.phase = ph, !.lapsed = lapsed])
         /\ RowStep(p, [p EXCEPT !.phase = ph])
BY DEF RowStep, AsgRow

LEMMA MoveStep ==
  ASSUME PhaseInv, NEW a \in Asg, NEW ph \in {"human_interview", "ready"},
         asg[a].role = "executor", ph = "ready" => asg[a].phase # "context_review",
         MoveToPhase(a, ph)
  PROVE  AsgSteps
<1>1. CASE asg[a].status = "active"
  <2>1. asg[a] \in AsgRow /\ RowStep(asg[a], asg[a])
    BY <1>1, Rows
  <2>2. RowStep(asg[a], [asg[a] EXCEPT !.phase = ph, !.lapsed = FALSE])
    BY <2>1, PhaseRow DEF Phase
  <2> QED BY <1>1, <2>2, OneRow DEF MoveToPhase
<1>2. CASE asg[a].status # "active"
  BY <1>2, Rows DEF MoveToPhase, AsgSteps
<1> QED BY <1>1, <1>2

LEMMA SameAsg ==
  ASSUME PhaseInv, UNCHANGED asg
  PROVE  AsgSteps
BY Rows DEF AsgSteps

LEMMA Unmoved == ASSUME NEW x PROVE Moves(x, run[x])
BY DEF Moves, RunStep, MayLeave, MayFinish

LEMMA SameRun == ASSUME UNCHANGED run PROVE RunSteps
BY Unmoved DEF RunSteps

LEMMA RunColumns ==
  ASSUME PhaseInv, NEW x \in Run, run[x].status # "none"
  PROVE  run[x] \in RunRow
BY DEF PhaseInv, TypeOK, RunTable, NullRun

\* A status that a run which has not ended may get: any that does not put a run
\* to work that waits for its cleanup.
MayBecome(x, st) ==
  /\ run[x].status \in LiveRunStatus
  /\ run[x].status \in PastStatus => st \in PastStatus
  /\ st = "cleanup_pending" => run[x].status = "interrupted"
  /\ MayLeave(x, st)

LEMMA StatusMove ==
  ASSUME PhaseInv, NEW x \in Run,
         NEW st \in {"paused", "cleanup_pending", "cancelling"} \cup EndedRunStatus,
         MayBecome(x, st)
  PROVE  Moves(x, [run[x] EXCEPT !.status = st])
<1>1. run[x] \in RunRow
  BY RunColumns DEF MayBecome, LiveRunStatus
<1>2. RunStep(run[x], [run[x] EXCEPT !.status = st])
  BY <1>1 DEF RunStep, MayBecome, RunRow, LiveRunStatus, EndedRunStatus, PastStatus
<1>3. MayLeave(x, st) /\ MayFinish(x, [run[x] EXCEPT !.status = st])
  BY <1>1 DEF MayBecome, MayFinish, RunRow
<1>4. [run[x] EXCEPT !.status = st].status = st
  BY <1>1 DEF RunRow
<1> QED BY <1>2, <1>3, <1>4 DEF Moves

\* Runs that have not ended get another status.
LEMMA StatusMoves ==
  ASSUME PhaseInv, NEW S,
         NEW st \in {"paused", "cleanup_pending", "cancelling"} \cup EndedRunStatus,
         \A x \in S: x \in Run => MayBecome(x, st)
  PROVE  \A x \in Run: Moves(x, SetRun(run, S, st)[x])
<1> SUFFICES ASSUME NEW x \in Run
             PROVE  Moves(x, SetRun(run, S, st)[x])
  OBVIOUS
<1>1. SetRun(run, S, st)[x] = IF x \in S THEN [run[x] EXCEPT !.status = st] ELSE run[x]
  BY DEF SetRun
<1>2. CASE x \in S
  BY <1>1, <1>2, StatusMove
<1>3. CASE x \notin S
  BY <1>1, <1>3, Unmoved
<1> QED BY <1>2, <1>3

LEMMA SetRunStep ==
  ASSUME PhaseInv, NEW S,
         NEW st \in {"paused", "cleanup_pending", "cancelling"} \cup EndedRunStatus,
         \A x \in S: x \in Run => MayBecome(x, st),
         run' = SetRun(run, S, st)
  PROVE  RunSteps
BY StatusMoves DEF RunSteps

LEMMA OneRun ==
  ASSUME PhaseInv, NEW x \in Run, NEW q, Moves(x, q),
         run' = [run EXCEPT ![x] = q]
  PROVE  RunSteps
<1>1. run'[x] = q /\ \A y \in Run \ {x}: run'[y] = run[y]
  BY DEF PhaseInv, TypeOK, RunTable
<1> QED BY <1>1, Unmoved DEF RunSteps

\* A row of a run gets other columns than its status and scope.
LEMMA ColumnMove ==
  ASSUME NEW x \in Run, NEW q, run[x] \in RunRow,
         q.status = run[x].status, q.asg = run[x].asg, q.scope = run[x].scope,
         run[x].status \in EndedRunStatus => q.verdict = run[x].verdict
  PROVE  Moves(x, q)
BY DEF Moves, RunStep, MayLeave, MayFinish

\* A new run.
LEMMA NewRunStep ==
  ASSUME PhaseInv, NEW rs, rs \in [Run -> RunRow \cup {NullRun}],
         \A y \in Run: Moves(y, rs[y]), NEW x \in Run, FreshRun(x),
         NEW a \in Asg, NEW s \in {"none", "intent"}, asg'[a].status = "active",
         \/ asg[a].status = "none"
         \/ LiveRunsOf(a) = {}
         \/ \E l \in Attempt: attempt[l].status = "awaiting_agent",
         run' = [rs EXCEPT ![x] = NewRun(a, s)]
  PROVE  RunSteps
<1>1. run'[x] = NewRun(a, s) /\ \A y \in Run \ {x}: run'[y] = rs[y]
  OBVIOUS
<1> QED BY <1>1 DEF RunSteps, Begins

LEMMA NewRunHere ==
  ASSUME PhaseInv, NEW x \in Run, FreshRun(x),
         NEW a \in Asg, NEW s \in {"none", "intent"}, asg'[a].status = "active",
         \/ asg[a].status = "none"
         \/ LiveRunsOf(a) = {}
         \/ \E l \in Attempt: attempt[l].status = "awaiting_agent",
         run' = [run EXCEPT ![x] = NewRun(a, s)]
  PROVE  RunSteps
<1>1. run \in [Run -> RunRow \cup {NullRun}]
  BY DEF PhaseInv, TypeOK, RunTable
<1> QED BY <1>1, Unmoved, NewRunStep

-----------------------------------------------------------------------------
(* The steps.                                                                 *)
LEMMA ClaimsSteps ==
  ASSUME PhaseInv, ClaimsNext
  PROVE  AsgSteps /\ RunSteps /\ calls' = calls
<1>1. ASSUME NEW t \in Task, NEW g \in Agent, NEW r \in Role, NEW intake \in BOOLEAN,
             Claim(t, g, r, intake), UNCHANGED attempt
      PROVE  AsgSteps
  BY <1>1, NewRowHere DEF Claim
<1>2. ASSUME NEW t \in Task, NEW g \in Agent, NEW r \in Role, ClaimTask(t, g, r)
      PROVE  AsgSteps /\ RunSteps /\ calls' = calls
  BY <1>2, <1>1, SameRun DEF ClaimTask, launchVars
<1>3. ASSUME NEW t \in Task, NEW g \in Agent, NEW r \in Role, ClaimForExecution(t, g, r)
      PROVE  AsgSteps /\ RunSteps /\ calls' = calls
  <2>1. PICK a \in Asg, x \in Run:
          /\ FreshAsg(a) /\ FreshRun(x)
          /\ asg' = [asg EXCEPT ![a] = NewAsg(t, g, r, ClaimPhase(r, TRUE))]
          /\ run' = [run EXCEPT ![x] = NewRun(a, "none")]
    BY <1>3 DEF ClaimForExecution
  <2>2. AsgSteps
    BY <1>3, <2>1, NewRowHere DEF ClaimForExecution, launchVars
  <2>3. asg'[a].status = "active" /\ asg[a].status = "none"
    BY <2>1 DEF NewAsg, FreshAsg, PhaseInv, TypeOK, AsgTable
  <2>4. RunSteps
    BY <2>1, <2>3, NewRunHere
  <2> QED BY <1>3, <2>2, <2>4 DEF ClaimForExecution
<1>4. ASSUME NEW t \in Task, NEW g \in Agent, NEW r \in Role,
             RequestAssignment(t, g, r) \/ CloseRequest(t, g, r)
      PROVE  AsgSteps /\ RunSteps /\ calls' = calls
  BY <1>4, SameAsg, SameRun DEF RequestAssignment, CloseRequest
<1>5. ASSUME NEW t \in Task, NEW g \in Agent, NEW r \in Role, ApproveRequest(t, g, r)
      PROVE  AsgSteps /\ RunSteps /\ calls' = calls
  BY <1>5, <1>1, SameAsg, SameRun DEF ApproveRequest, launchVars
<1>6. ASSUME NEW t \in Task, NEW g \in Agent, NEW r \in Role, Dispatch(t, g, r)
      PROVE  AsgSteps /\ RunSteps /\ calls' = calls
  <2> DEFINE swept == SetAsg(asg, Stale, "expired")
  <2>1. \A b \in Asg: RowStep(asg[b], swept[b])
    BY SetAsgStep DEF Stale, Lapsed, AsgStatus
  <2>2. swept \in [Asg -> AsgRow \cup {NullAsg}]
    BY SweepType DEF PhaseInv, AsgTable
  <2>3. ClaimPhase(r, TRUE) \in Phase
        /\ (r = "reviewer" => ClaimPhase(r, TRUE) = "implementing")
    BY DEF ClaimPhase, Phase
  <2>4. PICK a \in Asg: FreshAsg(a) /\ asg' = [swept EXCEPT ![a] = NewAsg(t, g, r, ClaimPhase(r, TRUE))]
    BY <1>6 DEF Dispatch
  <2>6. /\ ~PredecessorRuntimeActive(t) /\ ~CleanupBlocked(t)
        /\ ActiveFor(swept, t, r) = {} /\ UNCHANGED attempt
    BY <1>6 DEF Dispatch, Dispatchable, launchVars
  <2> HIDE DEF swept
  <2>5. AsgSteps
    BY <2>1, <2>2, <2>3, <2>4, <2>6, NewRow
  <2> QED BY <1>6, <2>5, SameRun DEF Dispatch
<1>7. ASSUME NEW a \in Asg, LeaseLapses(a)
      PROVE  AsgSteps /\ RunSteps /\ calls' = calls
  <2>1. asg[a] \in AsgRow /\ RowStep(asg[a], asg[a])
    BY <1>7, Rows DEF LeaseLapses, LiveLease
  <2>2. RowStep(asg[a], [asg[a] EXCEPT !.lapsed = TRUE])
    BY <2>1 DEF RowStep, AsgRow
  <2> QED BY <1>7, <2>2, OneRow, SameRun DEF LeaseLapses
<1>8. ASSUME NEW a \in Asg, NEW x \in Run, RecoverAssignment(a, x)
      PROVE  AsgSteps /\ RunSteps /\ calls' = calls
  <2>1. Recovers(a)
    BY <1>8 DEF Recovers
  <2>2. \A b \in Asg \ {a}: asg'[b] = asg[b]
    BY <1>8 DEF RecoverAssignment
  <2>3. AsgSteps
    BY <2>1, <2>2, Rows DEF AsgSteps
  <2> QED BY <1>8, <2>3, SameRun DEF RecoverAssignment
<1>9. CASE ExpireStale
  <2>1. \A b \in Asg: RowStep(asg[b], SetAsg(asg, Stale, "expired")[b])
    BY SetAsgStep DEF Stale, Lapsed, AsgStatus
  <2> QED BY <1>9, <2>1, SameRun DEF ExpireStale, AsgSteps
<1>10. ASSUME NEW t \in Task, NEW m \in AssignmentMode, SetMode(t, m)
       PROVE  AsgSteps /\ RunSteps /\ calls' = calls
  BY <1>10, SameAsg, SameRun DEF SetMode
<1> QED BY <1>2, <1>3, <1>4, <1>5, <1>6, <1>7, <1>8, <1>9, <1>10 DEF ClaimsNext

LEMMA TakeoverSteps ==
  ASSUME PhaseInv, NEW t \in Task, NEW g \in Agent, NEW force \in BOOLEAN,
         Takeover(t, g, force)
  PROVE  AsgSteps /\ RunSteps /\ calls' = calls
<1> DEFINE D == {a \in Asg: /\ asg[a].task = t /\ asg[a].role = "executor"
                            /\ asg[a].status \in ActiveOrExpired}
           dropped == SetAsg(asg, D, "released")
           stopped == SetRun(run, ExecutorRuns(t), "abandoned")
<1>1. PICK a \in Asg, x \in Run:
        /\ FreshAsg(a) /\ FreshRun(x)
        /\ asg' = [dropped EXCEPT ![a] = NewAsg(t, g, "executor", "context_review")]
        /\ run' = [stopped EXCEPT ![x] = NewRun(a, "none")]
  BY DEF Takeover
<1>2. \A b \in Asg: RowStep(asg[b], dropped[b])
  BY SetAsgStep DEF ActiveOrExpired, AsgStatus
<1>3. dropped \in AsgTable
  BY SetAsgType DEF PhaseInv, TypeOK, ActiveOrExpired, AsgStatus
<1>4. "executor" \in Role /\ "context_review" \in Phase
  BY VocabularyAssumption DEF Phase
<1>5. /\ ~PredecessorRuntimeActive(t) /\ ~CleanupBlocked(t)
      /\ ActiveFor(dropped, t, "executor") = {} /\ UNCHANGED attempt
  BY DEF Takeover, CanClaim, launchVars
<1>6. AsgSteps
  <2> HIDE DEF dropped
  <2> QED BY <1>1, <1>2, <1>3, <1>4, <1>5, NewRow DEF AsgTable
<1>7. asg'[a].status = "active" /\ asg[a].status = "none"
      /\ \A b \in Asg \ {a}: asg'[b] = dropped[b]
  <2> HIDE DEF dropped
  <2> QED BY <1>1, <1>3 DEF NewAsg, FreshAsg, AsgTable
<1>8. ASSUME NEW y \in Run, y \in ExecutorRuns(t)
      PROVE  MayBecome(y, "abandoned")
  <2>1. run[y] \in RunRow /\ run[y].status \in {"running", "paused"}
    BY <1>8, RunColumns DEF ExecutorRuns
  <2> DEFINE b == run[y].asg
  <2>2. b \in Asg /\ asg[b].task = t /\ asg[b].role = "executor"
    BY <1>8, <2>1 DEF RunRow, ExecutorRuns, OfTask, RunRole
  <2>3. asg[b].status # "none" /\ b # a
    BY <1>7, <2>2, Rows, NullAssumption DEF NullAsg
  <2>4. dropped[b].status # "active"
    <3>1. CASE b \in D
      BY <2>2, <3>1, Rows DEF SetAsg, ActiveOrExpired, AsgRow
    <3>2. CASE b \notin D
      BY <2>2, <3>2 DEF SetAsg, ActiveOrExpired
    <3> QED BY <3>1, <3>2
  <2> HIDE DEF dropped
  <2>5. MayLeave(y, "abandoned")
    BY <1>7, <2>2, <2>3, <2>4 DEF MayLeave, EndedRunStatus
  <2> QED BY <2>1, <2>5 DEF MayBecome, LiveRunStatus, PastStatus, EndedRunStatus
<1>9. \A y \in Run: Moves(y, stopped[y])
  BY <1>8, StatusMoves DEF EndedRunStatus
<1>10. stopped \in [Run -> RunRow \cup {NullRun}]
  BY SetRunType DEF PhaseInv, TypeOK, RunTable, ExecutorRuns, EndedRunStatus
<1>11. RunSteps
  <2> HIDE DEF stopped, dropped
  <2> QED BY <1>1, <1>7, <1>9, <1>10, NewRunStep
<1> QED BY <1>6, <1>11 DEF Takeover

LEMMA ExecutionSteps ==
  ASSUME PhaseInv, ExecutionNext
  PROVE  AsgSteps /\ RunSteps /\ calls' = calls
<1>1. ASSUME NEW a \in Asg, StartRun(a)
      PROVE  AsgSteps /\ RunSteps /\ calls' = calls
  <2>1. asg[a] \in AsgRow /\ RowStep(asg[a], asg[a])
    BY <1>1, Rows DEF StartRun, LiveLease
  <2>2. asg[a].phase \in {"ready", "implementing"}
    <3>1. asg[a].role \in {"executor", "reviewer"}
      BY <2>1, VocabularyAssumption DEF AsgRow
    <3> QED BY <1>1, <3>1, Rows DEF StartRun, MayStart
  <2>3. RowStep(asg[a], [asg[a] EXCEPT !.phase = "implementing"])
    BY <2>1, <2>2, PhaseRow DEF Phase
  <2>4. AsgSteps
    BY <1>1, <2>3, OneRow DEF StartRun
  <2>5. asg'[a].status = "active"
    BY <1>1, <2>1 DEF StartRun, LiveLease, PhaseInv, TypeOK, AsgTable, AsgRow
  <2>6. RunSteps
    BY <1>1, <2>5, NewRunHere DEF StartRun
  <2> QED BY <1>1, <2>4, <2>6 DEF StartRun
<1>2. ASSUME NEW x \in Run, CompleteRun(x)
      PROVE  AsgSteps /\ RunSteps /\ calls' = calls
  <2>1. \A b \in Asg: RowStep(asg[b], SetAsg(asg, {run[x].asg}, "completed")[b])
    BY <1>2, SetAsgStep DEF CompleteRun, LiveLease, AsgStatus
  <2>2. asg'[run[x].asg].status # "active"
    BY <1>2, UsedRows DEF CompleteRun, LiveLease, SetAsg, AsgRow, PhaseInv
  <2>3. MayBecome(x, "completed")
    BY <1>2, <2>2 DEF CompleteRun, MayBecome, MayLeave, LiveRunStatus, EndedRunStatus, PastStatus
  <2>4. RunSteps
    BY <1>2, <2>3, SetRunStep DEF CompleteRun, EndedRunStatus
  <2> QED BY <1>2, <2>1, <2>4 DEF CompleteRun, AsgSteps
<1>3. ASSUME NEW x \in Run, CreateHandoff(x)
      PROVE  AsgSteps /\ RunSteps /\ calls' = calls
  <2> DEFINE S == {y \in Run: run[y].asg = run[x].asg
                              /\ run[y].status \in {"running", "paused"}}
  <2>1. \A b \in Asg: RowStep(asg[b], SetAsg(asg, {run[x].asg}, "released")[b])
    BY <1>3, SetAsgStep DEF CreateHandoff, LiveLease, AsgStatus
  <2>2. asg'[run[x].asg].status # "active"
    BY <1>3, UsedRows DEF CreateHandoff, LiveLease, SetAsg, AsgRow, PhaseInv
  <2>3. \A y \in S: MayBecome(y, "handed_off")
    BY <2>2 DEF MayBecome, MayLeave, LiveRunStatus, EndedRunStatus, PastStatus
  <2>4. run' = SetRun(run, S, "handed_off")
    BY <1>3 DEF CreateHandoff
  <2> HIDE DEF S
  <2>5. RunSteps
    BY <2>3, <2>4, SetRunStep DEF EndedRunStatus
  <2> QED BY <1>3, <2>1, <2>5 DEF CreateHandoff, AsgSteps
<1>4. ASSUME NEW x \in Run, CancelManagedRun(x)
      PROVE  AsgSteps /\ RunSteps /\ calls' = calls
  <2>1. MayBecome(x, "cancelling")
    BY <1>4
       DEF CancelManagedRun, MayBecome, MayLeave, HoldingStatus, LiveRunStatus, PastStatus
  <2> QED BY <1>4, <2>1, SameAsg, SetRunStep DEF CancelManagedRun
<1>5. ASSUME NEW x \in Run, CancelReviewerRun(x)
      PROVE  AsgSteps /\ RunSteps /\ calls' = calls
  <2>1. \A b \in Asg: RowStep(asg[b],
          SetAsg(asg, {c \in {run[x].asg}: asg[c].status = "active"}, "released")[b])
    BY SetAsgStep DEF AsgStatus
  <2>2. run[x].asg \in Asg
    BY <1>5, UsedRows DEF CancelReviewerRun, PhaseInv
  <2>3. asg'[run[x].asg].status # "active"
    BY <1>5, <2>2, UsedRows DEF CancelReviewerRun, SetAsg, AsgRow, PhaseInv
  <2>4. MayBecome(x, "cancelled")
    BY <1>5, <2>3
       DEF CancelReviewerRun, MayBecome, MayLeave, LiveRunStatus, EndedRunStatus, PastStatus
  <2>5. RunSteps
    BY <1>5, <2>4, SetRunStep DEF CancelReviewerRun, EndedRunStatus
  <2> QED BY <1>5, <2>1, <2>5 DEF CancelReviewerRun, AsgSteps
<1>6. ASSUME NEW t \in Task, CancelTask(t)
      PROVE  AsgSteps /\ RunSteps /\ calls' = calls
  <2>1. \A b \in Asg: RowStep(asg[b],
          SetAsg(asg, {a \in Asg: asg[a].task = t /\ asg[a].status = "active"}, "released")[b])
    BY SetAsgStep DEF AsgStatus
  <2>2. RunSteps
    <3> SUFFICES ASSUME NEW x \in Run  PROVE Moves(x, run'[x])
      BY DEF RunSteps
    <3>1. CASE ~(OfTask(x, t) /\ run[x].status \in LiveRunStatus)
      BY <1>6, <3>1, Unmoved DEF CancelTask
    <3>2. CASE OfTask(x, t) /\ run[x].status \in LiveRunStatus
      <4> DEFINE st == CancelStatus(x)
      <4>1. run'[x] = [run[x] EXCEPT !.status = st]
        BY <1>6, <3>2 DEF CancelTask
      <4>2. run[x].asg \in Asg /\ asg[run[x].asg].task = t
        BY <3>2, UsedRows DEF OfTask, PhaseInv
      <4>3. asg'[run[x].asg].status # "active"
        BY <1>6, <4>2, UsedRows DEF CancelTask, SetAsg, AsgRow, PhaseInv
      <4>4. st \in {"cancelled", "cancelling"}
        BY DEF CancelStatus
      <4>5. MayBecome(x, st)
        BY <3>2, <4>3, <4>4
           DEF MayBecome, MayLeave, HoldingStatus, PastStatus, EndedRunStatus
      <4> HIDE DEF st
      <4> QED BY <4>1, <4>4, <4>5, StatusMove DEF EndedRunStatus
    <3> QED BY <3>1, <3>2
  <2> QED BY <1>6, <2>1, <2>2 DEF CancelTask, AsgSteps
<1>7. ASSUME NEW t \in Task, ReopenTask(t)
      PROVE  AsgSteps /\ RunSteps /\ calls' = calls
  BY <1>7, SameAsg, SameRun DEF ReopenTask, launchVars
<1>8. ASSUME NEW y \in Run, NEW x \in Run, NEW v \in Verdict, SubmitReview(y, x, v)
      PROVE  AsgSteps /\ RunSteps /\ calls' = calls
  <2>1. run[x] \in RunRow /\ run[x].status \in {"running", "paused"}
    BY <1>8, RunColumns DEF SubmitReview
  <2>2. Moves(x, [run[x] EXCEPT !.verdict = v])
    BY <2>1, ColumnMove DEF RunRow, EndedRunStatus
  <2> QED BY <1>8, <2>2, SameAsg, OneRun DEF SubmitReview
<1> QED BY <1>1, <1>2, <1>3, <1>4, <1>5, <1>6, <1>7, <1>8, TakeoverSteps
  DEF ExecutionNext

\* The calls of the intake are for executors, whatever they found when they began.
LEMMA IntakeSteps ==
  ASSUME PhaseInv, IntakeNext
  PROVE  AsgSteps /\ RunSteps /\ \A c \in calls': asg[c[1]].role = "executor"
<1> DEFINE P == AsgSteps /\ RunSteps /\ \A c \in calls': asg[c[1]].role = "executor"
<1>1. \A c \in calls: asg[c[1]].role = "executor"
  BY DEF PhaseInv, CallsAreOfExecutors
<1>2. ASSUME NEW a \in Asg, NEW op \in IntakeOp, IntakeDone(a, op)
      PROVE  /\ RunSteps /\ asg[a].role = "executor"
             /\ \A c \in calls': asg[c[1]].role = "executor"
  BY <1>1, <1>2, SameRun DEF IntakeDone
<1>3. ASSUME NEW a \in Asg, NEW op \in IntakeOp, IntakeCheck(a, op)
      PROVE  P
  BY <1>1, <1>3, SameAsg, SameRun DEF IntakeCheck
<1>4. ASSUME NEW a \in Asg, NEW op \in IntakeOp, IntakeRefused(a, op)
      PROVE  P
  BY <1>2, <1>4, SameAsg DEF IntakeRefused
<1>5. ASSUME NEW a \in Asg, IntakeRead(a)
      PROVE  P
  <2>1. RunSteps /\ asg[a].role = "executor" /\ \A c \in calls': asg[c[1]].role = "executor"
    BY <1>2, <1>5 DEF IntakeRead, IntakeOp
  <2>2. CASE asg[a].status = "active"
    <3>1. asg[a] \in AsgRow /\ RowStep(asg[a], asg[a])
      BY <2>2, Rows
    <3>2. RowStep(asg[a], [asg[a] EXCEPT !.phase = "context_review"])
      BY <2>1, <3>1, PhaseRow DEF Phase
    <3> QED BY <1>5, <2>1, <2>2, <3>2, OneRow DEF IntakeRead
  <2>3. CASE asg[a].status # "active"
    BY <1>5, <2>1, <2>3, SameAsg DEF IntakeRead
  <2> QED BY <2>2, <2>3
<1>6. ASSUME NEW a \in Asg, StartInterview(a) \/ FinalizeInterview(a)
      PROVE  P
  <2>1. RunSteps /\ asg[a].role = "executor" /\ \A c \in calls': asg[c[1]].role = "executor"
    BY <1>2, <1>6 DEF StartInterview, FinalizeInterview, IntakeOp
  <2> QED BY <1>6, <2>1, MoveStep DEF StartInterview, FinalizeInterview
<1>7. ASSUME NEW a \in Asg, BeginExecution(a)
      PROVE  P
  <2>1. RunSteps /\ \A c \in calls': asg[c[1]].role = "executor"
    BY <1>2, <1>7 DEF BeginExecution, IntakeOp
  <2>2. asg[a].status = "active" /\ asg[a].phase = "ready"
    BY <1>7 DEF BeginExecution
  <2>3. asg[a] \in AsgRow /\ RowStep(asg[a], asg[a])
    BY <2>2, Rows
  <2>4. RowStep(asg[a], [asg[a] EXCEPT !.phase = "implementing"])
    BY <2>2, <2>3, PhaseRow DEF Phase
  <2> QED BY <1>7, <2>1, <2>4, OneRow DEF BeginExecution
<1>8. ASSUME NEW a \in Asg, HumanMessage(a) \/ AgentReply(a)
      PROVE  P
  <2>1. asg[a].status = "active" /\ asg[a].phase # "implementing"
    BY <1>8 DEF HumanMessage, AgentReply
  <2>2. asg[a] \in AsgRow /\ asg[a].role # "reviewer"
    BY <2>1, Rows
  <2>3. asg[a].role = "executor"
    BY <2>2, VocabularyAssumption DEF AsgRow
  <2>4. MoveToPhase(a, "human_interview") /\ UNCHANGED <<run, calls>>
    BY <1>8 DEF HumanMessage, AgentReply
  <2> QED BY <1>1, <2>3, <2>4, MoveStep, SameRun
<1>9. ASSUME NEW t \in Task, ReassignProject(t)
      PROVE  P
  <2>1. ASSUME NEW a \in Asg
        PROVE  RowStep(asg[a], asg'[a])
    <3>1. CASE a \in ActiveFor(asg, t, "executor")
      <4>1. asg[a].status = "active" /\ asg[a].role = "executor"
        BY <3>1 DEF ActiveFor
      <4>2. asg[a] \in AsgRow /\ RowStep(asg[a], asg[a])
        BY <4>1, Rows
      <4>3. asg'[a] = [asg[a] EXCEPT !.phase = "context_review"]
        BY <1>9, <3>1 DEF ReassignProject
      <4> QED BY <4>1, <4>2, <4>3, PhaseRow DEF Phase
    <3>2. CASE a \notin ActiveFor(asg, t, "executor")
      BY <1>9, <3>2, Rows DEF ReassignProject
    <3> QED BY <3>1, <3>2
  <2> QED BY <1>1, <1>9, <2>1, SameRun DEF ReassignProject, AsgSteps
<1> HIDE DEF P
<1>10. P
  BY <1>3, <1>4, <1>5, <1>6, <1>7, <1>8, <1>9 DEF IntakeNext
<1> QED BY <1>10 DEF P

-----------------------------------------------------------------------------
LEMMA ReleaseLauncherStep ==
  ASSUME PhaseInv, NEW a \in Asg, ReleaseLauncher(a)
  PROVE  AsgSteps
<1>1. \A b \in Asg: RowStep(asg[b],
        SetAsg(asg, {c \in {a}: asg[c].status = "active"}, "released")[b])
  BY SetAsgStep DEF AsgStatus
<1> QED BY <1>1 DEF ReleaseLauncher, AsgSteps

\* The exit of a process ends its run, or interrupts or pauses it, if the run has
\* not ended otherwise.
LEMMA FinishSteps ==
  ASSUME PhaseInv, NEW l \in Attempt, NEW success \in BOOLEAN, Finish(l, success)
  PROVE  AsgSteps /\ RunSteps /\ calls' = calls
<1> DEFINE a == attempt[l].asg
           x == attempt[l].run
<1>1. a \in Asg /\ x \in Run \cup {0}
  BY UsedAttempt DEF Finish, ActiveAttemptStatus, PhaseInv
<1>2. Exited(x) => x \in Run /\ run[x].status \in {"running", "paused"}
  BY <1>1 DEF Exited
<1>3. calls' = calls
  BY DEF Finish
<1>4. asg' = Extended(a) \/ ReleaseLauncher(a) \/ UNCHANGED asg
  BY DEF Finish
<1>5. AsgSteps
  BY <1>1, <1>4, ExtendedStep, ReleaseLauncherStep, SameAsg
<1>6. \/ \E st \in {"completed", "failed", "paused"}:
           Exited(x) /\ run' = SetRun(run, {x}, st)
      \/ \E w \in Window: /\ Exited(x)
                           /\ run' = [run EXCEPT ![x] =
                                [@ EXCEPT !.status = "interrupted", !.window = w]]
      \/ UNCHANGED run
  BY DEF Finish, Window
<1>7. Exited(x) => Attended(x)
  BY DEF Attended, Finish
<1>8. RunSteps
  <2>1. ASSUME NEW st \in {"completed", "failed", "paused"},
               Exited(x), run' = SetRun(run, {x}, st)
        PROVE  RunSteps
    <3>1. MayBecome(x, st)
      BY <1>2, <1>7, <2>1 DEF MayBecome, MayLeave, LiveRunStatus, EndedRunStatus, PastStatus
    <3> QED BY <2>1, <3>1, SetRunStep DEF EndedRunStatus
  <2>2. ASSUME NEW w \in Window, Exited(x),
               run' = [run EXCEPT ![x] = [@ EXCEPT !.status = "interrupted", !.window = w]]
        PROVE  RunSteps
    <3> DEFINE q == [run[x] EXCEPT !.status = "interrupted", !.window = w]
    <3>1. run[x] \in RunRow  BY <1>2, <2>2, RunColumns
    <3>2. RunStep(run[x], q)
      BY <1>2, <2>2, <3>1 DEF RunStep, RunRow, PastStatus, EndedRunStatus
    <3>3. MayLeave(x, q.status) /\ MayFinish(x, q)
      BY <1>7, <2>2, <3>1 DEF MayLeave, MayFinish, RunRow
    <3> QED BY <1>2, <2>2, <3>2, <3>3, OneRun DEF Moves
  <2> QED BY <1>6, <2>1, <2>2, SameRun
<1> QED BY <1>3, <1>5, <1>8

LEMMA BeginLaunchSteps ==
  ASSUME PhaseInv, NEW l \in Attempt, NEW x \in Run, BeginLaunch(l, x)
  PROVE  AsgSteps /\ RunSteps /\ calls' = calls
<1> DEFINE a == attempt[l].asg
           phase == IF asg[a].phase = "ready" THEN "implementing" ELSE asg[a].phase
<1>1. a \in Asg
  BY UsedAttempt DEF BeginLaunch, PhaseInv
<1>2. asg[a] \in AsgRow /\ RowStep(asg[a], asg[a])
  BY <1>1, Rows DEF BeginLaunch, LiveLease
<1>3. /\ phase \in Phase /\ phase # "ready"
      /\ asg[a].role = "reviewer" => phase = "implementing"
      /\ phase = "implementing" => asg[a].phase \in {"ready", "implementing"}
  BY <1>1, <1>2, Rows DEF AsgRow, Phase
<1>4. RowStep(asg[a], [asg[a] EXCEPT !.phase = phase])
  BY <1>2, <1>3, PhaseRow
<1>5. AsgSteps
  BY <1>1, <1>4, OneRow DEF BeginLaunch
<1>6. asg'[a].status = "active"
  BY <1>1, <1>2 DEF BeginLaunch, LiveLease, PhaseInv, TypeOK, AsgTable, AsgRow
<1>7. ASSUME NEW s \in LaunchScope(attempt[l].kind, phase), FreshRun(x),
             attempt[l].restart = 0, run' = [run EXCEPT ![x] = NewRun(a, s)]
      PROVE  RunSteps
  <2>1. LiveRunsOf(a) = {}
    BY <1>7 DEF BeginLaunch, LiveRunsOf, Run
  <2> QED BY <1>1, <1>6, <1>7, <2>1, NewRunHere DEF LaunchScope
<1>8. ASSUME run[x].status = "interrupted",
             run' = [run EXCEPT ![x] = [@ EXCEPT !.status = "running", !.window = "none"]]
      PROVE  RunSteps
  <2> DEFINE q == [run[x] EXCEPT !.status = "running", !.window = "none"]
  <2>1. run[x] \in RunRow  BY <1>8, RunColumns
  <2>2. RunStep(run[x], q)
    BY <1>8, <2>1 DEF RunStep, RunRow, PastStatus, EndedRunStatus
  <2>3. MayLeave(x, q.status) /\ MayFinish(x, q)
    BY <1>8, <2>1 DEF MayLeave, MayFinish, RunRow, HoldingStatus
  <2> QED BY <1>8, <2>2, <2>3, OneRun DEF Moves
<1>9. RunSteps
  BY <1>7, <1>8 DEF BeginLaunch
<1> QED BY <1>5, <1>9 DEF BeginLaunch

LEMMA LaunchSteps ==
  ASSUME PhaseInv, LaunchNext
  PROVE  AsgSteps /\ RunSteps /\ calls' \subseteq calls
<1> DEFINE P == AsgSteps /\ RunSteps /\ calls' \subseteq calls
<1>1. ASSUME NEW l \in Attempt, MarkRunning(l) \/ ClaimLaunchJob(l) \/ RetireExternal(l)
      PROVE  P
  BY <1>1, SameAsg, SameRun DEF MarkRunning, ClaimLaunchJob, RetireExternal, lifeVars
<1>2. ASSUME NEW l \in Attempt,
             (\E success \in BOOLEAN: FinishLaunch(l, success)) \/ CompleteExternal(l)
      PROVE  P
  BY <1>2, FinishSteps DEF FinishLaunch, CompleteExternal
<1>3. ASSUME NEW l \in Attempt, FailExternal(l)
      PROVE  P
  BY <1>3, FinishSteps, SameAsg, SameRun DEF FailExternal, lifeVars
<1>4. ASSUME NEW l \in Attempt, NEW x \in Run, BeginLaunch(l, x)
      PROVE  P
  BY <1>4, BeginLaunchSteps
<1>5. ASSUME NEW l \in Attempt, StopLaunch(l)
      PROVE  P
  <2>1. attempt[l].asg \in Asg
    BY <1>5, UsedAttempt DEF StopLaunch, ActiveAttemptStatus, PhaseInv
  <2>2. AsgSteps
    BY <1>5, <2>1, ReleaseLauncherStep DEF StopLaunch
  <2>3. RunSteps
    BY <1>5, SetRunStep
       DEF StopLaunch, LiveRunStatus, HoldingStatus, PastStatus, EndedRunStatus,
           MayBecome, MayLeave
  <2> QED BY <1>5, <2>2, <2>3 DEF StopLaunch
<1>6. ASSUME NEW l \in Attempt, AcceptExternal(l)
      PROVE  P
  <2>1. attempt[l].asg \in Asg
    BY <1>6, UsedAttempt DEF AcceptExternal, PhaseInv
  <2>2. RunSteps
    BY <1>6, <2>1, NewRunHere DEF AcceptExternal, LiveLease
  <2> QED BY <1>6, <2>2, SameAsg DEF AcceptExternal
<1>7. ASSUME NEW a \in Asg, NEW k \in AttemptKind, EnqueueLaunch(a, k)
      PROVE  P
  BY <1>7, SameAsg, SameRun DEF EnqueueLaunch, lifeVars
<1>8. ASSUME NEW x \in Run, ProvisionStart(x) \/ ProvisionFails(x) \/ RestartRun(x)
      PROVE  P
  BY <1>8, SameAsg, SameRun DEF ProvisionStart, ProvisionFails, RestartRun, lifeVars
<1>9. ASSUME NEW x \in Run,
             \/ Bind(x) \/ JobTerminal(x) \/ WindowCloses(x) \/ Terminalize(x)
             \/ \E status \in {"pending", "ready"}: RegisterWait(x, status)
      PROVE  P
  <2>1. AsgSteps /\ calls' = calls
    BY <1>9, SameAsg DEF Bind, JobTerminal, WindowCloses, Terminalize, RegisterWait
  <2>2. run[x] \in RunRow \/ run[x] = NullRun
    BY DEF PhaseInv, TypeOK, RunTable
  <2>3. UNCHANGED run \/ run[x] \in RunRow
    BY <1>9, <2>2 DEF Bind, JobTerminal, WindowCloses, Terminalize, RegisterWait, NullRun
  <2>4. ASSUME Terminalize(x)  PROVE RunSteps
    <3> DEFINE q == [run[x] EXCEPT !.scope = "terminal"]
    <3>1. run[x] \in RunRow
      BY <2>3, <2>4, RunColumns DEF Terminalize
    <3>2. RunStep(run[x], q) /\ MayLeave(x, q.status)
      BY <3>1 DEF RunStep, RunRow, MayLeave
    <3>3. MayFinish(x, q)
      BY <2>4, <3>1 DEF MayFinish, Terminalize, RunRow, EndedRunStatus, launchVars
    <3> QED BY <2>4, <3>2, <3>3, OneRun DEF Moves, Terminalize
  <2>5. ASSUME Bind(x), run[x].scope \in {"none", "intent"}  PROVE RunSteps
    <3> DEFINE q == [run[x] EXCEPT !.scope = "bound"]
    <3>1. run[x] \in RunRow
      BY <2>5, RunColumns DEF Bind
    <3>2. RunStep(run[x], q) /\ MayLeave(x, q.status) /\ MayFinish(x, q)
      BY <3>1 DEF RunStep, RunRow, MayLeave, MayFinish
    <3> QED BY <2>5, <3>2, OneRun DEF Moves, Bind
  <2>6. ASSUME \/ JobTerminal(x) \/ WindowCloses(x)
               \/ \E status \in {"pending", "ready"}: RegisterWait(x, status)
        PROVE  RunSteps
    <3>1. run[x] \in RunRow
      BY <2>2, <2>6 DEF JobTerminal, WindowCloses, RegisterWait, NullRun
    <3>2. \E w: \/ run' = [run EXCEPT ![x] = [@ EXCEPT !.wait = w]]
                \/ run' = [run EXCEPT ![x] = [@ EXCEPT !.window = w]]
      BY <2>6 DEF JobTerminal, WindowCloses, RegisterWait
    <3>3. \A w: /\ Moves(x, [run[x] EXCEPT !.wait = w])
                /\ Moves(x, [run[x] EXCEPT !.window = w])
      BY <3>1, ColumnMove DEF RunRow
    <3> QED BY <3>2, <3>3, OneRun
  <2>7. Bind(x) /\ run[x].scope \notin {"none", "intent"} => RunSteps
    BY SameRun DEF Bind
  <2> QED BY <1>9, <2>1, <2>4, <2>5, <2>6, <2>7
<1>10. ASSUME NEW x \in Run, ResumeWait(x)
       PROVE  P
  <2>1. run[x] \in RunRow /\ run[x].asg \in Asg
    BY <1>10, RunColumns DEF ResumeWait, RunRow
  <2> DEFINE q == [run[x] EXCEPT !.window = "open", !.wait = "none", !.queued = TRUE]
  <2>0. /\ q.status = run[x].status /\ q.asg = run[x].asg
        /\ q.scope = run[x].scope /\ q.verdict = run[x].verdict
    BY <2>1 DEF RunRow
  <2>2. Moves(x, q)
    BY <2>0, <2>1, ColumnMove
  <2>3. RunSteps
    BY <1>10, <2>2, OneRun DEF ResumeWait
  <2> QED BY <1>10, <2>1, <2>3, ExtendedStep DEF ResumeWait
<1>11. ASSUME NEW x \in Run, RenewInterrupted(x)
       PROVE  P
  <2>1. run[x].asg \in Asg
    BY <1>11, RunColumns DEF RenewInterrupted, RunRow
  <2> QED BY <1>11, <2>1, ExtendedStep, SameRun DEF RenewInterrupted
<1>12. ASSUME NEW x \in Run, BeginExpiredCleanup(x) \/ CompleteCleanup(x)
       PROVE  P
  <2>1. ASSUME BeginExpiredCleanup(x)  PROVE RunSteps
    <3>1. MayBecome(x, "cleanup_pending")
      BY <2>1 DEF BeginExpiredCleanup, MayBecome, MayLeave, HoldingStatus, LiveRunStatus,
                  PastStatus, EndedRunStatus
    <3> QED BY <2>1, <3>1, SetRunStep DEF BeginExpiredCleanup
  <2>2. ASSUME CompleteCleanup(x)  PROVE RunSteps
    <3> DEFINE st == IF run[x].status = "cancelling" THEN "cancelled" ELSE "failed"
               q == [run[x] EXCEPT !.status = st, !.scope = "terminal"]
    <3>1. run[x] \in RunRow /\ run[x].status \in {"cleanup_pending", "cancelling"}
      BY <2>2, RunColumns DEF CompleteCleanup, CleaningStatus
    <3>2. RunStep(run[x], q)
      BY <3>1 DEF RunStep, RunRow, PastStatus, EndedRunStatus
    <3>3. asg'[run[x].asg].status # "active"
      BY <2>2, <3>1, UsedRows DEF CompleteCleanup, SetAsg, RunRow, AsgRow, PhaseInv
    <3>4. MayLeave(x, q.status)
      BY <3>1, <3>3 DEF MayLeave, RunRow, EndedRunStatus
    <3>5. MayFinish(x, q)
      BY <2>2, <3>1 DEF MayFinish, CompleteCleanup, RunRow, EndedRunStatus, launchVars
    <3> QED BY <2>2, <3>2, <3>4, <3>5, OneRun DEF CompleteCleanup, Moves
  <2>3. \A b \in Asg: RowStep(asg[b],
          SetAsg(asg, {c \in {run[x].asg}: asg[c].status = "active"}, "released")[b])
    BY SetAsgStep DEF AsgStatus
  <2> QED BY <1>12, <2>1, <2>2, <2>3 DEF BeginExpiredCleanup, CompleteCleanup, AsgSteps
<1>13. ASSUME DaemonRestart PROVE P
  BY <1>13, SameAsg, SameRun DEF DaemonRestart
<1> HIDE DEF P
<1>14. ASSUME ReportNext \/ ConfirmNext PROVE P
  BY <1>1, <1>2, <1>9, <1>12, <1>14 DEF ReportNext, ConfirmNext
<1>15. ASSUME ControlNext PROVE P
  BY <1>1, <1>2, <1>3, <1>4, <1>5, <1>6, <1>7, <1>8, <1>9, <1>10, <1>11, <1>12, <1>15
  DEF ControlNext
<1>16. P
  BY <1>13, <1>14, <1>15 DEF LaunchNext
<1> QED BY <1>16 DEF P

-----------------------------------------------------------------------------
LEMMA AnyStep ==
  ASSUME PhaseInv, [SysNext]_vars
  PROVE  AsgSteps /\ RunSteps /\ \A c \in calls': asg[c[1]].role = "executor"
<1>1. \A c \in calls: asg[c[1]].role = "executor"
  BY DEF PhaseInv, CallsAreOfExecutors
<1>2. CASE UNCHANGED vars
  BY <1>1, <1>2, SameAsg, SameRun DEF vars
<1>3. CASE SysNext
  BY <1>1, <1>3, ClaimsSteps, ExecutionSteps, IntakeSteps, LaunchSteps
  DEF SysNext, LifeNext
<1> QED BY <1>2, <1>3

\* What a recovery makes of the row.
LEMMA RecoveredRow ==
  ASSUME PhaseInv, NEW a \in Asg, Recovers(a)
  PROVE  /\ asg[a] \in AsgRow /\ asg[a].role = "executor"
         /\ asg[a].status \in {"active", "expired"}
         /\ asg'[a] = [asg[a] EXCEPT !.status = "active", !.lapsed = FALSE]
         /\ asg'[a].role = "executor" /\ asg'[a].task = asg[a].task
         /\ asg'[a].status = "active"
         /\ ActiveFor(asg, asg[a].task, "executor") \subseteq {a}
         /\ UNCHANGED <<task, run, attempt>>
<1>1. PICK x \in Run: RecoverAssignment(a, x)
  BY DEF Recovers
<1>2. asg[a].status \in {"active", "expired"}
  BY <1>1 DEF RecoverAssignment, Recoverable, Lapsed
<1>3. asg[a] \in AsgRow
  BY <1>2, Rows
<1>4. asg'[a] = [asg[a] EXCEPT !.status = "active", !.lapsed = FALSE]
  BY <1>1, <1>3 DEF RecoverAssignment, PhaseInv, TypeOK, AsgTable
<1>5. /\ asg[a].role = "executor" /\ UNCHANGED <<task, run, attempt>>
      /\ ActiveFor(asg, asg[a].task, "executor") \subseteq {a}
  BY <1>1 DEF RecoverAssignment, launchVars
<1>6. asg'[a].role = asg[a].role /\ asg'[a].task = asg[a].task /\ asg'[a].status = "active"
  BY <1>3, <1>4 DEF AsgRow
<1> QED BY <1>2, <1>3, <1>4, <1>5, <1>6

\* The status of a row once its assignment or run has ended, and the phases.
LEMMA RowsKeep ==
  ASSUME PhaseInv, [SysNext]_vars
  PROVE  /\ \A a \in Asg: asg[a].status \in {"released", "completed"} =>
                 asg'[a].status = asg[a].status
         /\ \A x \in Run: run[x].status \in EndedRunStatus =>
                 run'[x].status = run[x].status
         /\ \A a \in Asg: asg[a].status # "none" =>
              /\ asg'[a].phase = "implementing" => asg[a].phase \in {"ready", "implementing"}
              /\ asg'[a].phase = "ready" => asg[a].phase # "context_review"
<1>1. AsgSteps /\ RunSteps
  BY AnyStep
<1>2. ASSUME NEW a \in Asg, asg[a].status # "none"
      PROVE  /\ asg[a].status \in {"released", "completed"} => asg'[a].status = asg[a].status
             /\ asg'[a].phase = "implementing" => asg[a].phase \in {"ready", "implementing"}
             /\ asg'[a].phase = "ready" => asg[a].phase # "context_review"
  <2>1. CASE RowStep(asg[a], asg'[a])
    BY <1>2, <2>1 DEF RowStep
  <2>2. CASE Appoints(a)
    BY <1>2, <2>2 DEF Appoints, FreshAsg
  <2>3. CASE Recovers(a)
    BY <2>3, RecoveredRow DEF AsgRow
  <2> QED BY <1>1, <2>1, <2>2, <2>3 DEF AsgSteps
<1>3. ASSUME NEW x \in Run, run[x].status \in EndedRunStatus
      PROVE  run'[x].status = run[x].status
  <2>1. ~Begins(x)
    BY <1>3 DEF Begins, FreshRun, EndedRunStatus
  <2> QED BY <1>1, <1>3, <2>1 DEF RunSteps, Moves, RunStep
<1> QED BY <1>2, <1>3

\* The invariant is inductive with the types: a reviewer is created implementing,
\* and an executor that a call in flight names does not become one.
LEMMA PhaseStep ==
  ASSUME PhaseInv, [SysNext]_vars
  PROVE  PhaseInv'
<1> USE DEF PhaseInv
<1>0. TypeOK'
  BY TypeStep
<1>1. AsgSteps /\ \A c \in calls': asg[c[1]].role = "executor"
  BY AnyStep
<1>2. ReviewersImplement'
  <2> SUFFICES ASSUME NEW a \in Asg, asg'[a].role = "reviewer"
               PROVE  asg'[a].phase = "implementing"
    BY DEF ReviewersImplement
  <2>1. CASE RowStep(asg[a], asg'[a])
    BY <2>1 DEF RowStep
  <2>2. CASE Appoints(a)
    BY <2>2 DEF Appoints, NewAsg
  <2>3. CASE Recovers(a)
    BY <2>3, RecoveredRow
  <2> QED BY <1>1, <2>1, <2>2, <2>3 DEF AsgSteps
<1>3. CallsAreOfExecutors'
  <2> SUFFICES ASSUME NEW c \in calls'
               PROVE  asg'[c[1]].role = "executor"
    BY DEF CallsAreOfExecutors
  <2>1. c[1] \in Asg
    BY <1>0 DEF TypeOK
  <2>2. asg[c[1]].role = "executor"
    BY <1>1
  <2>3. asg[c[1]].status # "none"
    BY <2>1, <2>2, Rows DEF NullAsg
  <2>4. Recovers(c[1]) => asg'[c[1]].role = "executor"
    BY <2>1, <2>2, RecoveredRow
  <2>5. ~Appoints(c[1])
    BY <2>3 DEF Appoints, FreshAsg
  <2> QED BY <1>1, <2>1, <2>2, <2>4, <2>5 DEF AsgSteps, RowStep
<1> QED BY <1>0, <1>2, <1>3

LEMMA PhaseInit == StoreInit => PhaseInv
BY TypeInit DEF PhaseInv, StoreInit, ReviewersImplement, CallsAreOfExecutors, NullAsg

LEMMA PhaseInvariant == SysSpec => []PhaseInv
BY PhaseInit, PhaseStep, PTL DEF SysSpec

\* An assignment that was released or completed is never revived, by recovery,
\* extension, intake or launcher, however late they come.
THEOREM EndedAssignments == SysSpec => EndedAssignmentsStayEnded
<1>1. PhaseInv /\ [SysNext]_vars =>
        [\A a \in Asg: asg[a].status \in {"released", "completed"} =>
           asg'[a].status = asg[a].status]_vars
  BY RowsKeep
<1> QED BY <1>1, PhaseInvariant, PTL DEF SysSpec, EndedAssignmentsStayEnded

\* A run that ended keeps its outcome, whatever exit, sweep or cancel is reported
\* for it afterwards.
THEOREM EndedRuns == SysSpec => EndedRunsStayEnded
<1>1. PhaseInv /\ [SysNext]_vars =>
        [\A x \in Run: run[x].status \in EndedRunStatus =>
           run'[x].status = run[x].status]_vars
  BY RowsKeep
<1> QED BY <1>1, PhaseInvariant, PTL DEF SysSpec, EndedRunsStayEnded

\* No call in flight and no launch lets an assignment skip a phase of its intake.
THEOREM IntakeInOrder == SysSpec => PhasesInOrder
<1>1. PhaseInv /\ [SysNext]_vars =>
        [\A a \in Asg:
           asg[a].status # "none" =>
             /\ asg'[a].phase = "implementing" => asg[a].phase \in {"ready", "implementing"}
             /\ asg'[a].phase = "ready" => asg[a].phase # "context_review"]_vars
  BY RowsKeep
<1> QED BY <1>1, PhaseInvariant, PTL DEF SysSpec, PhasesInOrder

-----------------------------------------------------------------------------
\* Losing the monitor of a process is not seen in the tables: with monitors that
\* fail and a daemon that starts again the system still does what Morrows says,
\* so every invariant of SysSpec holds there too (monitor_remote_agent,
\* recover_remote_launch_monitors).
THEOREM MonitorsImplementSystem == MonitorSpec => SysSpec
<1>1. [MonitorNext]_monitorVars => [SysNext]_vars
  BY DEF MonitorNext, monitorVars, MonitorLost, WatchedReport, MonitoredRestart,
     SysNext, LaunchNext, ReportNext
<1> QED BY <1>1, PTL DEF MonitorSpec, SysSpec
=============================================================================
