--------------------------- MODULE OwnershipProofs --------------------------
(* Who owns a task, proved for every number of tasks, agents and rows: the    *)
(* invariants OneActivePerRole, DoneHasNoExecutor and CancelledIsQuiet hold   *)
(* together, and CancelledIsFinal rests on them.                              *)
EXTENDS MorrowsProofs

OwnershipInv ==
  /\ TypeOK
  /\ OneActivePerRole
  /\ DoneHasNoExecutor
  /\ CancelledIsQuiet

\* the runs that can act on their task
WorkingStatus == {"running", "paused", "interrupted"}

CancelStays ==
  \A t \in Task: task[t].state = "cancelled" => task'[t].state = "cancelled"

\* no task is finished or cancelled by the step
NoTaskEnds ==
  \A t \in Task: task'[t].state \in {"done", "cancelled"} =>
    task'[t].state = task[t].state

\* the assignment a' is active only if a is, for the same task and role
Shrinks(a) ==
  /\ asg'[a].task = asg[a].task
  /\ asg'[a].status = "active" => asg[a].status = "active" /\ asg'[a].role = asg[a].role

\* no new run works, except under the assignments in S
NoNewWork(S) ==
  \A x \in Run: run'[x].status \in WorkingStatus =>
    \/ run[x].status \in WorkingStatus /\ run'[x].asg = run[x].asg
    \/ run'[x].asg \in S

\* Most steps end rows or edit them in place.
Steady ==
  /\ CancelStays
  /\ NoTaskEnds
  /\ \A a \in Asg: Shrinks(a)
  /\ NoNewWork({a \in Asg: LiveLease(a)})
  /\ requests' \subseteq requests

\* The others make one assignment active, for an open task that has none.
Acquires(a) ==
  /\ CancelStays
  /\ NoTaskEnds
  /\ asg'[a].task \in Task /\ Open(asg'[a].task)
  /\ \A b \in Asg \ {a}:
       /\ Shrinks(b)
       /\ ~(/\ asg'[b].status = "active"
            /\ asg'[b].task = asg'[a].task /\ asg'[b].role = asg'[a].role)
  /\ NoNewWork({a})
  /\ requests' \subseteq requests

-----------------------------------------------------------------------------
\* Both kinds of step keep the invariant.
LEMMA SteadyKeeps ==
  ASSUME OwnershipInv, Steady
  PROVE  OneActivePerRole' /\ DoneHasNoExecutor' /\ CancelledIsQuiet'
<1> USE DEF OwnershipInv, Steady
<1>1. OneActivePerRole'
  BY DEF OneActivePerRole, Shrinks
<1>2. DoneHasNoExecutor'
  BY DEF DoneHasNoExecutor, ActiveFor, NoTaskEnds, Shrinks
<1>3. CancelledIsQuiet'
  <2> SUFFICES ASSUME NEW t \in Task, task'[t].state = "cancelled"
               PROVE  /\ \A a \in Asg: asg'[a].task = t => asg'[a].status # "active"
                      /\ \A x \in Run: OfTask(x, t)' /\ run'[x].status \in LiveRunStatus =>
                           run'[x].status \in {"cancelling", "cleanup_pending"}
                      /\ \A q \in requests': q[1] # t
    BY DEF CancelledIsQuiet
  <2>1. task[t].state = "cancelled"  BY DEF NoTaskEnds
  <2>2. \A a \in Asg: asg[a].task = t => asg[a].status # "active"
    BY <2>1 DEF CancelledIsQuiet
  <2>3. \A a \in Asg: asg'[a].task = t => asg'[a].status # "active"
    BY <2>2 DEF Shrinks
  <2>4. ASSUME NEW x \in Run, OfTask(x, t)', run'[x].status \in LiveRunStatus
        PROVE  run'[x].status \in {"cancelling", "cleanup_pending"}
    <3> SUFFICES ASSUME run'[x].status \in WorkingStatus  PROVE FALSE
      BY <2>4 DEF LiveRunStatus, WorkingStatus
    <3>1. CASE run[x].status \in WorkingStatus /\ run'[x].asg = run[x].asg
      <4>1. run[x].status # "none" /\ run[x].status \in LiveRunStatus
        BY <3>1 DEF WorkingStatus, LiveRunStatus
      <4>2. run[x].asg \in Asg  BY <4>1, UsedRows
      <4>3. asg[run[x].asg].task = t  BY <2>4, <3>1, <4>2 DEF OfTask, Shrinks
      <4>4. OfTask(x, t)  BY <4>1, <4>3 DEF OfTask
      <4> QED  BY <2>1, <3>1, <4>1, <4>4 DEF CancelledIsQuiet, WorkingStatus
    <3>2. CASE run'[x].asg \in {a \in Asg: LiveLease(a)}
      <4>1. asg[run'[x].asg].task = t  BY <2>4, <3>2 DEF OfTask, Shrinks
      <4> QED  BY <2>2, <3>2, <4>1 DEF LiveLease
    <3> QED  BY <3>1, <3>2 DEF NoNewWork
  <2>5. \A q \in requests': q[1] # t  BY <2>1 DEF CancelledIsQuiet
  <2> QED  BY <2>3, <2>4, <2>5
<1> QED  BY <1>1, <1>2, <1>3

LEMMA AcquiresKeeps ==
  ASSUME OwnershipInv, NEW a \in Asg, Acquires(a)
  PROVE  OneActivePerRole' /\ DoneHasNoExecutor' /\ CancelledIsQuiet'
<1> USE DEF OwnershipInv, Acquires
<1>1. OneActivePerRole'
  BY DEF OneActivePerRole, Shrinks
<1>2. DoneHasNoExecutor'
  BY DEF DoneHasNoExecutor, ActiveFor, NoTaskEnds, Shrinks, Open
<1>3. CancelledIsQuiet'
  <2> SUFFICES ASSUME NEW t \in Task, task'[t].state = "cancelled"
               PROVE  /\ \A b \in Asg: asg'[b].task = t => asg'[b].status # "active"
                      /\ \A x \in Run: OfTask(x, t)' /\ run'[x].status \in LiveRunStatus =>
                           run'[x].status \in {"cancelling", "cleanup_pending"}
                      /\ \A q \in requests': q[1] # t
    BY DEF CancelledIsQuiet
  <2>1. task[t].state = "cancelled" /\ asg'[a].task # t
    BY DEF NoTaskEnds, Open
  <2>2. \A b \in Asg: asg'[b].task = t => asg'[b].status # "active"
    BY <2>1 DEF CancelledIsQuiet, Shrinks
  <2>3. ASSUME NEW x \in Run, OfTask(x, t)', run'[x].status \in LiveRunStatus
        PROVE  run'[x].status \in {"cancelling", "cleanup_pending"}
    <3> SUFFICES ASSUME run'[x].status \in WorkingStatus  PROVE FALSE
      BY <2>3 DEF LiveRunStatus, WorkingStatus
    <3>1. CASE run[x].status \in WorkingStatus /\ run'[x].asg = run[x].asg
      <4>1. run[x].status # "none" /\ run[x].status \in LiveRunStatus
        BY <3>1 DEF WorkingStatus, LiveRunStatus
      <4>2. run[x].asg \in Asg \ {a}  BY <2>1, <2>3, <3>1, <4>1, UsedRows DEF OfTask
      <4>3. asg[run[x].asg].task = t  BY <2>3, <3>1, <4>2 DEF OfTask, Shrinks
      <4>4. OfTask(x, t)  BY <4>1, <4>3 DEF OfTask
      <4> QED  BY <2>1, <3>1, <4>1, <4>4 DEF CancelledIsQuiet, WorkingStatus
    <3>2. CASE run'[x].asg \in {a}
      BY <2>1, <2>3, <3>2 DEF OfTask
    <3> QED  BY <3>1, <3>2 DEF NoNewWork
  <2>4. \A q \in requests': q[1] # t  BY <2>1 DEF CancelledIsQuiet
  <2> QED  BY <2>2, <2>3, <2>4
<1> QED  BY <1>1, <1>2, <1>3

-----------------------------------------------------------------------------
(* The updates that steady steps are made of.                                 *)
\* An assignment is ended by an update of its status, whatever else is.
LEMMA SetAsgShrinks ==
  ASSUME TypeOK, NEW S, NEW st \in AsgStatus \ {"active"}, NEW a \in Asg,
         asg'[a] = SetAsg(asg, S, st)[a]
  PROVE  Shrinks(a)
<1>1. asg'[a] = IF a \in S THEN [asg[a] EXCEPT !.status = st] ELSE asg[a]
  BY DEF SetAsg
<1>2. asg[a] \in AsgRow \cup {NullAsg}  BY DEF TypeOK, AsgTable
<1>3. CASE asg[a] \in AsgRow  BY <1>1, <1>3 DEF AsgRow, Shrinks
<1>4. CASE asg[a] = NullAsg  BY <1>1, <1>4 DEF NullAsg, Shrinks
<1> QED  BY <1>2, <1>3, <1>4

LEMMA ExtendedShrinks ==
  ASSUME TypeOK, NEW b \in Asg, asg' = Extended(b)
  PROVE  \A a \in Asg: Shrinks(a)
<1>1. asg[b].status = "active" => asg[b] \in AsgRow  BY UsedRows
<1> QED  BY <1>1 DEF Extended, Shrinks, TypeOK, AsgTable, AsgRow

LEMMA MoveToPhaseShrinks ==
  ASSUME TypeOK, NEW b \in Asg, NEW p \in Phase, MoveToPhase(b, p)
  PROVE  \A a \in Asg: Shrinks(a)
<1>1. asg[b].status = "active" => asg[b] \in AsgRow  BY UsedRows
<1> QED  BY <1>1 DEF MoveToPhase, Shrinks, TypeOK, AsgTable, AsgRow

\* Runs that do not work afterwards and runs that are left alone.
LEMMA SetRunNoNewWork ==
  ASSUME TypeOK, NEW S,
         NEW st \in (LiveRunStatus \cup EndedRunStatus) \ WorkingStatus,
         run' = SetRun(run, S, st), NEW T
  PROVE  NoNewWork(T)
<1> SUFFICES ASSUME NEW x \in Run, run'[x].status \in WorkingStatus
             PROVE  run[x].status \in WorkingStatus /\ run'[x].asg = run[x].asg
  BY DEF NoNewWork
<1>1. run'[x] = IF x \in S THEN [run[x] EXCEPT !.status = st] ELSE run[x]
  BY DEF SetRun
<1>2. run[x] \in RunRow \cup {NullRun}  BY DEF TypeOK, RunTable
<1>3. CASE run[x] \in RunRow  BY <1>1, <1>3 DEF RunRow
<1>4. CASE run[x] = NullRun  BY <1>1, <1>4 DEF NullRun
<1> QED  BY <1>2, <1>3, <1>4

LEMMA SameRuns ==
  ASSUME run' = run, NEW S  PROVE NoNewWork(S)
BY DEF NoNewWork

\* A new run works under the assignment it is inserted for.
LEMMA NewRunWork ==
  ASSUME TypeOK, NEW x \in Run, NEW a \in Asg, NEW s,
         run' = [run EXCEPT ![x] = NewRun(a, s)], NEW S, a \in S
  PROVE  NoNewWork(S)
BY DEF NoNewWork, NewRun, TypeOK, RunTable

\* A task that is not done or cancelled is moved to another open state.
LEMMA SetTaskQuiet ==
  ASSUME TypeOK, NEW t, NEW st \in TaskState \ {"done", "cancelled"},
         task' = SetTask(task, t, st), t \in Task => task[t].state # "cancelled"
  PROVE  CancelStays /\ NoTaskEnds
BY DEF CancelStays, NoTaskEnds, SetTask, TypeOK, TaskTable

LEMMA SameTasks ==
  ASSUME task' = task  PROVE CancelStays /\ NoTaskEnds
BY DEF CancelStays, NoTaskEnds

LEMMA RequeuedQuiet ==
  ASSUME TypeOK, NEW t, NEW as, task' = Requeued(as, t)
  PROVE  CancelStays /\ NoTaskEnds
<1>1. CASE task' = task  BY <1>1, SameTasks
<1>2. CASE task' # task
  <2>1. task[t].state = "in_progress" /\ task' = SetTask(task, t, "ready")
    BY <1>2 DEF Requeued
  <2> QED  BY <2>1, SetTaskQuiet DEF TaskState
<1> QED  BY <1>1, <1>2

LEMMA ReleaseLauncherQuiet ==
  ASSUME TypeOK, NEW a \in Asg, ReleaseLauncher(a)
  PROVE  CancelStays /\ NoTaskEnds /\ \A b \in Asg: Shrinks(b)
<1>1. \A b \in Asg: Shrinks(b)
  BY SetAsgShrinks DEF ReleaseLauncher, AsgStatus
<1>2. CASE task' = task  BY <1>1, <1>2, SameTasks
<1>3. CASE task' # task
  <2>1. /\ task[asg[a].task].state = "in_progress"
        /\ task' = SetTask(task, asg[a].task, "ready")
    BY <1>3 DEF ReleaseLauncher
  <2> QED  BY <1>1, <2>1, SetTaskQuiet DEF TaskState
<1> QED  BY <1>2, <1>3

-----------------------------------------------------------------------------
(* The steps of Claims.                                                       *)
LEMMA ClaimAcquires ==
  ASSUME TypeOK, NEW t \in Task, NEW g \in Agent, NEW r \in Role,
         NEW p \in Phase, NEW a \in Asg, FreshAsg(a),
         CanClaim(asg, t, g, r), asg' = [asg EXCEPT ![a] = NewAsg(t, g, r, p)],
         task' = ClaimedTask(task, t, r), requests' \subseteq requests,
         NoNewWork({a})
  PROVE  Acquires(a)
<1>1. asg'[a] = NewAsg(t, g, r, p) /\ \A b \in Asg \ {a}: asg'[b] = asg[b]
  BY DEF TypeOK, AsgTable
<1>2. asg'[a].task = t /\ asg'[a].role = r  BY <1>1 DEF NewAsg
<1>3. Open(t) /\ ActiveFor(asg, t, r) = {}  BY DEF CanClaim
<1>4. CancelStays /\ NoTaskEnds
  <2>1. CASE task' = task  BY <2>1, SameTasks
  <2>2. CASE task' # task
    <3>1. task[t].state = "ready" /\ task' = SetTask(task, t, "in_progress")
      BY <2>2 DEF ClaimedTask
    <3> QED  BY <3>1, SetTaskQuiet DEF TaskState
  <2> QED  BY <2>1, <2>2
<1>5. \A b \in Asg \ {a}:
        /\ Shrinks(b)
        /\ ~(asg'[b].status = "active" /\ asg'[b].task = t /\ asg'[b].role = r)
  BY <1>1, <1>3 DEF ActiveFor, Shrinks
<1> QED  BY <1>2, <1>3, <1>4, <1>5 DEF Acquires

\* What every lemma about one action concludes.
Preserved == OneActivePerRole' /\ DoneHasNoExecutor' /\ CancelledIsQuiet' /\ CancelStays

LEMMA SteadyIsKept ==
  ASSUME OwnershipInv, Steady  PROVE Preserved
BY SteadyKeeps DEF Preserved, Steady

LEMMA AcquiresIsKept ==
  ASSUME OwnershipInv, NEW a \in Asg, Acquires(a)  PROVE Preserved
BY AcquiresKeeps DEF Preserved, Acquires

LEMMA ClaimKept ==
  ASSUME OwnershipInv, NEW t \in Task, NEW g \in Agent, NEW r \in Role,
         NEW intake \in BOOLEAN, Claim(t, g, r, intake), run' = run,
         requests' \subseteq requests
  PROVE  Preserved
<1>1. PICK a \in Asg:
        /\ FreshAsg(a)
        /\ asg' = [asg EXCEPT ![a] = NewAsg(t, g, r, ClaimPhase(r, intake))]
  BY DEF Claim
<1>2. ClaimPhase(r, intake) \in Phase  BY DEF ClaimPhase, Phase
<1>3. Acquires(a)
  BY <1>1, <1>2, SameRuns, ClaimAcquires DEF Claim, OwnershipInv
<1> QED  BY <1>3, AcquiresIsKept

\* A step that changes neither tasks, assignments nor runs.
LEMMA AsideKept ==
  ASSUME OwnershipInv, UNCHANGED <<task, asg, run>>, requests' \subseteq requests
  PROVE  Preserved
<1>1. \A a \in Asg: Shrinks(a)  BY DEF Shrinks
<1> QED  BY <1>1, SameTasks, SameRuns, SteadyIsKept DEF Steady

LEMMA ClaimForExecutionKept ==
  ASSUME OwnershipInv, NEW t \in Task, NEW g \in Agent, NEW r \in Role,
         ClaimForExecution(t, g, r)
  PROVE  Preserved
<1> USE DEF OwnershipInv
<1>1. PICK a \in Asg, x \in Run:
        /\ FreshAsg(a)
        /\ asg' = [asg EXCEPT ![a] = NewAsg(t, g, r, ClaimPhase(r, TRUE))]
        /\ run' = [run EXCEPT ![x] = NewRun(a, "none")]
  BY DEF ClaimForExecution
<1>2. ClaimPhase(r, TRUE) \in Phase  BY DEF ClaimPhase, Phase
<1>3. NoNewWork({a})  BY <1>1, NewRunWork
<1>4. Acquires(a)
  BY <1>1, <1>2, <1>3, ClaimAcquires DEF ClaimForExecution
<1> QED  BY <1>4, AcquiresIsKept

LEMMA DispatchKept ==
  ASSUME OwnershipInv, NEW t \in Task, NEW g \in Agent, NEW r \in Role,
         Dispatch(t, g, r)
  PROVE  Preserved
<1> DEFINE swept == SetAsg(asg, Stale, "expired")
<1> USE DEF OwnershipInv
<1>1. PICK a \in Asg:
        asg' = [swept EXCEPT ![a] = NewAsg(t, g, r, ClaimPhase(r, TRUE))]
  BY DEF Dispatch
<1>2. asg'[a] = NewAsg(t, g, r, ClaimPhase(r, TRUE))
      /\ \A b \in Asg \ {a}: asg'[b] = swept[b]
  <2>1. swept \in AsgTable  BY SweepType
  <2> QED  BY <1>1, <2>1 DEF AsgTable
<1>3. asg'[a].task = t /\ asg'[a].role = r  BY <1>2 DEF NewAsg
<1>4. \A b \in Asg \ {a}: Shrinks(b)
  BY <1>2, SetAsgShrinks DEF AsgStatus
<1>5. \A b \in Asg \ {a}:
        ~(asg'[b].status = "active" /\ asg'[b].task = t /\ asg'[b].role = r)
  <2>1. ActiveFor(swept, t, r) = {}  BY DEF Dispatch, Dispatchable
  <2> QED  BY <1>2, <2>1 DEF ActiveFor
<1>6. CancelStays /\ NoTaskEnds /\ Open(t)
  <2>1. task[t].state \in {"ready", "in_progress"}  BY DEF Dispatch, Dispatchable
  <2>2. task' = task \/ task' = SetTask(task, t, "in_progress")  BY DEF Dispatch
  <2> QED  BY <2>1, <2>2, SameTasks, SetTaskQuiet DEF Open, TaskState
<1>7. Acquires(a)
  BY <1>3, <1>4, <1>5, <1>6, SameRuns DEF Acquires, Dispatch
<1> QED  BY <1>7, AcquiresIsKept

LEMMA ClaimsKept ==
  ASSUME OwnershipInv, ClaimsNext
  PROVE  Preserved
<1> USE DEF OwnershipInv, launchVars
<1>1. ASSUME NEW t \in Task, NEW g \in Agent, NEW r \in Role,
             ClaimTask(t, g, r) \/ ApproveRequest(t, g, r)
      PROVE  Preserved
  <2>1. CASE ClaimTask(t, g, r)  BY <2>1, ClaimKept DEF ClaimTask
  <2>2. CASE ApproveRequest(t, g, r)
    <3>1. UNCHANGED <<task, asg>> \/ Claim(t, g, r, TRUE)  BY <2>2 DEF ApproveRequest
    <3> QED  BY <2>2, <3>1, ClaimKept, AsideKept DEF ApproveRequest
  <2> QED  BY <1>1, <2>1, <2>2
<1>2. ASSUME NEW t \in Task, NEW g \in Agent, NEW r \in Role,
             RequestAssignment(t, g, r)
      PROVE  Preserved
  <2>1. \A u \in Task: task[u].state = "cancelled" => u # t
    BY <1>2 DEF RequestAssignment, Open
  <2>2. OneActivePerRole' /\ DoneHasNoExecutor'
    BY <1>2 DEF RequestAssignment, OneActivePerRole, DoneHasNoExecutor, ActiveFor
  <2>3. CancelledIsQuiet'
    BY <1>2, <2>1 DEF RequestAssignment, CancelledIsQuiet, OfTask
  <2> QED  BY <1>2, <2>2, <2>3, SameTasks DEF RequestAssignment, Preserved
<1>3. ASSUME NEW t \in Task, NEW g \in Agent, NEW r \in Role, CloseRequest(t, g, r)
      PROVE  Preserved
  BY <1>3, AsideKept DEF CloseRequest
<1>4. ASSUME NEW a \in Asg, LeaseLapses(a)  PROVE  Preserved
  <2>1. asg[a] \in AsgRow  BY <1>4, UsedRows DEF LeaseLapses, LiveLease
  <2>2. \A b \in Asg: Shrinks(b)
    BY <1>4, <2>1 DEF LeaseLapses, Shrinks, TypeOK, AsgTable, AsgRow
  <2> QED  BY <1>4, <2>2, SameTasks, SameRuns, SteadyIsKept DEF LeaseLapses, Steady
<1>5. CASE ExpireStale
  <2>1. \A b \in Asg: Shrinks(b)  BY <1>5, SetAsgShrinks DEF ExpireStale, AsgStatus
  <2> QED  BY <1>5, <2>1, SameTasks, SameRuns, SteadyIsKept DEF ExpireStale, Steady
<1>6. ASSUME NEW a \in Asg, NEW x \in Run, RecoverAssignment(a, x)  PROVE  Preserved
  <2>1. asg[a] \in AsgRow
    BY <1>6, UsedRows DEF RecoverAssignment, Recoverable, Lapsed
  <2>2. /\ asg'[a].task = asg[a].task /\ asg'[a].role = "executor"
        /\ \A b \in Asg \ {a}: asg'[b] = asg[b]
    BY <1>6, <2>1 DEF RecoverAssignment, TypeOK, AsgTable, AsgRow
  <2>3. asg[a].task \in Task /\ Open(asg[a].task)
    BY <1>6, <2>1 DEF RecoverAssignment, AsgRow, Open
  <2>4. \A b \in Asg \ {a}:
          /\ Shrinks(b)
          /\ ~(/\ asg'[b].status = "active" /\ asg'[b].task = asg[a].task
               /\ asg'[b].role = "executor")
    BY <1>6, <2>2 DEF RecoverAssignment, ActiveFor, Shrinks
  <2>5. Acquires(a)
    BY <1>6, <2>2, <2>3, <2>4, SameTasks, SameRuns DEF RecoverAssignment, Acquires
  <2> QED  BY <2>5, AcquiresIsKept
<1>7. ASSUME NEW t \in Task, NEW m \in AssignmentMode, SetMode(t, m)  PROVE  Preserved
  <2>1. \A u \in Task: task'[u].state = task[u].state
    BY <1>7 DEF SetMode, TypeOK, TaskTable
  <2>2. \A a \in Asg: Shrinks(a)  BY <1>7 DEF SetMode, Shrinks
  <2> QED
    BY <1>7, <2>1, <2>2, SameRuns, SteadyIsKept
       DEF SetMode, Steady, CancelStays, NoTaskEnds
<1> QED
  BY <1>1, <1>2, <1>3, <1>4, <1>5, <1>6, <1>7, ClaimForExecutionKept, DispatchKept
     DEF ClaimsNext

-----------------------------------------------------------------------------
(* The steps of Execution.                                                    *)
\* complete_run is the one step that finishes a task: the executor that it
\* completes was the only one.
LEMMA CompleteRunKept ==
  ASSUME OwnershipInv, NEW x \in Run, CompleteRun(x)
  PROVE  Preserved
<1> DEFINE a == run[x].asg
<1> DEFINE t == asg[a].task
<1> USE DEF OwnershipInv
<1>1. a \in Asg /\ LiveLease(a) /\ asg[a] \in AsgRow
  BY UsedRows DEF CompleteRun, LiveLease
<1>2. t \in Task  BY <1>1 DEF AsgRow
<1>3. \A b \in Asg: Shrinks(b)  BY SetAsgShrinks DEF CompleteRun, AsgStatus
<1>4. NoNewWork({b \in Asg: LiveLease(b)})
  BY SetRunNoNewWork DEF CompleteRun, EndedRunStatus, WorkingStatus
<1>5. CASE asg[a].role # "executor"
  <2>1. task' = task  BY <1>5 DEF CompleteRun
  <2> QED
    BY <1>3, <1>4, <2>1, SameTasks, SteadyIsKept DEF CompleteRun, Steady
<1>6. CASE asg[a].role = "executor"
  <2>1. task' = SetTask(task, t, "done") /\ Open(t)  BY <1>6 DEF CompleteRun
  <2>2. \A u \in Task: task'[u].state = IF u = t THEN "done" ELSE task[u].state
    BY <1>2, <2>1 DEF SetTask, TypeOK, TaskTable
  <2>3. CancelStays  BY <2>1, <2>2 DEF CancelStays, Open
  <2>4. OneActivePerRole'
    BY <1>3 DEF OneActivePerRole, Shrinks
  <2>5. asg'[a].status = "completed"
    BY <1>1 DEF CompleteRun, SetAsg, AsgRow
  <2>6. DoneHasNoExecutor'
    <3> SUFFICES ASSUME NEW u \in Task, task'[u].state = "done",
                        NEW b \in Asg, asg'[b].status = "active",
                        asg'[b].task = u, asg'[b].role = "executor"
                 PROVE  FALSE
      BY DEF DoneHasNoExecutor, ActiveFor
    <3>1. asg[b].status = "active" /\ asg[b].task = u /\ asg[b].role = "executor"
      BY <1>3 DEF Shrinks
    <3>2. CASE u = t
      <4>1. b = a  BY <1>1, <1>6, <3>1, <3>2 DEF OneActivePerRole, LiveLease
      <4> QED  BY <2>5, <4>1
    <3>3. CASE u # t
      BY <2>2, <3>1, <3>3 DEF DoneHasNoExecutor, ActiveFor
    <3> QED  BY <3>2, <3>3
  <2>7. CancelledIsQuiet'
    <3> SUFFICES ASSUME NEW u \in Task, task'[u].state = "cancelled"
                 PROVE  /\ \A b \in Asg: asg'[b].task = u => asg'[b].status # "active"
                        /\ \A y \in Run:
                             OfTask(y, u)' /\ run'[y].status \in LiveRunStatus =>
                               run'[y].status \in {"cancelling", "cleanup_pending"}
                        /\ \A q \in requests': q[1] # u
      BY DEF CancelledIsQuiet
    <3>1. task[u].state = "cancelled"  BY <2>2
    <3>2. \A b \in Asg: asg'[b].task = u => asg'[b].status # "active"
      BY <1>3, <3>1 DEF CancelledIsQuiet, Shrinks
    <3>3. ASSUME NEW y \in Run, OfTask(y, u)', run'[y].status \in LiveRunStatus
          PROVE  run'[y].status \in {"cancelling", "cleanup_pending"}
      <4>1. y # x
        BY <3>3, UsedRows DEF CompleteRun, SetRun, LiveRunStatus, RunRow
      <4>2. run'[y] = run[y]  BY <4>1 DEF CompleteRun, SetRun
      <4>3. run[y].status # "none" /\ run[y].asg \in Asg
        BY <3>3, <4>2, UsedRows DEF LiveRunStatus
      <4>4. OfTask(y, u)  BY <1>3, <3>3, <4>2, <4>3 DEF OfTask, Shrinks
      <4> QED  BY <3>1, <3>3, <4>2, <4>4 DEF CancelledIsQuiet
    <3>4. \A q \in requests': q[1] # u  BY <3>1 DEF CompleteRun, CancelledIsQuiet
    <3> QED  BY <3>2, <3>3, <3>4
  <2> QED  BY <2>3, <2>4, <2>6, <2>7 DEF Preserved
<1> QED  BY <1>5, <1>6

\* cancel_task is the one step that cancels: it leaves nothing behind.
LEMMA CancelTaskKept ==
  ASSUME OwnershipInv, NEW t \in Task, CancelTask(t)
  PROVE  Preserved
<1> USE DEF OwnershipInv
<1>1. \A u \in Task: task'[u].state = IF u = t THEN "cancelled" ELSE task[u].state
  BY DEF CancelTask, SetTask, TypeOK, TaskTable
<1>2. \A a \in Asg: Shrinks(a)  BY SetAsgShrinks DEF CancelTask, AsgStatus
<1>3. \A a \in Asg: asg'[a].task = t => asg'[a].status # "active"
  <2> SUFFICES ASSUME NEW a \in Asg, asg'[a].task = t, asg'[a].status = "active"
               PROVE  FALSE
    OBVIOUS
  <2>1. asg[a].task = t /\ asg[a].status = "active"  BY <1>2 DEF Shrinks
  <2>2. asg[a] \in AsgRow  BY <2>1, UsedRows
  <2>3. asg'[a] = [asg[a] EXCEPT !.status = "released"]
    BY <2>1 DEF CancelTask, SetAsg
  <2> QED  BY <2>2, <2>3 DEF AsgRow
<1>4. \A y \in Run: OfTask(y, t)' /\ run'[y].status \in LiveRunStatus =>
        run'[y].status \in {"cancelling", "cleanup_pending"}
  <2> SUFFICES ASSUME NEW y \in Run, OfTask(y, t)', run'[y].status \in LiveRunStatus
               PROVE  run'[y].status = "cancelling"
    OBVIOUS
  <2>1. CASE OfTask(y, t) /\ run[y].status \in LiveRunStatus
    <3>1. run'[y] = [run[y] EXCEPT !.status = CancelStatus(y)]
      BY <2>1 DEF CancelTask
    <3>2. run[y] \in RunRow  BY <2>1, UsedRows DEF LiveRunStatus
    <3>3. run'[y].status = CancelStatus(y)  BY <3>1, <3>2 DEF RunRow
    <3> QED  BY <3>3 DEF CancelStatus, LiveRunStatus
  <2>2. CASE ~(OfTask(y, t) /\ run[y].status \in LiveRunStatus)
    <3>1. run'[y] = run[y]  BY <2>2 DEF CancelTask
    <3>2. run[y].status # "none" /\ run[y].asg \in Asg
      BY <3>1, UsedRows DEF LiveRunStatus
    <3>3. OfTask(y, t)  BY <1>2, <3>1, <3>2 DEF OfTask, Shrinks
    <3> QED  BY <2>2, <3>1, <3>3
  <2> QED  BY <2>1, <2>2
<1>5. OneActivePerRole'  BY <1>2 DEF OneActivePerRole, Shrinks
<1>6. DoneHasNoExecutor'  BY <1>1, <1>2 DEF DoneHasNoExecutor, ActiveFor, Shrinks
<1>7. CancelledIsQuiet'
  <2> SUFFICES ASSUME NEW u \in Task, task'[u].state = "cancelled", u # t
               PROVE  /\ \A a \in Asg: asg'[a].task = u => asg'[a].status # "active"
                      /\ \A y \in Run:
                           OfTask(y, u)' /\ run'[y].status \in LiveRunStatus =>
                             run'[y].status \in {"cancelling", "cleanup_pending"}
                      /\ \A q \in requests': q[1] # u
    BY <1>3, <1>4 DEF CancelledIsQuiet, CancelTask
  <2>1. task[u].state = "cancelled"  BY <1>1
  <2>2. \A a \in Asg: asg'[a].task = u => asg'[a].status # "active"
    BY <1>2, <2>1 DEF CancelledIsQuiet, Shrinks
  <2>3. ASSUME NEW y \in Run, OfTask(y, u)', run'[y].status \in LiveRunStatus
        PROVE  run'[y].status \in {"cancelling", "cleanup_pending"}
    <3>1. CASE OfTask(y, t) /\ run[y].status \in LiveRunStatus
      <4>1. run'[y] = [run[y] EXCEPT !.status = CancelStatus(y)]
        BY <3>1 DEF CancelTask
      <4>2. run[y] \in RunRow  BY <3>1, UsedRows DEF LiveRunStatus
      <4>3. run'[y].status = CancelStatus(y)  BY <4>1, <4>2 DEF RunRow
      <4> QED  BY <2>3, <4>3 DEF CancelStatus, LiveRunStatus
    <3>2. CASE ~(OfTask(y, t) /\ run[y].status \in LiveRunStatus)
      <4>1. run'[y] = run[y]  BY <3>2 DEF CancelTask
      <4>2. run[y].status # "none" /\ run[y].asg \in Asg
        BY <2>3, <4>1, UsedRows DEF LiveRunStatus
      <4>3. OfTask(y, u)  BY <1>2, <2>3, <4>1, <4>2 DEF OfTask, Shrinks
      <4> QED  BY <2>1, <2>3, <4>1, <4>3 DEF CancelledIsQuiet
    <3> QED  BY <3>1, <3>2
  <2>4. \A q \in requests': q[1] # u  BY <2>1 DEF CancelTask, CancelledIsQuiet
  <2> QED  BY <2>2, <2>3, <2>4
<1> QED  BY <1>1, <1>5, <1>6, <1>7 DEF Preserved, CancelStays

LEMMA TakeoverKept ==
  ASSUME OwnershipInv, NEW t \in Task, NEW g \in Agent, NEW force \in BOOLEAN,
         Takeover(t, g, force)
  PROVE  Preserved
<1> DEFINE owners == {a \in Asg: /\ asg[a].task = t
                                 /\ asg[a].role = "executor"
                                 /\ asg[a].status \in ActiveOrExpired}
<1> DEFINE dropped == SetAsg(asg, owners, "released")
<1> DEFINE stopped == SetRun(run, ExecutorRuns(t), "abandoned")
<1> USE DEF OwnershipInv
<1>1. PICK a \in Asg, x \in Run:
        /\ asg' = [dropped EXCEPT ![a] = NewAsg(t, g, "executor", "context_review")]
        /\ run' = [stopped EXCEPT ![x] = NewRun(a, "none")]
  BY DEF Takeover
<1>2. /\ asg'[a] = NewAsg(t, g, "executor", "context_review")
      /\ \A b \in Asg \ {a}: asg'[b] = dropped[b]
  BY <1>1 DEF SetAsg
<1>3. asg'[a].task = t /\ asg'[a].role = "executor"  BY <1>2 DEF NewAsg
<1>4. \A b \in Asg \ {a}: Shrinks(b)
  BY <1>2, SetAsgShrinks DEF AsgStatus
<1>5. ActiveFor(dropped, t, "executor") = {} /\ Open(t)
  BY DEF Takeover, CanClaim
<1>6. NoNewWork({a})
  <2> SUFFICES ASSUME NEW y \in Run, y # x, run'[y].status \in WorkingStatus
               PROVE  run[y].status \in WorkingStatus /\ run'[y].asg = run[y].asg
    BY <1>1 DEF NoNewWork, NewRun, SetRun
  <2>1. run'[y] = IF y \in ExecutorRuns(t) THEN [run[y] EXCEPT !.status = "abandoned"]
                                           ELSE run[y]
    BY <1>1 DEF SetRun
  <2>2. y \in ExecutorRuns(t) => run[y] \in RunRow  BY UsedRows DEF ExecutorRuns
  <2> QED  BY <2>1, <2>2 DEF RunRow, WorkingStatus
<1>7. Acquires(a)
  BY <1>2, <1>3, <1>4, <1>5, <1>6, SameTasks DEF Acquires, ActiveFor, Takeover
<1> QED  BY <1>7, AcquiresIsKept

LEMMA ExecutionKept ==
  ASSUME OwnershipInv, ExecutionNext
  PROVE  Preserved
<1> USE DEF OwnershipInv, launchVars
<1> DEFINE Leased == {b \in Asg: LiveLease(b)}
<1>1. ASSUME NEW a \in Asg, StartRun(a)  PROVE  Preserved
  <2>1. asg[a] \in AsgRow  BY <1>1, UsedRows DEF StartRun, LiveLease
  <2>2. \A b \in Asg: Shrinks(b)
    BY <1>1, <2>1 DEF StartRun, Shrinks, TypeOK, AsgTable, AsgRow
  <2>3. PICK x \in Run: run' = [run EXCEPT ![x] = NewRun(a, "none")]
    BY <1>1 DEF StartRun
  <2>4. NoNewWork(Leased)
    <3>1. a \in Leased  BY <1>1 DEF StartRun
    <3> QED  BY <2>3, <3>1, NewRunWork
  <2> QED  BY <1>1, <2>2, <2>4, SameTasks, SteadyIsKept DEF StartRun, Steady
<1>2. ASSUME NEW x \in Run, CreateHandoff(x)  PROVE  Preserved
  <2>1. \A b \in Asg: Shrinks(b)  BY <1>2, SetAsgShrinks DEF CreateHandoff, AsgStatus
  <2>2. NoNewWork(Leased)
    BY <1>2, SetRunNoNewWork DEF CreateHandoff, EndedRunStatus, WorkingStatus
  <2>3. CancelStays /\ NoTaskEnds
    <3>1. task' = task \/ task' = Requeued(asg', asg[run[x].asg].task)
      BY <1>2 DEF CreateHandoff
    <3> QED  BY <3>1, SameTasks, RequeuedQuiet
  <2> QED  BY <1>2, <2>1, <2>2, <2>3, SteadyIsKept DEF CreateHandoff, Steady
<1>3. ASSUME NEW x \in Run, CancelManagedRun(x)  PROVE  Preserved
  <2>1. NoNewWork(Leased)
    BY <1>3, SetRunNoNewWork DEF CancelManagedRun, LiveRunStatus, WorkingStatus
  <2>2. \A b \in Asg: Shrinks(b)  BY <1>3 DEF CancelManagedRun, Shrinks
  <2> QED  BY <1>3, <2>1, <2>2, SameTasks, SteadyIsKept DEF CancelManagedRun, Steady
<1>4. ASSUME NEW x \in Run, CancelReviewerRun(x)  PROVE  Preserved
  <2>1. \A b \in Asg: Shrinks(b)
    BY <1>4, SetAsgShrinks DEF CancelReviewerRun, AsgStatus
  <2>2. NoNewWork(Leased)
    BY <1>4, SetRunNoNewWork DEF CancelReviewerRun, EndedRunStatus, WorkingStatus
  <2>3. CancelStays /\ NoTaskEnds
    BY <1>4, RequeuedQuiet DEF CancelReviewerRun
  <2> QED  BY <1>4, <2>1, <2>2, <2>3, SteadyIsKept DEF CancelReviewerRun, Steady
<1>5. ASSUME NEW t \in Task, ReopenTask(t)  PROVE  Preserved
  <2>1. CancelStays /\ NoTaskEnds
    BY <1>5, SetTaskQuiet DEF ReopenTask, TaskState
  <2>2. \A b \in Asg: Shrinks(b)  BY <1>5 DEF ReopenTask, Shrinks
  <2> QED  BY <1>5, <2>1, <2>2, SameRuns, SteadyIsKept DEF ReopenTask, Steady
<1>6. ASSUME NEW y \in Run, NEW x \in Run, NEW v \in Verdict, SubmitReview(y, x, v)
      PROVE  Preserved
  \* the reviewer's lease is active, so the task is not cancelled
  <2>1. asg[run[y].asg].status = "active" /\ run[y].asg \in Asg
    BY <1>6, UsedRows DEF SubmitReview, LiveLease
  <2>2. RunTask(y) \in Task  BY <2>1, UsedRows DEF RunTask, AsgRow
  <2>3. task[RunTask(y)].state # "cancelled"
    BY <2>1, <2>2 DEF CancelledIsQuiet, RunTask
  <2>4. CancelStays /\ NoTaskEnds
    BY <1>6, <2>3, SetTaskQuiet DEF SubmitReview, TaskState
  <2>5. \A b \in Asg: Shrinks(b)  BY <1>6 DEF SubmitReview, Shrinks
  <2>6. NoNewWork(Leased)
    <3>1. run[x] \in RunRow  BY <1>6, UsedRows DEF SubmitReview
    <3> QED  BY <1>6, <3>1 DEF SubmitReview, NoNewWork, TypeOK, RunTable, RunRow
  <2> QED  BY <1>6, <2>4, <2>5, <2>6, SteadyIsKept DEF SubmitReview, Steady
<1> QED
  BY <1>1, <1>2, <1>3, <1>4, <1>5, <1>6, CompleteRunKept, CancelTaskKept, TakeoverKept
     DEF ExecutionNext

-----------------------------------------------------------------------------
(* The steps of Intake change phases and leases of active assignments.        *)
LEMMA PhaseStepKept ==
  ASSUME OwnershipInv, \A a \in Asg: Shrinks(a), UNCHANGED <<task, run, requests>>
  PROVE  Preserved
BY SameTasks, SameRuns, SteadyIsKept DEF Steady

LEMMA IntakeKept ==
  ASSUME OwnershipInv, IntakeNext
  PROVE  Preserved
<1> USE DEF OwnershipInv, launchVars
<1>1. {"context_review", "human_interview", "ready"} \subseteq Phase  BY DEF Phase
<1>2. ASSUME NEW a \in Asg, NEW op \in IntakeOp,
             IntakeCheck(a, op) \/ IntakeRefused(a, op)
      PROVE  Preserved
  BY <1>2, AsideKept DEF IntakeCheck, IntakeRefused, IntakeDone
<1>3. ASSUME NEW a \in Asg, IntakeRead(a)  PROVE  Preserved
  <2>1. asg[a].status = "active" => asg[a] \in AsgRow  BY UsedRows
  <2>2. \A b \in Asg: Shrinks(b)
    BY <1>3, <2>1 DEF IntakeRead, Shrinks, TypeOK, AsgTable, AsgRow
  <2> QED  BY <1>3, <2>2, PhaseStepKept DEF IntakeRead, IntakeDone
<1>4. ASSUME NEW a \in Asg,
             StartInterview(a) \/ FinalizeInterview(a) \/ HumanMessage(a) \/ AgentReply(a)
      PROVE  Preserved
  <2>1. \A b \in Asg: Shrinks(b)
    BY <1>1, <1>4, MoveToPhaseShrinks
       DEF StartInterview, FinalizeInterview, HumanMessage, AgentReply
  <2> QED
    BY <1>4, <2>1, PhaseStepKept
       DEF StartInterview, FinalizeInterview, HumanMessage, AgentReply, IntakeDone
<1>5. ASSUME NEW a \in Asg, BeginExecution(a)  PROVE  Preserved
  <2>1. asg[a] \in AsgRow  BY <1>5, UsedRows DEF BeginExecution
  <2>2. \A b \in Asg: Shrinks(b)
    BY <1>5, <2>1 DEF BeginExecution, Shrinks, TypeOK, AsgTable, AsgRow
  <2> QED  BY <1>5, <2>2, PhaseStepKept DEF BeginExecution, IntakeDone
<1>6. ASSUME NEW t \in Task, ReassignProject(t)  PROVE  Preserved
  <2>1. ASSUME NEW b \in Asg  PROVE  Shrinks(b)
    <3>1. b \in ActiveFor(asg, t, "executor") => asg[b] \in AsgRow
      BY UsedRows DEF ActiveFor
    <3> QED  BY <1>6, <3>1 DEF ReassignProject, Shrinks, AsgRow
  <2> QED  BY <1>6, <2>1, PhaseStepKept DEF ReassignProject
<1> QED  BY <1>2, <1>3, <1>4, <1>5, <1>6 DEF IntakeNext

-----------------------------------------------------------------------------
(* The steps of Launch.                                                       *)
LEMMA FinishSteady ==
  ASSUME TypeOK, NEW l \in Attempt, NEW success \in BOOLEAN, Finish(l, success)
  PROVE  CancelStays /\ NoTaskEnds /\ (\A b \in Asg: Shrinks(b)) /\ \A S: NoNewWork(S)
<1> DEFINE a == attempt[l].asg
<1> DEFINE x == attempt[l].run
<1> DEFINE intake == Exited(x) /\ asg[a].phase # "implementing"
<1> DEFINE managed == Exited(x) /\ ~intake /\ run[x].scope # "none"
<1>1. a \in Asg /\ x \in Run \cup {0}
  BY UsedAttempt DEF Finish, ActiveAttemptStatus
<1>2. asg' = asg => \A b \in Asg: Shrinks(b)  BY DEF Shrinks
<1>3. Exited(x) => x \in Run /\ run[x] \in RunRow /\ run[x].status \in WorkingStatus
  BY <1>1, UsedRows DEF Exited, WorkingStatus
<1>4. CASE intake
  <2>1. /\ run' = SetRun(run, {x}, IF success THEN "completed" ELSE "failed")
        /\ asg' = Extended(a) /\ task' = task
    BY <1>4 DEF Finish, Exited
  <2>2. \A S: NoNewWork(S)
    BY <2>1, SetRunNoNewWork DEF EndedRunStatus, WorkingStatus
  <2> QED  BY <1>1, <2>1, <2>2, SameTasks, ExtendedShrinks
<1>5. CASE managed
  <2>1. /\ run' = [run EXCEPT ![x] = [@ EXCEPT
                     !.status = "interrupted",
                     !.window = IF managed /\ run[x].wait # "none" THEN "none" ELSE "open"]]
        /\ asg' = asg \/ asg' = Extended(a)
        /\ task' = task
    BY <1>5 DEF Finish, Exited
  <2>2. \A S: NoNewWork(S)
    BY <1>3, <1>5, <2>1 DEF NoNewWork, TypeOK, RunTable, RunRow
  <2> QED  BY <1>1, <1>2, <2>1, <2>2, SameTasks, ExtendedShrinks
<1>6. CASE Exited(x) /\ ~intake /\ ~managed
  <2>1. /\ run' = SetRun(run, {x}, IF success THEN "paused" ELSE "failed")
        /\ ReleaseLauncher(a)
    BY <1>6 DEF Finish, Exited
  <2>2. \A S: NoNewWork(S)
    BY <1>3, <1>6, <2>1 DEF SetRun, NoNewWork, RunRow
  <2> QED  BY <1>1, <2>1, <2>2, ReleaseLauncherQuiet
<1>7. CASE ~Exited(x)
  <2>1. \/ ReleaseLauncher(a) /\ run' = run
        \/ UNCHANGED <<task, asg, run>>
    BY <1>7 DEF Finish
  <2> QED  BY <1>1, <1>2, <2>1, ReleaseLauncherQuiet, SameTasks, SameRuns
<1> QED  BY <1>4, <1>5, <1>6, <1>7

LEMMA AttemptsKept ==
  ASSUME OwnershipInv, NEW l \in Attempt,
         \/ ClaimLaunchJob(l) \/ MarkRunning(l) \/ StopLaunch(l) \/ AcceptExternal(l)
         \/ CompleteExternal(l) \/ RetireExternal(l) \/ FailExternal(l)
         \/ \E success \in BOOLEAN: FinishLaunch(l, success)
  PROVE  Preserved
<1> USE DEF OwnershipInv, lifeVars
<1> DEFINE Leased == {b \in Asg: LiveLease(b)}
<1>1. CASE ClaimLaunchJob(l) \/ MarkRunning(l) \/ RetireExternal(l)
  BY <1>1, AsideKept DEF ClaimLaunchJob, MarkRunning, RetireExternal
<1>2. ASSUME NEW success \in BOOLEAN, Finish(l, success)  PROVE  Preserved
  BY <1>2, FinishSteady, SteadyIsKept DEF Finish, Steady
<1>3. CASE StopLaunch(l)
  <2>1. attempt[l].asg \in Asg
    BY <1>3, UsedAttempt DEF StopLaunch, ActiveAttemptStatus
  <2>2. CancelStays /\ NoTaskEnds /\ \A b \in Asg: Shrinks(b)
    BY <1>3, <2>1, ReleaseLauncherQuiet DEF StopLaunch
  <2>3. NoNewWork(Leased)
    <3> SUFFICES ASSUME NEW y \in Run, run'[y].status \in WorkingStatus
                 PROVE  run[y].status \in WorkingStatus /\ run'[y].asg = run[y].asg
      BY DEF NoNewWork
    <3>1. \/ run'[y] = run[y]
          \/ /\ run[y].status \in {"running", "paused"}
             /\ run'[y] = [run[y] EXCEPT !.status = "paused"]
      BY <1>3 DEF StopLaunch, SetRun
    <3>2. run[y].status \in {"running", "paused"} => run[y] \in RunRow  BY UsedRows
    <3> QED  BY <3>1, <3>2 DEF RunRow, WorkingStatus
  <2> QED  BY <1>3, <2>2, <2>3, SteadyIsKept DEF StopLaunch, Steady
<1>4. CASE AcceptExternal(l)
  <2>1. attempt[l].asg \in Leased
    BY <1>4, UsedAttempt DEF AcceptExternal
  <2>2. PICK x \in Run: run' = [run EXCEPT ![x] = NewRun(attempt[l].asg, "none")]
    BY <1>4 DEF AcceptExternal
  <2>3. NoNewWork(Leased)  BY <2>1, <2>2, NewRunWork
  <2>4. \A b \in Asg: Shrinks(b)  BY <1>4 DEF AcceptExternal, Shrinks
  <2> QED  BY <1>4, <2>3, <2>4, SameTasks, SteadyIsKept DEF AcceptExternal, Steady
<1>5. CASE CompleteExternal(l)
  BY <1>2, <1>5 DEF CompleteExternal
<1>6. CASE FailExternal(l)
  <2>1. Finish(l, FALSE) \/ UNCHANGED <<lifeVars, attempt, binding>>
    BY <1>6 DEF FailExternal
  <2> QED  BY <1>2, <2>1, AsideKept
<1>7. ASSUME NEW success \in BOOLEAN, FinishLaunch(l, success)  PROVE  Preserved
  BY <1>2, <1>7 DEF FinishLaunch
<1> QED  BY <1>1, <1>3, <1>4, <1>5, <1>6, <1>7

LEMMA BeginLaunchKept ==
  ASSUME OwnershipInv, NEW l \in Attempt, NEW x \in Run, BeginLaunch(l, x)
  PROVE  Preserved
<1> DEFINE a == attempt[l].asg
<1> DEFINE phase == IF asg[a].phase = "ready" THEN "implementing" ELSE asg[a].phase
<1> DEFINE Leased == {b \in Asg: LiveLease(b)}
<1> USE DEF OwnershipInv
<1>1. attempt[l] \in AttemptRow /\ a \in Asg  BY UsedAttempt DEF BeginLaunch
<1>2. asg[a] \in AsgRow /\ a \in Leased
  BY <1>1, UsedRows DEF BeginLaunch, LiveLease
<1>3. \A b \in Asg: Shrinks(b)
  BY <1>1, <1>2 DEF BeginLaunch, Shrinks, TypeOK, AsgTable, AsgRow
<1>4. NoNewWork(Leased)
  <2>1. CASE attempt[l].restart = 0
    <3>1. PICK s \in LaunchScope(attempt[l].kind, phase):
            run' = [run EXCEPT ![x] = NewRun(a, s)]
      BY <2>1, ZeroIsNoRun DEF BeginLaunch
    <3> QED  BY <1>1, <1>2, <3>1, NewRunWork
  <2>2. CASE attempt[l].restart = x
    <3>1. /\ run[x].status = "interrupted"
          /\ run' = [run EXCEPT ![x] = [@ EXCEPT !.status = "running", !.window = "none"]]
      BY <2>2, ZeroIsNoRun DEF BeginLaunch
    <3>2. run[x] \in RunRow  BY <3>1, UsedRows
    <3> QED  BY <3>1, <3>2 DEF NoNewWork, WorkingStatus, TypeOK, RunTable, RunRow
  <2> QED  BY <2>1, <2>2 DEF BeginLaunch
<1> QED  BY <1>3, <1>4, SameTasks, SteadyIsKept DEF BeginLaunch, Steady

LEMMA ScopesKept ==
  ASSUME OwnershipInv, NEW x \in Run,
         \/ ProvisionStart(x) \/ Bind(x) \/ ProvisionFails(x) \/ RestartRun(x)
         \/ \E status \in {"pending", "ready"}: RegisterWait(x, status)
         \/ JobTerminal(x) \/ ResumeWait(x) \/ RenewInterrupted(x) \/ WindowCloses(x)
         \/ BeginExpiredCleanup(x) \/ CompleteCleanup(x) \/ Terminalize(x)
  PROVE  Preserved
<1> USE DEF OwnershipInv, lifeVars, launchVars
<1> DEFINE Leased == {b \in Asg: LiveLease(b)}
<1>1. CASE ProvisionStart(x) \/ ProvisionFails(x) \/ RestartRun(x)
  BY <1>1, AsideKept DEF ProvisionStart, ProvisionFails, RestartRun
\* steps that leave the status of every run alone, or end a run
<1>2. ASSUME run[x].status # "none" => run[x] \in RunRow,
             \/ Bind(x) \/ JobTerminal(x) \/ WindowCloses(x) \/ Terminalize(x)
             \/ \E status \in {"pending", "ready"}: RegisterWait(x, status)
      PROVE  Preserved
  <2>1. run[x] \in RunRow \/ run' = run
    <3>1. run[x] \in RunRow \cup {NullRun} /\ NullRun.wait = "none"
      BY DEF NullRun, TypeOK, RunTable
    <3> QED
      BY <1>2, <3>1 DEF Bind, JobTerminal, WindowCloses, Terminalize, RegisterWait
  <2>2. NoNewWork(Leased)
    BY <1>2, <2>1
       DEF Bind, JobTerminal, WindowCloses, Terminalize, RegisterWait, NoNewWork,
           TypeOK, RunTable, RunRow
  <2>3. \A b \in Asg: Shrinks(b)
    BY <1>2 DEF Bind, JobTerminal, WindowCloses, Terminalize, RegisterWait, Shrinks
  <2> QED
    BY <1>2, <2>2, <2>3, SameTasks, SteadyIsKept
       DEF Bind, JobTerminal, WindowCloses, Terminalize, RegisterWait, Steady
<1>3. CASE ResumeWait(x)
  <2>1. run[x] \in RunRow /\ run[x].asg \in Asg  BY <1>3, UsedRows DEF ResumeWait
  <2>2. NoNewWork(Leased)
    BY <1>3, <2>1 DEF ResumeWait, NoNewWork, TypeOK, RunTable, RunRow
  <2>3. \A b \in Asg: Shrinks(b)  BY <1>3, <2>1, ExtendedShrinks DEF ResumeWait
  <2> QED  BY <1>3, <2>2, <2>3, SameTasks, SteadyIsKept DEF ResumeWait, Steady
<1>4. CASE RenewInterrupted(x)
  <2>1. run[x].asg \in Asg  BY <1>4, UsedRows DEF RenewInterrupted
  <2>2. \A b \in Asg: Shrinks(b)  BY <1>4, <2>1, ExtendedShrinks DEF RenewInterrupted
  <2> QED  BY <1>4, <2>2, PhaseStepKept DEF RenewInterrupted
<1>5. CASE BeginExpiredCleanup(x)
  <2>1. \A b \in Asg: Shrinks(b)
    BY <1>5, SetAsgShrinks DEF BeginExpiredCleanup, AsgStatus
  <2>2. NoNewWork(Leased)
    BY <1>5, SetRunNoNewWork DEF BeginExpiredCleanup, LiveRunStatus, WorkingStatus
  <2> QED
    BY <1>5, <2>1, <2>2, SameTasks, SteadyIsKept DEF BeginExpiredCleanup, Steady
<1>6. CASE CompleteCleanup(x)
  <2>1. \A b \in Asg: Shrinks(b)
    BY <1>6, SetAsgShrinks DEF CompleteCleanup, AsgStatus
  <2>2. run[x] \in RunRow  BY <1>6, UsedRows DEF CompleteCleanup, CleaningStatus
  <2>3. NoNewWork(Leased)
    BY <1>6, <2>2 DEF CompleteCleanup, NoNewWork, WorkingStatus, TypeOK, RunTable, RunRow
  <2>4. CancelStays /\ NoTaskEnds
    BY <1>6, SetTaskQuiet, SameTasks DEF CompleteCleanup, CleanedTask, TaskState
  <2> QED  BY <1>6, <2>1, <2>3, <2>4, SteadyIsKept DEF CompleteCleanup, Steady
<1> QED  BY <1>1, <1>2, <1>3, <1>4, <1>5, <1>6, UsedRows

LEMMA LaunchKept ==
  ASSUME OwnershipInv, LaunchNext
  PROVE  Preserved
<1>1. ASSUME NEW a \in Asg, NEW k \in AttemptKind, EnqueueLaunch(a, k)  PROVE  Preserved
  BY <1>1, AsideKept DEF EnqueueLaunch, lifeVars
<1>2. CASE DaemonRestart  BY <1>2, AsideKept DEF DaemonRestart
<1> QED  BY <1>1, <1>2, BeginLaunchKept, AttemptsKept, ScopesKept DEF LaunchNext, ReportNext, ConfirmNext, ControlNext

-----------------------------------------------------------------------------
(* The theorems.                                                              *)
LEMMA OwnershipStep ==
  ASSUME OwnershipInv, [SysNext]_vars
  PROVE  Preserved
<1>1. CASE UNCHANGED vars  BY <1>1, AsideKept DEF vars
<1>2. CASE SysNext
  BY <1>2, ClaimsKept, ExecutionKept, IntakeKept, LaunchKept DEF SysNext, LifeNext
<1> QED  BY <1>1, <1>2

LEMMA OwnershipInit == StoreInit => OwnershipInv
BY InitialStatesAssumption, TypeInit
   DEF OwnershipInv, StoreInit, OneActivePerRole, DoneHasNoExecutor, CancelledIsQuiet,
       ActiveFor, OfTask, NullAsg, NullRun

LEMMA OwnershipStays ==
  ASSUME OwnershipInv, [SysNext]_vars
  PROVE  OwnershipInv'
<1>1. TypeOK'
  BY TypeStep DEF OwnershipInv
<1> QED BY <1>1, OwnershipStep DEF OwnershipInv, Preserved

\* The four parts of the invariant are inductive together: a lease is only
\* granted on an open task, and ending a task ends every lease on it.
THEOREM OwnershipInvariant == SysSpec => []OwnershipInv
BY OwnershipInit, OwnershipStays, PTL DEF SysSpec

\* No two active assignments hold the same role of a task.
THEOREM ExclusiveOwnership == SysSpec => []OneActivePerRole
<1>1. OwnershipInv => OneActivePerRole  BY DEF OwnershipInv
<1> QED  BY <1>1, OwnershipInvariant, PTL

\* A finished task has no executor left that could complete or hand it off.
THEOREM DoneTasksAreUnowned == SysSpec => []DoneHasNoExecutor
<1>1. OwnershipInv => DoneHasNoExecutor  BY DEF OwnershipInv
<1> QED  BY <1>1, OwnershipInvariant, PTL

\* A cancelled task has no active lease, no run that can act and no request,
\* whatever was in flight when it was cancelled.
THEOREM CancelIsComplete == SysSpec => []CancelledIsQuiet
<1>1. OwnershipInv => CancelledIsQuiet  BY DEF OwnershipInv
<1> QED  BY <1>1, OwnershipInvariant, PTL

\* A cancelled task stays cancelled: no verdict, handoff, cleanup or exit of a
\* process that comes late gives it another state.
THEOREM CancelIsFinal == SysSpec => CancelledIsFinal
<1>1. OwnershipInv /\ [SysNext]_vars =>
        [\A t \in Task: task[t].state = "cancelled" => task'[t].state = "cancelled"]_vars
  BY OwnershipStep DEF Preserved, CancelStays
<1> QED  BY <1>1, OwnershipInvariant, PTL DEF SysSpec, CancelledIsFinal
=============================================================================
