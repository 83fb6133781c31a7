------------------------------ MODULE WorkStore ------------------------------
(* The tables of the Morrows work store (crates/morrows-store, SQLite) and    *)
(* the questions that its transactions ask of them.  One variable is one      *)
(* table, one function value is one row.  Every mutation of the store runs in *)
(* a BEGIN IMMEDIATE transaction, so one transaction is one atomic step of    *)
(* the modules that extend this one.                                          *)
(*                                                                            *)
(* Time.  expires_at and restart_deadline_at are compared with the clock and  *)
(* never used otherwise.  A row keeps the outcome of that comparison (lapsed, *)
(* window) and an environment step lets it change at any moment: every        *)
(* interleaving of the real clock is among the behaviours.                    *)
(*                                                                            *)
(* A definition marked "mutant" is a plausible mistake in the definition that *)
(* follows it.  No module uses it: the mutation checks put it in the place of *)
(* that definition, to see that a property notices.                           *)
EXTENDS Naturals

CONSTANTS
  Task, Agent,
  NAsg, NRun, NAttempt,   \* bounds: how many rows the tables can hold
  Role,                   \* the roles and the assignment modes in play
  AssignmentMode,
  DependsOn,              \* task_dependencies, unconditional edges
  NativeContract,         \* tasks with an acceptance criterion that is not legacy
  NeedsReview,            \* ... one that an independent review must pass
  InitialStates,          \* the states a task is created in
  NoTask, NoAgent         \* the columns of a row that is not used yet

Asg == 1 .. NAsg
Run == 1 .. NRun
Attempt == 1 .. NAttempt

ASSUME BoundsAssumption ==
  NAsg \in Nat /\ NRun \in Nat /\ NAttempt \in Nat
ASSUME VocabularyAssumption ==
  /\ Role \subseteq {"executor", "reviewer"} /\ "executor" \in Role
  /\ AssignmentMode \subseteq {"open", "approval", "dispatch"}
ASSUME GraphAssumption ==
  DependsOn \in [Task -> SUBSET Task] /\ NativeContract \subseteq Task
  /\ NeedsReview \subseteq NativeContract
ASSUME InitialStatesAssumption == InitialStates \subseteq {"backlog", "ready"}
ASSUME NullAssumption == NoTask \notin Task /\ NoAgent \notin Agent

VARIABLES
  task,      \* tasks
  asg,       \* assignments, in the order of acquired_at
  run,       \* runs with their runtime binding and job wait, in start order
  requests,  \* assignment_requests that are pending
  calls,     \* intake calls that have passed a check made outside a transaction
  attempt,   \* launch_attempts with their jobs, in the order of created_at
  retiring,  \* external attempts found to have ended, not finished yet (volatile)
  binding    \* runs whose runtime provisioning is in flight (volatile)

lifeVars == <<task, asg, run, requests, calls>>
launchVars == <<attempt, retiring, binding>>
vars == <<task, asg, run, requests, calls, attempt, retiring, binding>>

-----------------------------------------------------------------------------
(* Types. *)
TaskState == {"backlog", "ready", "in_progress", "review", "done", "cancelled"}
AsgStatus == {"active", "expired", "released", "completed"}
Phase == {"context_review", "human_interview", "ready", "implementing"}
LiveRunStatus ==
  {"running", "paused", "interrupted", "cleanup_pending", "cancelling"}
EndedRunStatus ==
  {"completed", "handed_off", "abandoned", "cancelled", "failed"}
Scope == {"none", "intent", "bound", "terminal"}
Window == {"none", "open", "closed"}
WaitStatus == {"none", "pending", "ready"}
ActiveAttemptStatus == {"queued", "starting", "awaiting_agent", "running"}
EndedAttemptStatus == {"completed", "failed", "cancelled"}
JobStatus == {"none", "pending", "running", "done", "failed", "cancelled"}
IntakeOp == {"read", "interview", "finalize", "execute"}
Verdict == {"PASS", "FAIL", "BLOCKED"}

NullAsg == [status |-> "none", task |-> NoTask, agent |-> NoAgent,
            role |-> "none", phase |-> "none", lapsed |-> FALSE]
AsgRow == [status: AsgStatus, task: Task, agent: Agent, role: Role,
           phase: Phase, lapsed: BOOLEAN]

NullRun == [status |-> "none", asg |-> 0, scope |-> "none",
            window |-> "none", wait |-> "none", queued |-> FALSE,
            verdict |-> "none"]
RunRow == [status: LiveRunStatus \cup EndedRunStatus, asg: Asg, scope: Scope,
           window: Window, wait: WaitStatus, queued: BOOLEAN,
           verdict: Verdict \cup {"none"}]

NullAttempt == [status |-> "none", asg |-> 0, run |-> 0, restart |-> 0,
                kind |-> "none", job |-> "none"]
AttemptRow == [status: ActiveAttemptStatus \cup EndedAttemptStatus, asg: Asg,
               run: Run \cup {0}, restart: Run \cup {0},
               kind: {"local", "managed", "external"}, job: JobStatus]

TaskTable == [Task -> [state: TaskState, mode: AssignmentMode]]
AsgTable == [Asg -> AsgRow \cup {NullAsg}]
RunTable == [Run -> RunRow \cup {NullRun}]
AttemptTable == [Attempt -> AttemptRow \cup {NullAttempt}]

TypeOK ==
  /\ task \in TaskTable
  /\ asg \in AsgTable
  /\ run \in RunTable
  /\ requests \subseteq Task \X Agent \X Role
  /\ calls \subseteq Asg \X IntakeOp
  /\ attempt \in AttemptTable
  /\ retiring \subseteq Attempt
  /\ binding \subseteq Run

StoreInit ==
  /\ task \in [Task -> [state: InitialStates, mode: AssignmentMode]]
  /\ asg = [a \in Asg |-> NullAsg]
  /\ run = [x \in Run |-> NullRun]
  /\ requests = {}
  /\ calls = {}
  /\ attempt = [l \in Attempt |-> NullAttempt]
  /\ retiring = {}
  /\ binding = {}

-----------------------------------------------------------------------------
(* Rows.  A new row takes the smallest unused id, so the order of the ids is  *)
(* the order of insertion: acquired_at, started_at and created_at.            *)
FreshAsg(a) == asg[a].status = "none" /\ \A b \in Asg: b < a => asg[b].status # "none"
FreshRun(x) == run[x].status = "none" /\ \A y \in Run: y < x => run[y].status # "none"
FreshAttempt(l) ==
  /\ attempt[l].status = "none"
  /\ \A m \in Attempt: m < l => attempt[m].status # "none"

NewAsg(t, g, r, p) ==
  [status |-> "active", task |-> t, agent |-> g, role |-> r, phase |-> p,
   lapsed |-> FALSE]
NewRun(a, s) ==
  [status |-> "running", asg |-> a, scope |-> s, window |-> "none",
   wait |-> "none", queued |-> FALSE, verdict |-> "none"]

\* UPDATE ... SET status = st WHERE the id is in S
SetAsg(as, S, st) ==
  [a \in Asg |-> IF a \in S THEN [as[a] EXCEPT !.status = st] ELSE as[a]]
SetRun(rs, S, st) ==
  [x \in Run |-> IF x \in S THEN [rs[x] EXCEPT !.status = st] ELSE rs[x]]
SetTask(ts, t, st) == [ts EXCEPT ![t] = [@ EXCEPT !.state = st]]

-----------------------------------------------------------------------------
(* Queries that several transactions share. *)
OfTask(x, t) == run[x].status # "none" /\ asg[run[x].asg].task = t
RunTask(x) == asg[run[x].asg].task
RunRole(x) == asg[run[x].asg].role
RunAgent(x) == asg[run[x].asg].agent

LiveLease(a) == asg[a].status = "active" /\ ~asg[a].lapsed
Lapsed(a) == asg[a].status = "active" /\ asg[a].lapsed

\* the states in which a task can still be worked on
\* mutant: a done task can still be claimed
NotCancelled(t) == task[t].state # "cancelled"
\* mutant: a cancelled one can
NotDone(t) == task[t].state # "done"
Open(t) == task[t].state \notin {"done", "cancelled"}

\* an active row of that task and role: the unique index of 0001_init.sql:47
\* mutant: a lapsed lease counts as gone before it is expired
UnlapsedFor(as, t, r) ==
  {a \in Asg: /\ as[a].status = "active" /\ ~as[a].lapsed
              /\ as[a].task = t /\ as[a].role = r}
ActiveFor(as, t, r) ==
  {a \in Asg: as[a].status = "active" /\ as[a].task = t /\ as[a].role = r}

\* task_graph::gate_conn for unconditional edges: a predecessor that is not
\* done is waiting or excluded, and neither is eligible
GateEligible(t) == \A d \in DependsOn[t]: task[d].state = "done"

\* the runs of an assignment that have not ended, as start_run_tx and
\* begin_launch_attempt look for them
\* mutant: an interrupted run is forgotten
RunningRunsOf(a) == {x \in Run: run[x].asg = a /\ run[x].status \in {"running", "paused"}}
LiveRunsOf(a) == {x \in Run: run[x].asg = a /\ run[x].status \in LiveRunStatus}

\* a run of the task that interrupts, stops or cleans up
\* mutant: a pending cleanup is forgotten
CancelBlocked(t) ==
  \E x \in Run: OfTask(x, t) /\ run[x].status \in {"interrupted", "cancelling"}
CleanupBlocked(t) ==
  \E x \in Run: OfTask(x, t) /\
     run[x].status \in {"interrupted", "cleanup_pending", "cancelling"}

\* continuation::predecessor_runtime_active
PredecessorRuntimeActive(t) ==
  \/ \E l \in Attempt:
       /\ attempt[l].status \in {"starting", "running"}
       /\ attempt[l].kind \in {"local", "managed"}
       /\ asg[attempt[l].asg].task = t
  \/ \E x \in Run:
       /\ OfTask(x, t)
       /\ run[x].status \in {"handed_off", "completed"}
       /\ run[x].scope \in {"intent", "bound"}

\* takeover::unsafe_predecessor
UnsafePredecessor(t) ==
  \/ PredecessorRuntimeActive(t)
  \/ CleanupBlocked(t)
  \/ \E x \in Run:
       /\ OfTask(x, t)
       /\ \/ run[x].scope \in {"intent", "bound"}
          \/ run[x].wait # "none"
          \/ run[x].queued
  \/ \E l \in Attempt:
       /\ attempt[l].status \in {"starting", "running"}
       /\ asg[attempt[l].asg].task = t

\* takeover::latest_executor: ORDER BY acquired_at DESC, rowid DESC LIMIT 1
LatestExecutor(t) ==
  {a \in Asg:
     /\ asg[a].task = t /\ asg[a].role = "executor"
     /\ \A b \in Asg: b > a => ~(asg[b].task = t /\ asg[b].role = "executor")}

\* the active assignments whose lease has lapsed and that no interrupted or
\* cleaning run holds: what both expiry sweeps turn into expired rows
\* mutant: the deadline is not compared
LapsedOrNot ==
  {a \in Asg: asg[a].status = "active" /\
     \A x \in Run: run[x].asg = a => run[x].status # "interrupted"}
Stale ==
  {a \in Asg:
     /\ Lapsed(a)
     /\ \A x \in Run: run[x].asg = a =>
          run[x].status \notin {"interrupted", "cleanup_pending", "cancelling"}}

\* the checks of claim_task_tx on the assignments as they are inside the
\* transaction, the unique index included
CanClaim(as, t, g, r) ==
  /\ ~PredecessorRuntimeActive(t)
  /\ t \in NativeContract =>
       \A o \in Role \ {r}: \A a \in ActiveFor(as, t, o): as[a].agent # g
  /\ r = "executor" => GateEligible(t)
  /\ ~CleanupBlocked(t)
  /\ Open(t)
  /\ ActiveFor(as, t, r) = {}

\* ... and its effect on the task
ClaimedTask(ts, t, r) ==
  IF r = "executor" /\ ts[t].state = "ready" THEN SetTask(ts, t, "in_progress") ELSE ts

\* ... a task that lost its executor goes back to the queue
\* mutant: another executor is not looked for
AlwaysRequeued(as, t) ==
  IF task[t].state = "in_progress" THEN SetTask(task, t, "ready") ELSE task
Requeued(as, t) ==
  IF task[t].state = "in_progress" /\ ActiveFor(as, t, "executor") = {}
  THEN SetTask(task, t, "ready") ELSE task

\* the phase an assignment starts in
ClaimPhase(r, intake) ==
  IF intake /\ r = "executor" THEN "context_review" ELSE "implementing"
=============================================================================
