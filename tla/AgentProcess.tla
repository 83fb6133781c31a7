---------------------------- MODULE AgentProcess ----------------------------
(* What the launcher does between the transactions of Launch: it obtains a    *)
(* capability of the runtime for the run, starts the provider process, hands  *)
(* it the messages that wait for its agent, watches it, and takes everything  *)
(* back.  (execute_codebuddy, execute_codex and execute_remote_agent of       *)
(* launch.rs, morrow_runtime.rs; delivery.rs, task_message.rs, runtime.rs)    *)
(*                                                                            *)
(* Each step below is one call of the launcher's task; between two of them    *)
(* everybody else may act.  An error ends the task, which then reports the    *)
(* attempt as failed.  Any call of the store or the runtime may fail.         *)
(*                                                                            *)
(* A message row is a member of Message.  Which attempt was given it is kept  *)
(* in given, which no table records; what an agent reads through its tools    *)
(* is not followed.  The message steps of Intake stand for further messages.  *)
EXTENDS Morrows

CONSTANTS
  Message,     \* bound: the deliveries that are followed
  MaxRestart   \* bound: how often the daemon starts again

ASSUME RestartAssumption == MaxRestart \in Nat

VARIABLES
  proc,      \* how far the launcher's task for an attempt has come (volatile)
  alive,     \* the attempts whose local process exists, orphans included
  delivery,  \* agent_deliveries
  given,     \* the attempts whose process had the message in its prompt
  adopted,   \* run_runtime_bindings.capability_id: 0, or the attempt it is for
  listed,    \* interrupted runs the sweep has read and not revoked yet (volatile)
  cleaning,  \* runs whose cleanup the sweep has asked for (volatile)
  restarts   \* daemon restarts so far

messageVars == <<delivery, given>>
capabilityVars == <<adopted, listed, cleaning>>
agentVars == <<proc, alive, messageVars, capabilityVars, restarts>>
allVars == <<vars, agentVars>>

Stage == {"none", "issued", "armed", "spawned", "marked", "holding", "prompted",
          "watched", "exited", "failed", "gone"}

NullDelivery == [status |-> "none", kind |-> "none", agent |-> NoAgent,
                 task |-> NoTask, by |-> 0]
DeliveryRow == [status: {"queued", "claimed", "delivered", "recalled"},
                kind: {"task_message", "launch_instruction"},
                agent: Agent, task: Task, by: Attempt \cup {0}]

AgentTypeOK ==
  /\ proc \in [Attempt -> Stage] /\ alive \subseteq Attempt
  /\ delivery \in [Message -> DeliveryRow \cup {NullDelivery}]
  /\ given \in [Message -> SUBSET Attempt]
  /\ adopted \in [Run -> Attempt \cup {0}]
  /\ listed \subseteq Run /\ cleaning \subseteq Run
  /\ restarts \in 0 .. MaxRestart

AgentInit ==
  /\ StoreInit
  /\ proc = [l \in Attempt |-> "none"] /\ alive = {}
  /\ delivery = [d \in Message |-> NullDelivery]
  /\ given = [d \in Message |-> {}]
  /\ adopted = [x \in Run |-> 0]
  /\ listed = {} /\ cleaning = {}
  /\ restarts = 0

-----------------------------------------------------------------------------
(* Capabilities. *)
RunOf(l) == attempt[l].run
Move(l, from, to) == proc[l] = from /\ proc' = [proc EXCEPT ![l] = to]
Clear(x) == adopted' = [adopted EXCEPT ![x] = 0]

\* begin_launch_attempt has succeeded and its task goes on
Launching(l) == proc[l] = "none" /\ RunOf(l) # 0 /\ attempt[l].kind # "external"

\* provision_agent up to the answer of the runtime
IssueCapability(l) ==
  /\ Launching(l) /\ Move(l, "none", "issued")
  /\ asg[attempt[l].asg].phase = "implementing"
  /\ run[RunOf(l)].scope \in {"bound", "terminal"}
  /\ UNCHANGED <<vars, alive, messageVars, capabilityVars, restarts>>

\* a launch for the intake, or without a control, has no capability
NeedsNoCapability(l) ==
  /\ Launching(l) /\ Move(l, "none", "armed")
  /\ IF attempt[l].kind = "managed"
     THEN /\ asg[attempt[l].asg].phase # "implementing"
          /\ run[RunOf(l)].scope \in {"bound", "terminal"}
     ELSE \/ asg[attempt[l].asg].phase # "implementing"
          \/ run[RunOf(l)].scope = "none"
  /\ UNCHANGED <<vars, alive, messageVars, capabilityVars, restarts>>

\* the fence of try_adopt_run_capability
\* mutant: only the binding is asked for
BindingExists(x) == run[x].scope \in {"bound", "terminal"}
MayAdopt(x) == BindingExists(x) /\ run[x].status = "running"

\* ... and what is not adopted is revoked before the launch fails
AdoptCapability(l) ==
  /\ proc[l] = "issued"
  /\ IF MayAdopt(RunOf(l))
     THEN Move(l, "issued", "armed") /\ adopted' = [adopted EXCEPT ![RunOf(l)] = l]
     ELSE Move(l, "issued", "failed") /\ UNCHANGED adopted
  /\ UNCHANGED <<vars, alive, messageVars, listed, cleaning, restarts>>

\* revoke_for_run; where its result is ignored the capability may stay
Revoked(x) == Clear(x)
MaybeRevoked(x) == Clear(x) \/ UNCHANGED adopted

-----------------------------------------------------------------------------
(* The process. *)

\* provisioning, the credential, a file or the process itself is refused
LaunchFails(l) ==
  /\ \/ Launching(l) /\ Move(l, "none", "failed") /\ UNCHANGED adopted
     \/ Move(l, "armed", "failed") /\ MaybeRevoked(RunOf(l))
  /\ UNCHANGED <<vars, alive, messageVars, listed, cleaning, restarts>>

\* kill, or the handle of the child dropped (kill_on_drop)
\* mutant: the launcher's task ends and leaves its process
LeaveRunning(l) == UNCHANGED alive
Kill(l) == alive' = alive \ {l}

\* issue_runtime_credential, and the process that gets the credential: nothing
\* is read between the two
Spawn(l) ==
  /\ attempt[l].kind = "local" /\ Move(l, "armed", "spawned")
  /\ run[RunOf(l)].status \in {"running", "interrupted"}
  /\ alive' = alive \cup {l}
  /\ UNCHANGED <<vars, messageVars, capabilityVars, restarts>>

\* execute_remote_agent claims the deliveries before it starts the process, when
\* its attempt is still starting: claim_agent_deliveries_for_launch refuses
RefuseRemote(l) ==
  /\ attempt[l].kind = "managed" /\ Move(l, "armed", "failed")
  /\ attempt[l].status # "running"
  /\ UNCHANGED <<vars, alive, messageVars, capabilityVars, restarts>>

\* the stages in which the launcher's task holds the handle of a process
Attached == {"spawned", "marked", "holding", "prompted", "watched"}

\* an orphan of an earlier daemon ends by itself: nobody else ends it
OrphanExits(l) ==
  /\ l \in alive /\ proc[l] \notin Attached
  /\ alive' = alive \ {l}
  /\ UNCHANGED <<vars, proc, messageVars, capabilityVars, restarts>>

\* mark_launch_running; a process whose attempt or run ended meanwhile is killed
Confirm(l) ==
  \/ /\ Move(l, "spawned", "marked")
     /\ MarkRunning(l)
     /\ UNCHANGED <<alive, messageVars, capabilityVars, restarts>>
  \/ /\ Move(l, "spawned", "failed")
     /\ attempt[l].status # "starting" \/ run[RunOf(l)].status # "running"
     /\ Kill(l) /\ MaybeRevoked(RunOf(l))
     /\ UNCHANGED <<vars, messageVars, listed, cleaning, restarts>>

\* the process ends by itself or is killed because of launch_stop_requested;
\* the capability is revoked first, and if that fails so does the task
End(l) ==
  /\ \/ Move(l, "watched", "exited") /\ Revoked(RunOf(l))
     \/ Move(l, "watched", "failed") /\ MaybeRevoked(RunOf(l))
  /\ Kill(l)
  /\ UNCHANGED <<vars, messageVars, listed, cleaning, restarts>>

\* the task is over once nothing of its process is left; before that, only if
\* the launch could not begin at all
Reports(l) ==
  \/ proc[l] \in {"exited", "failed"}
  \/ proc[l] = "none" /\ attempt[l].status = "queued" /\ attempt[l].job = "running"

\* finish_launch_attempt, which leaves an attempt alone that has ended
Report(l, success) ==
  /\ Reports(l)
  /\ success => proc[l] = "exited"
  /\ IF attempt[l].status \in ActiveAttemptStatus
     THEN FinishLaunch(l, success) ELSE UNCHANGED vars
  /\ proc' = [proc EXCEPT ![l] = "gone"]
  /\ UNCHANGED <<alive, messageVars, capabilityVars, restarts>>

-----------------------------------------------------------------------------
(* Deliveries. *)
Queued(kind, g, t) ==
  [status |-> "queued", kind |-> kind, agent |-> g, task |-> t, by |-> 0]
QueuedFor(g, t) ==
  {d \in Message: delivery[d].status = "queued"
                  /\ delivery[d].agent = g /\ delivery[d].task = t}
ClaimedBy(l) == {d \in Message: delivery[d].status = "claimed" /\ delivery[d].by = l}
SetDelivery(S, st, l) ==
  [d \in Message |-> IF d \in S THEN [delivery[d] EXCEPT !.status = st, !.by = l]
                                ELSE delivery[d]]

\* create_human_task_message: it also takes the interview up again
SendMessage(d, t, g) ==
  LET open == {a \in Asg: /\ asg[a].status = "active"
                          /\ asg[a].task = t /\ asg[a].agent = g
                          /\ asg[a].phase \in {"human_interview", "ready"}}
  IN
  /\ delivery[d].status = "none"
  /\ delivery' = [delivery EXCEPT ![d] = Queued("task_message", g, t)]
  /\ asg' = [a \in Asg |->
       IF a \in open
       THEN [asg[a] EXCEPT !.phase = "human_interview", !.lapsed = FALSE] ELSE asg[a]]
  /\ UNCHANGED <<task, run, requests, calls, launchVars>>
  /\ UNCHANGED <<proc, alive, given, capabilityVars, restarts>>

\* create_launch_instruction
SendInstruction(d, l) ==
  /\ delivery[d].status = "none"
  /\ attempt[l].status \in ActiveAttemptStatus
  /\ LET a == asg[attempt[l].asg] IN
     delivery' = [delivery EXCEPT ![d] = Queued("launch_instruction", a.agent, a.task)]
  /\ UNCHANGED <<vars, proc, alive, given, capabilityVars, restarts>>

\* recall_human_task_message
\* mutant: a message that is only claimed can still be withdrawn
NotDelivered(d) == delivery[d].status \in {"queued", "claimed"}
Recallable(d) == delivery[d].status = "queued"

Recall(d) ==
  /\ delivery[d].kind = "task_message" /\ Recallable(d)
  /\ delivery' = SetDelivery({d}, "recalled", 0)
  /\ UNCHANGED <<vars, proc, alive, given, capabilityVars, restarts>>

\* delivery_ack, instructions_get or the page of a thread, by the agent itself
Acknowledge(d) ==
  /\ delivery[d].status = "queued"
  /\ delivery' = SetDelivery({d}, "delivered", 0)
  /\ UNCHANGED <<vars, proc, alive, given, capabilityVars, restarts>>

\* agent_reply_task_thread: the reply consumes what waits in the thread
Reply(t, g) ==
  LET thread == {d \in QueuedFor(g, t): delivery[d].kind = "task_message"}
      talking == {a \in Asg: /\ asg[a].status = "active"
                             /\ asg[a].task = t /\ asg[a].agent = g
                             /\ asg[a].phase = "human_interview"}
  IN
  /\ thread # {}
  /\ delivery' = SetDelivery(thread, "delivered", 0)
  /\ asg' = [a \in Asg |->
       IF a \in talking THEN [asg[a] EXCEPT !.lapsed = FALSE] ELSE asg[a]]
  /\ UNCHANGED <<task, run, requests, calls, launchVars>>
  /\ UNCHANGED <<proc, alive, given, capabilityVars, restarts>>

\* claim_agent_deliveries_for_launch; if it refuses, the dropped child is killed
ClaimDeliveries(l) ==
  LET a == asg[attempt[l].asg] IN
  /\ IF attempt[l].status = "running"
     THEN /\ Move(l, "marked", "holding")
          /\ delivery' = SetDelivery(QueuedFor(a.agent, a.task), "claimed", l)
          /\ UNCHANGED alive
     ELSE Move(l, "marked", "failed") /\ Kill(l) /\ UNCHANGED delivery
  /\ UNCHANGED <<vars, given, capabilityVars, restarts>>

\* the prompt cannot be put together: the task ends and the claims stay
PromptFails(l) ==
  /\ Move(l, "holding", "failed") /\ Kill(l)
  /\ UNCHANGED <<vars, messageVars, capabilityVars, restarts>>

\* the prompt is written to the process
WritePrompt(l) ==
  /\ Move(l, "holding", "prompted")
  /\ given' = [d \in Message |-> IF d \in ClaimedBy(l) THEN given[d] \cup {l} ELSE given[d]]
  /\ UNCHANGED <<vars, alive, delivery, capabilityVars, restarts>>

\* ... or cannot be: release_claimed_agent_deliveries
WriteFails(l) ==
  /\ Move(l, "holding", "failed") /\ Kill(l)
  /\ delivery' = SetDelivery(ClaimedBy(l), "queued", 0)
  /\ MaybeRevoked(RunOf(l))
  /\ UNCHANGED <<vars, given, listed, cleaning, restarts>>

\* complete_claimed_agent_deliveries; a failure is only logged, because the
\* process has the prompt
\* mutant: ... and the messages are queued again
Unsettled(l) == SetDelivery(ClaimedBy(l), "queued", 0)
Kept(l) == delivery

CompleteClaimed(l) ==
  /\ Move(l, "prompted", "watched")
  /\ delivery' \in {SetDelivery(ClaimedBy(l), "delivered", l), Kept(l)}
  /\ UNCHANGED <<vars, alive, given, capabilityVars, restarts>>

-----------------------------------------------------------------------------
(* The sweep and the cancel handlers, against the launcher. *)

\* interrupted_runtime_runs, read before each of them is revoked
SweepLists ==
  /\ listed = {}
  /\ listed' = {x \in Run: run[x].status = "interrupted" /\ run[x].scope = "bound"}
  /\ listed' # {}
  /\ UNCHANGED <<vars, proc, alive, messageVars, adopted, cleaning, restarts>>

SweepRevokes(x) ==
  /\ x \in listed /\ listed' = listed \ {x}
  /\ MaybeRevoked(x)
  /\ UNCHANGED <<vars, proc, alive, messageVars, cleaning, restarts>>

\* run_cancel and revoke_task_cancelling_runs, after the cancel is recorded
CancelRevokes(x) ==
  /\ run[x].status = "cancelling" /\ adopted[x] # 0
  /\ Revoked(x)
  /\ UNCHANGED <<vars, proc, alive, messageVars, listed, cleaning, restarts>>

\* a run to clean up: first its capability, then the scope
BeginCleanup(x) ==
  /\ x \notin cleaning
  /\ run[x].status \in CleaningStatus \cup {"completed", "handed_off"}
  /\ run[x].scope = "bound" \/ (run[x].scope = "terminal" /\ run[x].status \in CleaningStatus)
  /\ ~ProcessActive(x)
  /\ Revoked(x)
  /\ cleaning' = cleaning \cup {x}
  /\ UNCHANGED <<vars, proc, alive, messageVars, listed, restarts>>

EndCleanup(x) ==
  /\ x \in cleaning /\ cleaning' = cleaning \ {x}
  /\ CompleteCleanup(x) \/ Terminalize(x) \/ UNCHANGED vars
  /\ UNCHANGED <<proc, alive, messageVars, adopted, listed, restarts>>

-----------------------------------------------------------------------------
\* The daemon stops and starts again.  kill_on_drop needs a daemon that unwinds, so
\* that a crash or a signal may leave any of the local processes behind, and
\* recover_launch_jobs_after_restart fails what was local (one Report each)
\* without looking for a process.  The monitors of remote processes find nothing,
\* and then recover_agent_delivery_claims returns what the failed attempts had
\* claimed.
Restart ==
  LET interrupted == {l \in Attempt: /\ attempt[l].status \in {"starting", "running"}
                                     /\ attempt[l].kind # "external"}
  IN
  /\ restarts < MaxRestart /\ restarts' = restarts + 1
  /\ DaemonRestart
  /\ proc' = [l \in Attempt |-> IF l \in interrupted THEN "failed"
                                ELSE IF proc[l] = "none" /\ ~Launching(l) THEN "none"
                                ELSE "gone"]
  /\ delivery' = SetDelivery({d \in Message: delivery[d].status = "claimed"}, "queued", 0)
  /\ alive' \in SUBSET alive /\ listed' = {} /\ cleaning' = {}
  /\ UNCHANGED <<given, adopted>>

LauncherNext ==
  \E l \in Attempt:
    \/ IssueCapability(l)
    \/ NeedsNoCapability(l)
    \/ AdoptCapability(l)
    \/ LaunchFails(l)
    \/ Spawn(l)
    \/ RefuseRemote(l)
    \/ Confirm(l)
    \/ ClaimDeliveries(l)
    \/ PromptFails(l)
    \/ WritePrompt(l)
    \/ WriteFails(l)
    \/ CompleteClaimed(l)
    \/ End(l)
    \/ OrphanExits(l)
    \/ \E success \in BOOLEAN: Report(l, success)

MessageNext ==
  \/ \E d \in Message:
       \/ \E t \in Task, g \in Agent: SendMessage(d, t, g)
       \/ \E l \in Attempt: SendInstruction(d, l)
       \/ Recall(d)
       \/ Acknowledge(d)
  \/ \E t \in Task, g \in Agent: Reply(t, g)

SweepNext ==
  \/ SweepLists
  \/ \E x \in Run:
       SweepRevokes(x) \/ CancelRevokes(x) \/ BeginCleanup(x) \/ EndCleanup(x)

AgentNext ==
  \/ (LifeNext \/ ControlNext) /\ UNCHANGED agentVars
  \/ LauncherNext
  \/ MessageNext
  \/ SweepNext
  \/ Restart

AgentSpec == AgentInit /\ [][AgentNext]_allVars

-----------------------------------------------------------------------------
\* A run has one provider process, not only one row that says so: before a
\* restarted run gets its next process the last one is gone, although restart,
\* stop, cancel and the monitor's report happen in any order.  Only a daemon that
\* went down without unwinding can leave one more behind, one for each time it
\* did, and of those the launcher holds none (execute_codebuddy,
\* finish_launch_attempt, enqueue_run_restart, recover_launch_jobs_after_restart).
OneLocalProcessPerRun ==
  \A x \in Run:
    LET here == {l \in alive: RunOf(l) = x} IN
    /\ Cardinality(here) <= 1 + restarts
    /\ \A l, m \in here: proc[l] \in Attached /\ proc[m] \in Attached => l = m

\* A message reaches the prompt of one process, and of another one only after
\* the daemon crashed between writing a prompt and recording it: a failed launch
\* or a lost acknowledgement does not deliver it twice
\* (claim_, complete_ and release_claimed_agent_deliveries, recover_...).
GivenOnce ==
  \A d \in Message: Cardinality(given[d]) <= 1 + restarts

\* A message that its author was told is recalled is in nobody's prompt, unless
\* a crash hid that it had been read (recall_human_task_message against
\* claim_agent_deliveries_for_launch).
WithdrawnWasNotGiven ==
  \A d \in Message: delivery[d].status = "recalled" /\ restarts = 0 => given[d] = {}

\* Once the runtime scope of an ended run is recorded as finished no capability
\* for it is adopted, however late the answer of the runtime came: "a token
\* issued for a cancelled Run is never adopted" (try_adopt_run_capability,
\* runtime_sweep).
FinishedScopeHasNoCapability ==
  \A x \in Run: run[x].scope = "terminal" /\ run[x].status \in EndedRunStatus =>
    adopted[x] = 0
=============================================================================
