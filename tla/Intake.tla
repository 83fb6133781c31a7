-------------------------------- MODULE Intake ------------------------------
(* Task intake: the phases an executor assignment goes through before its     *)
(* agent may implement (intake.rs, task_message.rs, lib.rs of morrows-store). *)
(* The four intake calls read the assignment and check its phase before they  *)
(* open their transaction, so each is two steps here: Check, which leaves the *)
(* call in flight, and the transaction, which sees whatever came in between.  *)
(* Receipts, the interview transcript and the memory snapshot are left open.  *)
EXTENDS WorkStore, FiniteSets

CONSTANT MaxCalls   \* bound: intake calls in flight at once

ASSUME MaxCallsAssumption == MaxCalls \in Nat

\* the phase each call insists on when it reads the assignment
CheckedPhase(op) ==
  CASE op = "read"      -> Phase \ {"implementing"}
    [] op = "interview" -> {"context_review", "human_interview"}
    [] op = "finalize"  -> {"human_interview"}
    [] op = "execute"   -> {"ready"}

\* active_executor_assignment and the check on its phase
IntakeCheck(a, op) ==
  /\ LiveLease(a) /\ asg[a].role = "executor"
  /\ asg[a].phase \in CheckedPhase(op)
  /\ <<a, op>> \notin calls
  /\ Cardinality(calls) < MaxCalls
  /\ calls' = calls \cup {<<a, op>>}
  /\ UNCHANGED <<task, asg, run, requests, launchVars>>

\* UPDATE assignments SET phase = p WHERE status = 'active', and the lease
\* extended to twenty-four hours from now
MoveToPhase(a, p) ==
  asg' = IF asg[a].status = "active"
         THEN [asg EXCEPT ![a] = [@ EXCEPT !.phase = p, !.lapsed = FALSE]]
         ELSE asg

IntakeDone(a, op) ==
  /\ <<a, op>> \in calls
  /\ calls' = calls \ {<<a, op>>}
  /\ UNCHANGED <<task, run, requests, launchVars>>

\* the transaction of the call is refused or has nothing to change
IntakeRefused(a, op) == IntakeDone(a, op) /\ UNCHANGED asg

\* record_intake_read when the memory or context snapshot has changed since
\* the interview began
IntakeRead(a) ==
  /\ IntakeDone(a, "read")
  /\ asg' = IF asg[a].status = "active"
            THEN [asg EXCEPT ![a] = [@ EXCEPT !.phase = "context_review"]]
            ELSE asg

StartInterview(a) ==
  /\ IntakeDone(a, "interview")
  /\ GateEligible(asg[a].task)
  /\ MoveToPhase(a, "human_interview")

\* mutant: the phase is not looked at again
FinalizeAnyInterview(a) == IntakeDone(a, "finalize") /\ MoveToPhase(a, "ready")

\* refused while the conversation has not started, that is in context_review
FinalizeInterview(a) ==
  /\ IntakeDone(a, "finalize")
  /\ asg[a].phase # "context_review"
  /\ MoveToPhase(a, "ready")

\* begin_task_execution compares the phase again in its UPDATE
BeginExecution(a) ==
  /\ IntakeDone(a, "execute")
  /\ GateEligible(asg[a].task)
  /\ asg[a].status = "active" /\ asg[a].phase = "ready"
  /\ asg' = [asg EXCEPT ![a] = [@ EXCEPT !.phase = "implementing"]]

\* a human message in the interview thread reopens the interview
HumanMessage(a) ==
  /\ asg[a].status = "active" /\ asg[a].phase \in {"human_interview", "ready"}
  /\ MoveToPhase(a, "human_interview")
  /\ UNCHANGED <<task, run, requests, calls, launchVars>>

\* agent_reply_task_thread renews the lease of an interview, lapsed or not
AgentReply(a) ==
  /\ asg[a].status = "active" /\ asg[a].phase = "human_interview"
  /\ MoveToPhase(a, "human_interview")
  /\ UNCHANGED <<task, run, requests, calls, launchVars>>

\* moving the task to another project invalidates the intake of its executor
ReassignProject(t) ==
  LET executors == ActiveFor(asg, t, "executor") IN
  /\ \A a \in executors: asg[a].phase # "implementing"
  /\ asg' = [a \in Asg |-> IF a \in executors
                           THEN [asg[a] EXCEPT !.phase = "context_review"]
                           ELSE asg[a]]
  /\ UNCHANGED <<task, run, requests, calls, launchVars>>

IntakeNext ==
  \/ \E a \in Asg, op \in IntakeOp: IntakeCheck(a, op) \/ IntakeRefused(a, op)
  \/ \E a \in Asg:
       \/ IntakeRead(a)
       \/ StartInterview(a)
       \/ FinalizeInterview(a)
       \/ BeginExecution(a)
       \/ HumanMessage(a)
       \/ AgentReply(a)
  \/ \E t \in Task: ReassignProject(t)
=============================================================================
