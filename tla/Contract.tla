------------------------------ MODULE Contract ------------------------------
(* What a task has to satisfy and how that is decided: the revisions of its   *)
(* contract (revision.rs), the runtime checks, reviews and human verdicts on  *)
(* its criteria (acceptance.rs, the server's verification.rs) and the gate of *)
(* its completion (completion.rs).  One task and its executors; which agent   *)
(* may be executor or reviewer is Lifecycle's business.  The same evidence is *)
(* cited for every criterion.                                                 *)
(*                                                                            *)
(* Receipts are numbered in the order of created_at.  A check remembers, in   *)
(* settled, how many receipts there were when it finished, so comparing it    *)
(* with the number of a review compares finished_at with created_at.          *)
EXTENDS Naturals, Sequences, FiniteSets

CONSTANTS
  Checked,    \* criteria with a deterministic or artifact check
  Reviewed,   \* criteria that need an independent review
  Human,      \* criteria that a human decides
  Waivable,   \* criteria with allow_not_applicable
  Evidence,   \* the artifact lists that reviews and completions cite
  Judgement,  \* the verdicts that reviewers and humans give
  NRun, NReceipt, NRevision, NContext   \* bounds of the tables

Run == 1 .. NRun
Criterion == Checked \cup Reviewed \cup Human

ASSUME ContractAssumption ==
  /\ NRun \in Nat /\ NReceipt \in Nat /\ NRevision \in Nat /\ NContext \in Nat
  /\ Human \cap (Checked \cup Reviewed) = {} /\ Waivable \subseteq Criterion
  /\ Judgement \subseteq {"PASS", "FAIL", "BLOCKED"}

VARIABLES
  state,      \* tasks.state
  spec,       \* tasks.spec_version
  contract,   \* tasks.acceptance_version and current_context_revision_id
  runs,       \* the executor assignments in the order of their claims, each with
              \* its run; known and read are the version its agent agreed to and
              \* the context it was told of last, kept is FALSE once the sweep expired it
  revisions,  \* task_revisions, by version - 1
  receipts,   \* verification_receipts
  waiting,    \* the checks whose server call awaits the runtime (volatile)
  record      \* the completion record

vars == <<state, spec, contract, runs, revisions, receipts, waiting, record>>
revisionVars == <<spec, contract, revisions>>

-----------------------------------------------------------------------------
Verdict == {"PASS", "FAIL", "BLOCKED"}
Version == 1 .. NRevision + 1
ContractRow == [acceptance: Version, context: 1 .. NContext]
RunRow == [status: {"none", "claimed", "running", "paused", "ended", "completed"},
           lease: {"none", "held", "lapsed", "lost"}, kept: BOOLEAN,
           known: Version \cup {0}, read: 0 .. NContext]
RevisionRow == [status: {"pending_ack", "applied", "rejected"}, base: Version,
                before: 1 .. NContext, after: 0 .. NContext]
ReceiptRow == [run: Run, criterion: Criterion, kind: {"check", "review", "human"},
               contract: ContractRow, seen: ContractRow, verdict: Verdict,
               settled: 0 .. NReceipt, evidence: Evidence \cup {"none"}]
NoRecord == [run |-> 0]
RecordRow == [run: Run, contract: ContractRow, evidence: Evidence,
              cited: SUBSET (1 .. NReceipt), waived: SUBSET Waivable]

ContractTypeOK ==
  /\ state \in {"ready", "in_progress", "review", "done", "cancelled"}
  /\ spec \in Version
  /\ contract \in ContractRow
  /\ runs \in [Run -> RunRow]
  /\ Len(revisions) <= NRevision
  /\ \A v \in DOMAIN revisions: revisions[v] \in RevisionRow
  /\ Len(receipts) <= NReceipt
  /\ \A i \in DOMAIN receipts: receipts[i] \in ReceiptRow
  /\ waiting \subseteq DOMAIN receipts
  /\ record \in RecordRow \cup {NoRecord}

NoRun == [status |-> "none", lease |-> "none", kept |-> FALSE, known |-> 0, read |-> 0]

ContractInit ==
  /\ state = "ready"
  /\ spec = 1
  /\ contract = [acceptance |-> 1, context |-> 1]
  /\ runs = [x \in Run |-> NoRun]
  /\ revisions = <<>>
  /\ receipts = <<>>
  /\ waiting = {}
  /\ record = NoRecord

-----------------------------------------------------------------------------
(* Queries. *)
Terminal == state \in {"done", "cancelled"}
Live(x) == runs[x].status \in {"running", "paused"}
InFlight == \E x \in Run: Live(x)
\* assignments.status = 'active'; held compares expires_at with the clock, too
Active(x) == runs[x].lease \in {"held", "lapsed"}
Held(x) == runs[x].lease = "held"
\* a released assignment: nothing reads more of it than that
EndedRun == [NoRun EXCEPT !.status = "ended"]

\* live_run_conn with role executor
LiveExecutor(x) == runs[x].status = "running" /\ Held(x)

PendingRevision == \E v \in DOMAIN revisions: revisions[v].status = "pending_ack"

\* the receipts that the last one of (run, criterion, contract, kind) is taken from
\* mutant: the context is not compared
OfVersion(x, c, k) ==
  {i \in DOMAIN receipts:
     /\ receipts[i].run = x /\ receipts[i].criterion = c /\ receipts[i].kind = k
     /\ receipts[i].contract.acceptance = contract.acceptance}
\* mutant: the run is not compared
OfAnyRun(x, c, k) ==
  {i \in DOMAIN receipts:
     /\ receipts[i].criterion = c /\ receipts[i].kind = k
     /\ receipts[i].contract = contract}
Attempts(x, c, k) ==
  {i \in DOMAIN receipts:
     /\ receipts[i].run = x /\ receipts[i].criterion = c /\ receipts[i].kind = k
     /\ receipts[i].contract = contract}
Latest(x, c, k) ==
  {i \in Attempts(x, c, k): \A j \in Attempts(x, c, k): j <= i}

Kinds(c) == {k \in {"check", "review", "human"}:
               \/ k = "check" /\ c \in Checked
               \/ k = "review" /\ c \in Reviewed
               \/ k = "human" /\ c \in Human}

\* a check of the run, of whatever contract, began or finished after review i
\* mutant: only the beginning counts
BegunSince(x, i) ==
  \E j \in DOMAIN receipts:
    receipts[j].run = x /\ receipts[j].kind = "check" /\ j > i
CheckedSince(x, i) ==
  \E j \in DOMAIN receipts:
    /\ receipts[j].run = x /\ receipts[j].kind = "check"
    /\ j > i \/ receipts[j].settled >= i

\* criterion_statuses_conn for a completion that cites evidence e and does not
\* waive the criterion
Met(x, c, e) ==
  \A k \in Kinds(c): \E i \in Latest(x, c, k):
    /\ receipts[i].verdict = "PASS"
    /\ k = "review" => receipts[i].evidence = e /\ ~CheckedSince(x, i)

NewReceipt(x, c, k, v, seen, e) ==
  [run |-> x, criterion |-> c, kind |-> k, contract |-> contract, seen |-> seen,
   verdict |-> v, settled |-> 0, evidence |-> e]

-----------------------------------------------------------------------------
(* Runtime checks.  verify provisions the runtime, reserves the attempt, lets *)
(* the runtime run the check and then writes the outcome: between the two     *)
(* transactions anything may happen, the server may stop included.            *)

\* what the previous attempt of the same contract allows
\* mutant: an attempt that ended without an outcome may be repeated
Finished(x, c) == \A i \in Latest(x, c, "check"): i \notin waiting
Resolved(x, c) == \A i \in Latest(x, c, "check"): receipts[i].verdict # "BLOCKED"

BeginVerification(x, c) ==
  /\ state \in {"in_progress", "review"}
  /\ LiveExecutor(x)
  /\ ~PendingRevision
  /\ c \in Checked
  /\ Resolved(x, c)
  /\ Len(receipts) < NReceipt
  /\ receipts' = Append(receipts, NewReceipt(x, c, "check", "BLOCKED", contract, "none"))
  /\ waiting' = waiting \cup {Len(receipts) + 1}
  /\ UNCHANGED <<state, runs, record, revisionVars>>

\* finish_verification: the outcome is written whatever happened meanwhile; an
\* error of the runtime call leaves the attempt BLOCKED
FinishVerification(i, v) ==
  /\ i \in waiting
  /\ waiting' = waiting \ {i}
  /\ receipts' = [receipts EXCEPT ![i] =
                    [@ EXCEPT !.verdict = v, !.settled = Len(receipts)]]
  /\ UNCHANGED <<state, runs, record, revisionVars>>

\* the server process stops, or the caller hangs up and its call is dropped
CallLost(i) ==
  /\ i \in waiting
  /\ waiting' = waiting \ {i}
  /\ UNCHANGED <<state, runs, receipts, record, revisionVars>>

\* reconcile_verification: the operator has seen what became of the check
Reconcilable(i) == receipts[i].verdict = "BLOCKED" /\ receipts[i].settled # 0

ReconcileVerification(i) ==
  /\ Reconcilable(i)
  /\ receipts' = [receipts EXCEPT ![i] = [@ EXCEPT !.verdict = "FAIL"]]
  /\ UNCHANGED <<state, runs, waiting, record, revisionVars>>

-----------------------------------------------------------------------------
(* Verdicts.  A reviewer reads the contract (review_context) and gives a      *)
(* verdict later: seen is what it read.                                       *)

\* the reader's snapshot against the task's
\* mutant: a change of context alone goes unnoticed
SeenVersion(seen) == seen.acceptance = contract.acceptance
SnapshotIsCurrent(seen) == seen = contract

\* no check that has been attempted is pending or failed, one whose criterion
\* may be waived excepted
ChecksPassed(x) ==
  \A c \in Checked: \A i \in Latest(x, c, "check"):
    \/ receipts[i].verdict = "PASS"
    \/ receipts[i].verdict = "FAIL" /\ c \in Waivable

SubmitReview(x, c, v, seen, e) ==
  /\ Live(x)
  /\ ~PendingRevision
  /\ SnapshotIsCurrent(seen)
  /\ c \in Reviewed
  /\ v = "PASS" => ChecksPassed(x)
  /\ Len(receipts) < NReceipt
  /\ receipts' = Append(receipts, NewReceipt(x, c, "review", v, seen, e))
  /\ state' = IF v = "FAIL" THEN "in_progress" ELSE "review"
  /\ UNCHANGED <<runs, waiting, record, revisionVars>>

SubmitHumanReview(x, c, v, seen) ==
  /\ Live(x)
  /\ ~PendingRevision
  /\ SnapshotIsCurrent(seen)
  /\ c \in Human
  /\ Len(receipts) < NReceipt
  /\ receipts' = Append(receipts, NewReceipt(x, c, "human", v, seen, "none"))
  /\ UNCHANGED <<state, runs, waiting, record, revisionVars>>

\* complete_run with completion_check_conn and save_completion_conn: the report
\* cites the artifacts e, names the context its agent was told of and declares
\* the criteria w NOT_APPLICABLE
\* mutant: a revision that waits for its acknowledgment is ignored
Passed(x, e, w) == ~Terminal /\ \A c \in Criterion \ w: Met(x, c, e)
Ready(x, e, w) ==
  ~Terminal /\ ~PendingRevision /\ \A c \in Criterion \ w: Met(x, c, e)

CompleteRun(x, e, w) ==
  /\ Live(x) /\ Held(x)
  /\ Ready(x, e, w)
  /\ Criterion # {} => runs[x].read = contract.context
  /\ record' = [run |-> x, contract |-> contract, evidence |-> e, waived |-> w,
                cited |-> {i \in DOMAIN receipts:
                             \E c \in Criterion \ w: \E k \in Kinds(c):
                               i \in Latest(x, c, k)}]
  /\ runs' = [runs EXCEPT ![x] = [@ EXCEPT !.status = "completed", !.lease = "none"]]
  /\ state' = "done"
  /\ UNCHANGED <<receipts, waiting, revisionVars>>

-----------------------------------------------------------------------------
(* Revisions. *)

\* write_context_revision, at any time and in any state of the task: the
\* control plane and the executor use it, and it stales what was seen before
WriteContext ==
  /\ contract.context < NContext
  /\ contract' = [contract EXCEPT !.context = @ + 1]
  /\ UNCHANGED <<state, spec, runs, revisions, receipts, waiting, record>>

\* apply_tx on the revision r of version v
\* mutant: the context may have moved
SameBase(r) == ~Terminal /\ r.base = spec
Applicable(r) == ~Terminal /\ r.base = spec /\ r.before = contract.context

Apply(v, r) ==
  /\ contract.context < NContext
  /\ contract' = [acceptance |-> contract.acceptance + 1, context |-> contract.context + 1]
  /\ spec' = v
  /\ revisions' = [n \in DOMAIN revisions \cup {v - 1} |->
                     IF n = v - 1
                     THEN [r EXCEPT !.status = "applied", !.after = contract.context + 1]
                     ELSE revisions[n]]

\* who has to agree first
\* mutant: only a task in progress has an executor to ask
InProgress == state = "in_progress"
NeedsAck == InFlight \/ state \in {"in_progress", "review"}

\* propose_task_revision; expected is the version that the author read
ProposeRevision(expected) ==
  LET v == Len(revisions) + 2
      r == [status |-> "pending_ack", base |-> spec, before |-> contract.context,
            after |-> 0]
  IN
  /\ ~Terminal
  /\ expected = spec
  /\ ~PendingRevision
  /\ Len(revisions) < NRevision
  /\ \/ /\ NeedsAck
        /\ revisions' = Append(revisions, r)
        /\ UNCHANGED <<spec, contract>>
     \/ /\ ~NeedsAck
        /\ Apply(v, r)
  /\ UNCHANGED <<state, runs, receipts, waiting, record>>

\* ack_task_revision by the executor's run x: it continues under the new contract
AckRevision(v, x) ==
  /\ revisions[v - 1].status = "pending_ack"
  /\ Live(x) /\ Held(x)
  /\ Applicable(revisions[v - 1])
  /\ Apply(v, revisions[v - 1])
  /\ runs' = [runs EXCEPT ![x] = [@ EXCEPT !.known = v, !.read = contract.context + 1]]
  /\ UNCHANGED <<state, receipts, waiting, record>>

\* reject_task_revision by the publisher, the executor or an operator
RejectRevision(v) ==
  /\ ~Terminal
  /\ revisions[v - 1].status = "pending_ack"
  /\ revisions' = [revisions EXCEPT ![v - 1] = [@ EXCEPT !.status = "rejected"]]
  /\ UNCHANGED <<state, spec, contract, runs, receipts, waiting, record>>

-----------------------------------------------------------------------------
(* The executors: claims, runs and leases, reduced to what the contract       *)
(* depends on.  An assignment has one run here; a later one would start like  *)
(* the first.                                                                 *)
Unused(x) == runs[x].status = "none" /\ \A y \in Run: y < x => runs[y].status # "none"
NewRun == [status |-> "running", lease |-> "held", kept |-> TRUE, known |-> spec,
           read |-> contract.context]

\* claim_task_tx and the dispatcher: the role is free once its lease expired,
\* whatever became of the run that worked under it
Claim(x) ==
  /\ ~Terminal
  /\ Unused(x) /\ \A y \in Run: ~Active(y)
  /\ runs' = [runs EXCEPT ![x] =
               [NoRun EXCEPT !.status = "claimed", !.lease = "held", !.kept = TRUE]]
  /\ state' = IF state = "ready" THEN "in_progress" ELSE state
  /\ UNCHANGED <<receipts, waiting, record, revisionVars>>

\* start_run_tx: no other run of the same assignment
StartRun(x) ==
  /\ runs[x].status = "claimed" /\ Held(x)
  /\ runs' = [runs EXCEPT ![x] = NewRun]
  /\ UNCHANGED <<state, receipts, waiting, record, revisionVars>>

\* task_context, or the template of run_completion_check, for the run's agent
ReadContext(x) ==
  /\ Live(x)
  /\ runs' = [runs EXCEPT ![x] = [@ EXCEPT !.read = contract.context]]
  /\ UNCHANGED <<state, receipts, waiting, record, revisionVars>>

\* stop_launch_attempt
PauseRun(x) ==
  /\ runs[x].status = "running"
  /\ runs' = [runs EXCEPT ![x] = [@ EXCEPT !.status = "paused"]]
  /\ UNCHANGED <<state, receipts, waiting, record, revisionVars>>

LeaseLapses(x) ==
  /\ Held(x)
  /\ runs' = [runs EXCEPT ![x] = [@ EXCEPT !.lease = "lapsed"]]
  /\ UNCHANGED <<state, receipts, waiting, record, revisionVars>>

\* expire_stale_assignments: the run stays as it is
ExpireLease(x) ==
  /\ runs[x].lease = "lapsed"
  /\ runs' = [runs EXCEPT ![x] = [@ EXCEPT !.lease = "lost", !.kept = FALSE]]
  /\ UNCHANGED <<state, receipts, waiting, record, revisionVars>>

\* recover_assignment: unless a successor is active, also after one was
RecoverLease(x) ==
  /\ state = "in_progress"
  /\ Live(x) /\ runs[x].lease \in {"lapsed", "lost"}
  /\ \A y \in Run: Active(y) => y = x
  /\ runs' = [runs EXCEPT ![x] = [@ EXCEPT !.lease = "held"]]
  /\ UNCHANGED <<state, receipts, waiting, record, revisionVars>>

\* create_handoff
Handoff(x) ==
  /\ Live(x) /\ Held(x)
  /\ runs' = [runs EXCEPT ![x] = EndedRun]
  /\ state' = IF state = "in_progress" THEN "ready" ELSE state
  /\ UNCHANGED <<receipts, waiting, record, revisionVars>>

\* takeover_task_request, an operator's one included: every earlier executor
\* leaves and the new one has a run at once
Takeover(x) ==
  /\ state = "in_progress"
  /\ Unused(x)
  /\ runs' = [y \in Run |-> IF y = x THEN NewRun
                            ELSE IF Live(y) \/ runs[y].status = "claimed" THEN EndedRun
                            ELSE runs[y]]
  /\ UNCHANGED <<state, receipts, waiting, record, revisionVars>>

\* cancel_task_tx
CancelTask ==
  /\ ~Terminal
  /\ state' = "cancelled"
  /\ runs' = [x \in Run |-> IF Live(x) \/ Active(x) THEN EndedRun ELSE runs[x]]
  /\ revisions' = [v \in DOMAIN revisions |->
                     IF revisions[v].status = "pending_ack"
                     THEN [revisions[v] EXCEPT !.status = "rejected"] ELSE revisions[v]]
  /\ UNCHANGED <<spec, contract, receipts, waiting, record>>

ContractNext ==
  \/ \E x \in Run, c \in Criterion:
       \/ BeginVerification(x, c)
       \/ \E v \in Judgement, seen \in ContractRow:
            \/ \E e \in Evidence: SubmitReview(x, c, v, seen, e)
            \/ SubmitHumanReview(x, c, v, seen)
  \/ \E i \in DOMAIN receipts:
       \/ \E v \in Verdict: FinishVerification(i, v)
       \/ CallLost(i)
       \/ ReconcileVerification(i)
  \/ \E x \in Run, e \in Evidence, w \in SUBSET Waivable: CompleteRun(x, e, w)
  \/ WriteContext
  \/ \E v \in Version: ProposeRevision(v)
  \/ \E v \in 2 .. Len(revisions) + 1:
       RejectRevision(v) \/ \E x \in Run: AckRevision(v, x)
  \/ \E x \in Run:
       \/ Claim(x) \/ StartRun(x) \/ ReadContext(x) \/ PauseRun(x)
       \/ LeaseLapses(x) \/ ExpireLease(x) \/ RecoverLease(x)
       \/ Handoff(x) \/ Takeover(x)
  \/ CancelTask

ContractSpec == ContractInit /\ [][ContractNext]_vars

-----------------------------------------------------------------------------
\* What a completion rests on still stands: every criterion that it did not
\* waive with permission has its receipts, all of them PASS on its own run and
\* on the contract that was in force, and no late outcome, reconciliation,
\* review, context or revision has changed that since (complete_run,
\* criterion_statuses_conn, finish_verification).
CompletionStands ==
  state = "done" =>
    /\ record.waived \subseteq Waivable
    /\ \A c \in Criterion \ record.waived: \A k \in Kinds(c): \E i \in record.cited:
         receipts[i].criterion = c /\ receipts[i].kind = k
    /\ \A i \in record.cited:
         /\ receipts[i].run = record.run
         /\ receipts[i].contract = record.contract
         /\ receipts[i].verdict = "PASS"

\* When work is accepted, its reviewer had read the final contract and judged
\* the evidence that is delivered, and no check of the run has begun or ended
\* since: "A later runtime verification attempt invalidates earlier independent
\* PASS review" (docs/acceptance-contracts.md:60; submit_review, complete_run).
ReviewSawTheEnd ==
  [][state' = "done" /\ state # "done" =>
       \A i \in record'.cited: receipts[i].kind = "review" =>
         /\ receipts[i].seen = record'.contract
         /\ receipts[i].evidence = record'.evidence
         /\ \A j \in DOMAIN receipts:
              receipts[j].run = record'.run /\ receipts[j].kind = "check" =>
                j < i /\ receipts[j].settled < i]_vars

\* An executor works under a contract it has agreed to: for a run whose lease
\* the sweep has never taken, the version in force is the one it started with or
\* the last one it acknowledged, and so it is for the run that finished the task.
\* One that lost its lease and recovered it may have missed what a successor
\* acknowledged, but it cannot finish without having been told of the context
\* that came with it.  And no task is finished or cancelled while a proposal waits
\* (propose_task_revision, ack_task_revision, complete_run, cancel_task_tx;
\* "a concurrent proposal cannot silently slip past it",
\* docs/task-revisions.md:54).
Agreed(x) == runs[x].kept => runs[x].known = spec

ExecutorKnowsContract ==
  /\ \A x \in Run: Live(x) => Agreed(x)
  /\ state = "done" =>
       /\ Agreed(record.run)
       /\ Criterion # {} => runs[record.run].read = record.contract.context
  /\ Terminal => ~PendingRevision

\* A revision rewrites the goal and scope that its author saw: no context that
\* was written between the proposal and the acknowledgment is lost, and the
\* applied versions form one line (apply_tx).
RevisionsFormALine ==
  \A v \in DOMAIN revisions: revisions[v].status = "applied" =>
    /\ revisions[v].after = revisions[v].before + 1
    /\ \A w \in DOMAIN revisions: revisions[w].status = "applied" /\ w < v =>
         revisions[v].base >= w + 1 /\ revisions[v].before >= revisions[w].after

\* A check is not repeated while the outcome of the last attempt is unknown,
\* whatever was lost in between: "there is no automatic replay"
\* (begin_verification; docs/acceptance-contracts.md:45).
NoBlindReplay ==
  \A i, j \in DOMAIN receipts:
    /\ i < j /\ receipts[i].kind = "check" /\ receipts[j].kind = "check"
    /\ receipts[i].run = receipts[j].run
    /\ receipts[i].criterion = receipts[j].criterion
    /\ receipts[i].contract = receipts[j].contract
    => receipts[i].verdict # "BLOCKED"

\* What the documentation says of a lost response: the operator can mark it
\* FAIL, "permitting a new actual check" (docs/acceptance-contracts.md:45-50).
\* So an attempt of a live run that nobody is waiting for can be reconciled.
\* It cannot: the criterion is blocked until the context moves on, or for good
\* if it cannot be waived.
LostResponseCanBeReconciled ==
  \A i \in DOMAIN receipts:
    Live(receipts[i].run) /\ i \notin waiting /\ receipts[i].verdict = "BLOCKED"
      /\ receipts[i].kind = "check"
    => Reconcilable(i)
=============================================================================
