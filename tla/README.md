# Morrows: a TLA+ model of its control plane

Morrows hands work items ("tasks") to coding agents, keeps track of who works on
what, starts agent processes and cleans up behind them, decides when work is
accepted, keeps a project memory that the agents share, and authenticates all of
them. This directory holds TLA+ modules translated from its Rust source, TLC
configurations that model-check them, and proofs checked by TLAPS. `PROJECT.json`
is the index: components, runs, mutants, the source lines of each definition,
findings, hazards and theorems.

Check a run with `tlc -config <file>.cfg <module>`, a proof with
`tlapm OwnershipProofs.tla`.

## 1. The system

| Component (source) | State it keeps | Operations | What makes it correct |
|---|---|---|---|
| Claims and leases (`store/lib.rs`, `assignment_request.rs`, `dispatch.rs`) | `tasks.state`, `assignments` with role, phase and expiry, `assignment_requests` | claim, open claim with run, request / approve / close, dispatch, lease renewal, expiry sweep, recovery | one owner per role; a good lease is not taken away; what was ended is not revived |
| Execution (`lib.rs`, `collaboration.rs`, `takeover.rs`, `continuation.rs`, `runtime.rs`) | `runs`, `handoffs`, takeover receipts | start, complete, hand off, take over, cancel a run, cancel a task | ended runs keep their outcome; cancel is complete and final; a done task has no executor |
| Acceptance (`acceptance.rs`, `completion.rs`, `server/verification.rs`) | criteria, receipts, verification attempts, completion records | verify, reconcile, review, human verdict, complete, waive | a completion rests on receipts of its own run and contract, permitted waivers excepted; no check is repeated blindly |
| Revision (`revision.rs`) | `task_revisions`, contract and context versions | propose, acknowledge, reject, write context | an executor works under a contract it agreed to; revisions form one line |
| Task graph and rework (`task_graph.rs`, `collaboration.rs`, `task_rework.rs`) | `task_dependencies`, chains and their members | add and remove edges, chains, conditions, joins, archive; gate; reopen, rework | no cycle, nobody waits for ever, no verdict is taken back under running work |
| Intake (`intake.rs`, `task_message.rs`) | `assignments.phase`, receipts, interview | read, interview, finalize, execute, human message, agent reply | implementation starts from a converged interview |
| Launcher (`store/launch.rs`, `server/launch.rs`) | `launch_attempts`, `jobs`; per attempt a task and a process | enqueue, claim job, begin, spawn, running, poll, kill, finish, stop, invite, reconcile, recover after restart | one process per run, one live run per assignment |
| Runtime scope and capability (`runtime.rs`, `server/morrow_runtime.rs`) | `run_runtime_provisioning`, `run_runtime_bindings` | provision, bind, adopt, revoke, interrupt, restart, cancel, clean up, terminalize | no successor before the cleanup; nothing lives in a finished scope; every cancel ends |
| Job waits (`job_wait.rs`) | `run_job_waits`, terminal events | register, ingest, resume | a resumed run is still one run |
| Delivery (`delivery.rs`, `task_message.rs`) | `agent_deliveries` | enqueue, claim for a launch, complete, release, recover, recall, acknowledge | given to one process; a recalled message was given to none |
| Project memory (`memory.rs`, `git_memory.rs`, `fleet.rs`) | `memory_entries`, `memory_git_*`, a Git reference | publish, mirror, cut over, reconcile, rebuild, merge agents | published knowledge is only added to, through any crash |
| OAuth, operator sessions (`server/oauth.rs`, `operator_auth.rs`) | clients, prompts, codes, grants, tokens; credentials, logins | register, consent, redeem, refresh, revoke; log in, approve, poll | single use, replay ends a family, no more than was consented to |
| Fleet, identity, discovery, milestones, context packages | registration rows, append-only records | register, heartbeat, list | no state of the life cycle depends on them |
| MCP and REST surface (`server/mcp.rs`, `main.rs`, ...) | none | parse, authorise, call the store | the store decides |
| Execution plane (`morrow-runtime`, Python) | jobs, logical sessions, remote workers | provision, run job, cancel session | seen here through the calls the control plane makes |
| Web interface, CLI | none | presentation | - |

How they interact. All durable state is one SQLite database and the Git
references of project memories. Almost every store function is one
`BEGIN IMMEDIATE` transaction, so store functions are atomic with respect to each
other. What interleaves is therefore (a) transactions of different actors: agents
over MCP, operators over REST, the loops of the server; (b) functions that read
*before* they open their transaction (intake calls, `bind_run_runtime`,
`reconcile_external_launches`, the stop handler, consent approvals); (c) calls that
take two transactions around a wait (verification, provisioning, the sweep);
(d) the world behind a transaction: processes, prompts, the runtime service, the
Git reference, time. The loops are the lease sweep (5 s), the dispatch scheduler,
the launch worker (500 ms), the delivery worker and the runtime sweep (5 s)
started in `server/main.rs:330-366`.

What is hard: leases that have lapsed but are not expired yet; expired owners that
still have a running run and may recover it; takeover, recovery and dispatch
racing each other; cancel racing everything; answers, exits, verdicts and outcomes
that arrive after what they belong to has ended; a crash between any two of
"operation prepared", "reference moved", "index written"; a daemon restart with
processes and claimed messages behind it; retries of what was already done;
revisions of a contract under a running executor. The `hazards` of `PROJECT.json`
list each at its line, with the properties that cover it or the reason why none
does.

## 2. Modules

    WorkStore   tables, types, shared queries      (no actions)
      Claims    assignments from claim to expiry    \
      Execution runs, takeover, review, cancel        > Lifecycle  (MCLifecycle)
      Intake    phases of an executor assignment    /       \
      Launch    attempts, scopes, waits, sweep  ----------->  Morrows  (MCMorrows)
                                                                |  \
      Monitors      who watches an attempt, fairness  ----------+   |  (MCMonitors)
      AgentProcess  processes, capabilities, messages  -------------+  (MCAgentProcess)

    Contract       revisions, checks, reviews, completion    (MCContract)
    TaskGraph      dependencies, chains, the gate            (MCTaskGraph)
    Credentials    OAuth registry and operator logins        (MCCredentials)
    ProjectMemory  SQL and Git store of one project          (MCProjectMemory)
      implements PublishedMemory, an append-only log

    MorrowsProofs -> OwnershipProofs -> LifecycleProofs -> AgentProofs   (TLAPS)
    ContractProofs, TaskGraphProofs, CredentialsProofs, ProjectMemoryProofs

- **WorkStore** has one variable per table (`task`, `asg`, `run`, `requests`,
  `attempt`) and three for what is in flight: `calls` (intake calls past their
  check), `retiring` (external attempts found to have ended), `binding` (runtime
  calls not answered yet). These three are volatile: a daemon restart empties
  them. Row ids are given in order of insertion, so that
  `ORDER BY acquired_at DESC, rowid DESC` is "the largest id". `run` carries the
  scope (`none`, `intent` = provisioning row, `bound`, `terminal`), the restart
  window and the wait of the run, which are rows of their own in SQL.
- **Claims, Execution, Intake, Launch** have one action per store function, named
  after it. A lease is a flag `lapsed` rather than a time: `LeaseLapses` may set
  it at any moment, renewal is that step not being taken. The restart window is
  treated the same way (`WindowCloses`).
- **Intake** models each call as two steps, `IntakeCheck` and the transaction,
  because the code reads the assignment first. `IntakeRefused` is a transaction
  that is refused or has nothing to change.
- **Launch** treats the provider process and the runtime as environment. Cleanup
  takes one step (`CompleteCleanup`) because everything before its transaction is
  retried calls to the runtime.
- **Lifecycle** and **Morrows** are the compositions.
- **Monitors** adds to Morrows which attempts nobody watches any more
  (`unwatched`): the task of an attempt leaves at the first call that fails, and if
  its report fails as well the attempt stays where it is (`MonitorLost`). A daemon
  that starts again watches the managed attempts, those excepted that it cannot
  resolve (`MonitoredRestart`). Liveness is stated here, under `FairMonitorSpec`.
- **AgentProcess** looks between the transactions of Launch. `proc` is how far the
  launcher's task of an attempt has come (capability issued and adopted, process
  spawned, reported running, messages claimed, prompt written, watched, exited),
  `alive` whether its process exists, so that `StopLaunch` and cancel end an
  attempt while its process lives on until the next poll kills it. `delivery` is
  the table of messages and `given` what no table records: which process had a
  message in its prompt. `adopted` is the capability of a run; the sweep first
  lists interrupted runs and revokes later. `Restart` empties what is volatile and
  may leave any of the local processes behind: they are killed when their handle is
  dropped, which a crash, a SIGKILL or an unhandled SIGTERM does not do, and the
  recovery of the launch jobs kills nothing. Such an orphan ends by itself
  (`OrphanExits`), and a launcher holds the others (`Attached`).
- **Contract** has the revisions of one task's contract, its receipts in order of
  creation, the calls that wait for the runtime, and the completion record. A
  verdict carries the contract that its author read. A check is two steps,
  `BeginVerification` and `FinishVerification`, with `CallLost` for a server that
  stops or a caller that hangs up in between. Its executors are numbered in the
  order of their claims, each an assignment with its run. As in the code, an expired
  owner's run stays live and `RecoverLease` may bring its assignment back beside the
  run of a successor, so that several runs may be live. A criterion in `Waivable`
  (`allow_not_applicable`) may be reported NOT_APPLICABLE: then it needs no receipt.
  One evidence list stands for those of all criteria.
- **TaskGraph** has the edges, the chain a task is a member of and the states and
  results that the gate tells apart. The rounds of `gate_conn`, which decide a
  task once its predecessors are decided, are a recursive function on the tasks,
  guarded by `NoProgress`, the case in which a round decides nobody; `Closed` and
  `WouldCycle` state reachability without recursion.
- **Credentials** has the registry (clients, prompts, codes, grants, tokens), the
  operator credentials and logins, and approvals that are past their
  authentication and before their transaction. Expiry removes a row, at any time.
  Secrets are numbered; a caller presents one that was handed out, however old.
  `legacy` is the window in which tokens of the former issuers are still accepted,
  with the role of an admin (`AuthenticateLegacy`); a deployment starts with it or
  without it, and it passes once.
- **ProjectMemory** has the committed database, the database as an open
  reconciliation has changed it (`staged`), the Git reference, and which agent a
  client acts as. A commit is named by the operation that makes it. `Crash` takes
  `staged` back to `db` and leaves the reference where it is.
- **PublishedMemory** is what a user of the memory relies on: entries are appended,
  authors are told, and what an author was told stays. `Abstract` in ProjectMemory
  maps the entries that a reader can find to its `log` and the answers to `told`.

Content that no transition looks at is left out; a precondition on left-out
content (milestones, receipts, acknowledged messages, snapshots) is left open:
the action may fire in either case, so safety is checked for more behaviours than
the code has. In TaskGraph a result of `None` means "any other result", and a
task's result is reset when it is reopened, which nothing reads.

History variables (`answers`, `faults`, `shown`, `approved`, `redeemed`, `minted`,
`replayed`, `vouched`, `given`) are read by properties and by bounds only, never by
a guard that models code.

A definition marked `mutant` restates the following definition with a plausible
mistake. No module uses it. `PROJECT.json` pairs every property of a passing run
with one of them, and the property fails under it: each property depends on the
code it is about.

## 3. Runs

Passing, with the number of distinct states:

| Run | Instance | What it shows |
|---|---|---|
| `claims` | 1 task with a native contract that needs review, 2 agents, 2 roles, 3 modes, 2 assignments, 2 runs (106,000 up to agent symmetry) | exclusive ownership, ready means unowned, a live run has an open assignment, done was reviewed, a good lease is not revoked |
| `intake` | 2 tasks, the second depends on the first; 1 agent, modes open and dispatch, 2 assignments, 2 runs, 2 calls in flight (638,000) | stale intake calls do not skip a phase; done rests on done under reopening |
| `launch` | 1 task, managed and external attempts, 2 assignments, 2 runs, 2 attempts (2.6 million) | until an external agent is invited one live run per assignment and no successor before cleanup; finished scopes are idle, a done task has no executor, ended assignments stay ended, cancel is final, all across daemon restarts |
| `launch_live` | 1 assignment, 1 run, 2 attempts of all three kinds, monitors that are lost, fairness (26,000) | cancelling, interruption and ended scopes resolve, as far as somebody watches |
| `agents` | 1 assignment, 1 run, 2 attempts of all three kinds, 1 message, 1 intake call, 1 daemon restart that leaves processes behind or not (1.5 million) | the launcher holds one local process per run, and a restart leaves at most one more; cancel leaves nothing that can act; a message is given once and a recalled one never; no capability in a finished scope; late reports change nothing |
| `memory` | 2 clients of which one may be merged, 1 key, 3 entries of which one may be an operator's, 3 Git operations, 1 fault: a crash, a foreign push or a reference that cannot be moved (1.6 million) | the store implements the append-only log; reference, index and answers agree; revisions do not fork |
| `credentials` | 2 applications, 2 prompts, 4 tokens, 1 login, 1 credential, one open prompt at a time, the migration window open or not (3.2 million up to symmetry) | single use, replay, revocation, consent and login hold |
| `contract_checks` | 1 run, 3 receipts, 2 evidence lists, 2 contexts, a check with a review and a human criterion, both of which may be waived (240,000) | the review behind a completion saw the end; no blind replay |
| `contract_revisions` | 2 executors, 2 revisions, 3 contexts, 2 receipts, leases that expire and are recovered (1.3 million) | completions stand; the executor knows its contract; revisions form one line |
| `graph` | 3 tasks, 1 chain, 3 edges, results that meet a condition or do not (358,000 up to task symmetry) | nobody waits for ever; verdicts settle |

Bounds. `NAsg`, `NRun`, `NAttempt`, `NMem`, `NOp`, `NPrompt`, `NToken`,
`NReceipt`, ... are how many rows the tables may hold, `MaxCalls` how many intake
calls are in flight, `MaxFault` and `MaxRestart` how often the world fails. Two
assignments give an owner and its successor (or an executor and a reviewer), two
runs a run and its successor, two attempts a process and its restart, three
entries a publication, its replacement and a rival, three operations a mirror, a
publication and what reconciliation finds behind it; four tokens are two families
without a rotation, or one with a rotation. Three tasks are the smallest graph with an
indirect predecessor, a join of two branches and an edge that would close a cycle
through both. These are the pairs and triples the properties relate, and every
property but the three liveness properties is proved for all bounds (section 5).

In Lifecycle and Morrows a full table only disables the insertion of rows, so
behaviours end by stuttering of the environment rather than by deadlock, and
deadlock stays checked there. `CHECK_DEADLOCK FALSE` is set in the other modules:
every row of their tables is an event that happened, and a system whose bounds are
used up has nothing left to do. `SYMMETRY` is used for agents, applications,
evidence lists and tasks, and only in runs whose temporal properties are action
properties.

`DependsOn` is a constant in the runs of the life cycle and of the launcher; the
edges of a task are edited in the run `graph`. `DoneRestsOnDone` is checked on tasks
without a native contract: with one, the late verdict below moves a done
prerequisite back under its dependents. `GateSettles` likewise: TaskGraph has no
verdicts on done tasks. `LiveLeaseIsNotRevoked` says nothing of the takeover of an
owner that recovered, which is `TakeoverSparesLiveOwner` below.
`ReadyMeansUnowned` is checked on the life cycle without the launcher:
`complete_runtime_cleanup` sets the task to ready while an operator's new claim
holds it. `OneLiveRunPerAssignment` and `NoSuccessorBeforeCleanup` are checked until
the first external agent is invited (`OneRunUntilInvited`,
`SuccessorWaitsUntilInvited`), as both fail afterwards. `accept_external_launch`
does not look at interrupted runs: a run is started and provisioned, an external launch
of its assignment is enqueued, the binding arrives and the run is interrupted, and
accepting the launch starts a second run. And `predecessor_runtime_active` looks at
local and managed attempts only: an external agent accepts and provisions a
runtime, its lease lapses and expires, a successor claims, and when the attempt
behind is reconciled its run is interrupted with the successor at work.
`ConflictIsUnpublished` is about publications: after a crash and a foreign push a
mirror in conflict may be what another mirror was built on, which harms nobody
since both hold the same entries.

## 4. Fairness

`FairMonitorSpec` assumes, per run: weak fairness of the steps of the runtime sweep
(`ProvisionStart`, `BeginExpiredCleanup`, `CompleteCleanup`, `Terminalize`), which
a loop repeats every five seconds for every run that qualifies; weak fairness of
`WindowCloses`, because time passes; strong fairness of `Bind`, because the
runtime may fail any number of calls, but the sweep repeats them and the runtime
answers again and again. `worker_loop` reconciles the attempts of external agents
every 500 ms: `CompleteExternal` and `RetireExternal` are weakly fair, and
`FailExternal` is strongly fair because a daemon restart may come between the
reading of the stale attempts and the transaction that ends one, and the next pass
of the loop reads them again. Nothing is assumed of agents, operators,
the dispatcher or job events.

The end of a process that was told to stop is fair only while somebody watches it
(`Stopped`). `monitor_remote_agent` leaves at the first call that fails
(`server/launch.rs:917`, `952`, `1013`). The worker that started the launch then
reports it failed, and ignores a failure of that report; after a daemon restart
nobody does, and `recover_remote_launch_monitors` only logs the error (`1061-1080`).
An attempt that lost its monitor stays running, and cleanup and terminalization wait
for it, until the daemon starts again; the restart of an external agent's run is not
watched even then. No fairness of restarts is assumed, so `CancellingEnds` and
`EndedScopeIsFinished` conclude "or nobody would notice" (`Unnoticed`).
`InterruptionResolves` holds without that: the run it speaks of is started again or
is cleaned up, whoever watches.

A cancelled run whose external agent still holds a live lease is left out of
`CancellingEnds` (`Held`): the server has no process to stop and waits for the lease
to run out. Job events are why `InterruptionResolves` excludes runs that wait for
a job (they have no window). Without fairness each of the three liveness
properties fails by stuttering, and their mutants fail under the same fairness.

The other modules have no fairness. What could be waited for there is stated as
safety: `NobodyWaitsForever` says that a task that waits has an unfinished
predecessor whose gate is open, `IndexCanFollow` that a publication that has moved
the reference can be indexed.

## 5. Proofs

Everything below holds for every value of the constants, from the named
assumptions only (`BoundsAssumption`, `VocabularyAssumption`, `GraphAssumption`,
`InitialStatesAssumption`, `NullAssumption`, `KindAssumption`,
`MaxCallsAssumption`, `RestartAssumption`; `ContractAssumption`;
`TaskGraphAssumption`; `CredentialBounds`; `MemoryBounds`, `OAuthAssumption`,
`ForeignAssumption`), except where a theorem states a hypothesis of its own.

**Work store and launcher** (`SysSpec`, the composition of the life cycle and the
launcher).

- `TypeCorrect` (MorrowsProofs): one lemma per action, grouped as in the modules,
  on lemmas about the helpers (`SetAsg`, `SetRun`, `SetTask`, new rows).
- `OwnershipInvariant` (OwnershipProofs), with `OwnershipInv == TypeOK /\
  OneActivePerRole /\ DoneHasNoExecutor /\ CancelledIsQuiet`. The conjuncts are
  inductive together and not one by one: completion leaves a done task unowned
  only because the completing executor was the only one, and a recovery does not
  revive a lease of a cancelled task only because its run would have to be live,
  which a quiet cancelled task excludes. Steps are sorted by what they do to
  assignments. A *steady* step activates nothing, makes nothing done or cancelled
  and revives no run of a cancelled task; an *acquiring* step activates one
  assignment of an open task in whose role none is left active. Each kind
  preserves the invariant by one lemma, every action but two is shown to be of one
  kind, and `CompleteRun` and `CancelTask`, which end tasks, have proofs of their
  own. `ExclusiveOwnership`, `DoneTasksAreUnowned`, `CancelIsComplete` are the
  conjuncts; `CancelIsFinal` is the action property from the same invariant.
- `EndedAssignments`, `EndedRuns`, `IntakeInOrder` (MorrowsProofs): three action
  properties. Each needs a fact that the action alone does not have: that only rows
  which time ended are recoverable, that whatever writes the status of a run found
  it unfinished in the same transaction, and, as an invariant of its own
  (`PhaseInv`), that reviewers have no intake and no intake call is for one.
- How the tables refer to each other (LifecycleProofs) is `ReferInv`: ids are given
  in order, the run and the restart of an attempt belong to its assignment, a
  waiting attempt has no run, and only executors have runtimes to clean up. The
  theorems below add to it. For each table one lemma says what any step can do to a
  row (`AsgMoves`, `RunMoves`, `AttemptSteps`, `TaskSteps`), and the proofs go by
  those kinds of steps rather than by the actions.
- `OneRunPerLease` and `SuccessorWaits`: until somebody invites an external agent
  (`NoExternal`), an assignment has one run that has not ended and nobody works
  behind a run that is not cleaned up. `LaunchersAlone` has both without the
  condition where `AttemptKind` has no external adapter. The fence is inductive only as `FenceInv`, which speaks of
  assignments: once a later executor assignment of the task exists, an earlier one
  has no process, no run to be cleaned up, and is active only if a run holds it.
  `predecessor_runtime_active` and the cleanup fence give that when the successor
  is appointed. Afterwards an earlier assignment can only come back by a recovery,
  for a run that it then holds; that run forbids a launch under it, and without a
  process nothing interrupts the run.
- `FinishedScopesAreIdle`: with `ScopeInv`, which adds that the run of a finished
  scope has ended, so that no restart can be for it.
- `ReviewedWork` and `DoneRests`: a task is made done only by a completion
  (`TaskSteps`), which asks for the verdict and for the prerequisites in its own
  transaction. `DoneRests` supposes that prerequisites have no native contract: a
  late verdict (section 6) takes a done one with a contract back.
- `OfferedTasksAreUnowned`, `EndedAssignmentsHaveNoRuns`, `LeasesAreKept` hold of
  the life cycle without the launcher (`LifeSpec`), with `LifeInv`: there nothing
  is launched or interrupted, and the earlier invariants come along because
  `LifeSpec` implements `SysSpec`. In `LeasesAreKept` the weak takeover check
  (section 6) is no exception, since the lease that it overlooks is held by a run
  and the takeover ends that run.

**Processes, capabilities and messages** (AgentProofs, `AgentSpec`).

- `LauncherImplementsSystem`: `AgentSpec => SysSpec`. Every step of a launcher's
  task, a process, a message or the sweep is a step of the work store or changes
  nothing in it. Two steps need an invariant for that: sending a message and
  replying move *all* assignments of the agent in a conversation in one
  transaction, which is one step of the intake because exclusive roles and
  executor-only intake leave at most one. So every theorem about `SysSpec` holds
  below it; `CancelledIsQuietBelow` and `EndedRunsBelow` are the two that the run
  `agents` checks, and `LowInv` has the others that the rest needs.
- `MonitorsImplementSystem` (MorrowsProofs): `MonitorSpec => SysSpec`. A lost monitor
  changes no table, so the theorems about `SysSpec` hold of Monitors as well.
- `OneProcess`. `ProcessInv` is about those the launcher holds: the attempts of a
  run are of one kind, an attempt whose launcher's task is gone has ended, of the
  attempts of a run all but one have lost their task, and those of an interrupted
  run all have. A restart of the run is then only possible when the process before
  it was killed, was seen to exit, or is an orphan. `OrphansCounted` is about the
  orphans, by counting: a daemon restart can only turn the one process of a run that
  is held into an orphan, and nothing else makes one.
- `NoLateCapability`, from `CapabilityInv`: a run that is being cleaned up has lost
  its capability and its status forbids adopting another.
- `OnePrompt` and `RecalledUnread`, from `Handed`: a message that can be claimed or
  recalled was in at most as many prompts as the daemon restarted, and a claimed
  one is held by a task that writes one prompt at most.

**Contract** (ContractProofs). `ContractInv` says that somebody who waits for a
check waits for one whose outcome is open; that at most one assignment is active,
none on a finished task, and that a run which never lost its lease is live only with
its assignment active; that a revision waiting for an answer is the last one and the
applied ones lie behind the version in force; and that what a completion counted
are PASS receipts, and what it waived may be waived. It does not say that one run
is live, which is not so. `NoReplay` holds because a new attempt is only made when
the *last* one is resolved, and with the invariant then all are. `CompletionsStand`
holds because no step changes a PASS. `ExecutorsKnow` needs all of it: an
acknowledgment makes the version known to one run, and of the other live ones none
has kept its lease. `RevisionsLine` and the action property `ReviewersSawTheEnd`
follow the same invariant.

**Task graph** (TaskGraphProofs). `GateAlwaysDecides`: there is never a set of
tasks each of which has a predecessor in it, which is the one thing that makes
`gate_conn` fail for everybody. A new edge from p to t that closes no cycle comes
with a closed set of what p requires that excludes t; in a set of tasks that wait
for one another the part within that closed set would have waited before.
`GateIsDefined` shows that the recursive function of the verdicts satisfies its
own equation: partial solutions agree, their union is one, and it lacks no task.
From the equation follow `SomebodyCanGoOn` (`NobodyWaitsForever`) and
`VerdictsLast` (`GateSettles`). Induction over the graph is a minimal
counterexample each time: without a cycle every set of tasks has one that none of
the others is a predecessor of (`FirstTask`).

**Credentials** (CredentialsProofs). `CredentialsInv` numbers codes and families
by the history, ties every token to a family, every family to a redemption, every
redemption to an approval, and every approval to a page that was shown and a role
somebody had, or was taken to have: an approval by an admin had an admin
credential, a bootstrap token, or a token that was let through in the migration
window (`vouched`). `NothingIsUsedTwice`, `ReplayIsFinal`, `NoTokenBeyondConsent` are
invariants that follow, `RevocationIsFinal` an action property. `LoginsAreFinal`
has an invariant of its own: the credential of a login was issued.

**Project memory.** `MemoryInv` (ProjectMemoryProofs) says where the reference, the
index and the prepared operations can stand relative to each other after any crash:
at most one operation of a Git project is prepared, it adds one entry to what the
index stands for, and the reference is at the index, at that operation, or in
foreign hands. `MemoryRefinement` shows `MemorySpec => OnlyAddsToPublished`: the
initial states map to initial states, and each step to an append, an answer, the
undoing of an entry nobody was told of, or a stutter. `IndexInv` adds what tables
and payloads hold; `IndexAgreesWithGit`, `ConflictsAreUnpublished`,
`KeysAreIdempotent`, `IndexFollows` and `RevisionsDoNotFork` follow.

Only model-checked: the three liveness properties (`CancellingEnds`,
`InterruptionResolves`, `EndedScopeIsFinished`), as liveness under fairness and
ENABLED are beyond the prover, and the two properties that the code violates, for
which TLC has the counterexamples.

## 6. Where the code and what is said of it differ

With a run, each the shortest behaviour that contradicts a sentence of the
repository (quoted in `findings`):

| Run | Sentence that fails | Cause |
|---|---|---|
| `late_verdict` | "Only successful executor completion marks done"; a completed task needs a rework task | `submit_review` updates the task whatever its state, through an executor run whose lease expired |
| `lost_response` | a lost response can be marked FAIL, "permitting a new actual check" | only the call that was lost writes the `finished_at` that reconciliation asks for; the task goes on only with a new context or, where the criterion allows it, a waiver |

Stated as properties, not kept by the code and in no run; each has a short
counterexample:

- `TakeoverSparesLiveOwner` (`takeover.rs:193`; "rejects unexpired active owner",
  docs/task-takeover.md:40). Only the most recently acquired executor row is asked
  for its lease. The owner expires, another agent claims and its lease expires, the
  first one recovers its older assignment: an ordinary takeover then releases a
  good lease.
- `SeparateReviewer` (`lib.rs:934`; docs/task-takeover.md:41 and `lib.rs:1966`). An
  executor's assignment expires, the agent claims the review, then recovers the
  executor's assignment: `recover_assignment` does not look for the other role.
- `ImplementingIsNotUndone` (`intake.rs:31`; "intake receipts are no longer
  mutable", `intake.rs:34`). The phase is checked outside the transaction: a
  finalize call that was checked in the interview and lands after the execution has
  begun takes the assignment back.
- `InterruptedKeepsAssignment` (`launch.rs:1609`; an unexpected exit "retains the
  Assignment", docs/lsm-runtime.md:9). While a run is interrupted a second launch
  of its assignment is queued; it cannot begin, and failing it releases the
  assignment.
- `HandoffIsFenced` (`runtime.rs:328`; "Keep the task fenced until ... scope
  terminalization is acknowledged", `continuation.rs:122`). A provisioning call is
  in flight without a recorded intent when the run is handed off; the fence sees no
  scope, a successor is claimed, and then the binding of the old run arrives.

Smaller observations made while translating:

- `execute_remote_agent` (`server/launch.rs`) claims the deliveries while the
  attempt is still `starting`, and the store only gives deliveries to one that is
  `running`: managed launches fail there at this commit (`RefuseRemote`).
- `agent_reply` marks the unread queued messages of the task delivered
  (`task_message.rs:361-393`), whether or not a process was given them.
- `StopLaunch` frees the task while the process lives until the next poll.
- `preview_task_revision` reports "applied" for a ready task with a live run, where
  proposing gives `pending_ack` (`revision.rs:299-319`).
- `RetryReturnsOriginal`: after two agents are merged (`fleet.rs:925`) a retry no
  longer finds the publication of the old one, and "Retries return the original
  publication" (`memory.rs:17`) fails for that client.
- A managed attempt whose monitor left after a daemon restart stays running until the
  next one, and with it the scope of its run (section 4).
- A process that a crashed daemon left behind may work beside the one of the
  restarted run: `OneLocalProcessPerRun` allows one for each daemon restart.
- An executor whose lease expired and who recovers it may complete the task under a
  contract version that only its successor acknowledged. Where there are criteria it
  must have been told of the context that came with the version, not have agreed to it.
- In the migration window a token of a former issuer approves as an admin, although
  no operator credential was ever issued (`operator_auth.rs:91-99`).
- Whatever makes `git update-ref` fail, the operation is recorded as a conflict
  (`git_memory.rs:424-449`), also when the reference did not move.

## 7. Not modelled, and why

- The execution plane (`morrow-runtime`) is seen through the calls the control
  plane makes; its own job and session state machines, shells, browser sessions,
  audit archive and operator pages are not modelled.
- Heartbeats, capacity, ranking and policies only choose an agent among those that
  may be chosen; the model leaves the choice open.
- Milestones, context packages, memory files, fleet rows, discovery, the CLI and
  the web interface hold no state that a transition of the modelled parts depends
  on.
- Groups of tasks only collect; assigning a group is a sequence of claims.
- Waking an idle agent (`server/delivery.rs`), checkpoints, accepting a handoff and
  the receipts of takeover calls.
- Password hashing, token hashing, cookies, signatures, rendering, parsing: data,
  not control.

## 8. What is left to do

1. The jobs and logical sessions of the execution plane (`jobs.py`,
   `session_runtime.py`) as a module of their own, composed with AgentProcess in
   place of its open environment.
2. Contract and TaskGraph composed with Lifecycle: a completion that needs the gate
   and the receipts at once, and the late verdict in both.
3. Theorems: what remains true with external agents, where the fence of a
   successor has to allow for the run that `predecessor_runtime_active` overlooks;
   and, once Contract and Lifecycle are composed, that the composition implements
   both.
