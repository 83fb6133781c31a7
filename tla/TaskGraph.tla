----------------------------- MODULE TaskGraph -----------------------------
(* The dependency graph of the tasks and the gate it puts before their        *)
(* execution (task_graph.rs): plain dependencies, the edges and join modes of *)
(* named chains, conditions on results, and what cancelling, reopening and    *)
(* rework (task_rework.rs) do to it.  The graph may be edited at any time,    *)
(* while tasks of it are executed.  Of a task only the states that the gate   *)
(* tells apart are kept; WorkStore and Claims have the rest of its life.      *)
EXTENDS Naturals, FiniteSets

CONSTANTS
  Task,
  Chain,
  Result,    \* the results of runs that conditions compare with
  None,      \* no chain, no result or another one
  MaxEdges   \* bound of task_dependencies

ASSUME TaskGraphAssumption == None \notin Chain \cup Result /\ MaxEdges \in Nat

VARIABLES
  state,      \* tasks.state
  result,     \* result_json of the latest completed executor run, of done tasks
  edges,      \* task_dependencies
  member,     \* task_chain_members: a task is in one chain at most
  archived,   \* the chains that are archived
  reworked    \* the tasks that a rework task was made of

vars == <<state, result, edges, member, archived, reworked>>

-----------------------------------------------------------------------------
TaskState == {"none", "ready", "in_progress", "done", "cancelled"}
Condition == {"always"} \cup Result
EdgeRow == [to: Task, from: Task, chain: Chain \cup {None}, cond: Condition]
MemberRow == [chain: Chain \cup {None}, join: {"all", "any"}]
NoMember == [chain |-> None, join |-> "all"]

Init ==
  /\ state \in [Task -> {"none", "ready"}]
  /\ result = [t \in Task |-> None]
  /\ edges = {}
  /\ member = [t \in Task |-> NoMember]
  /\ archived = {}
  /\ reworked = {}

Exists(t) == state[t] # "none"
Incoming(t) == {e \in edges: e.to = t}

\* what the reachability query finds: the least set that has the predecessors
\* of t and, with a task, its predecessors
Direct(t) == {e.from: e \in Incoming(t)}
Closed(S) == \A e \in edges: e.to \in S => e.from \in S
Requires(t, p) ==
  LET direct == Direct(t) IN
  \A S \in SUBSET (Task \ {p}): direct \subseteq S => ~Closed(S)

\* mutant: only the edge back is looked for
ReverseEdge(t, p) == t \in Direct(p)
WouldCycle(t, p) == Requires(p, t)

-----------------------------------------------------------------------------
(* The gate.                                                                  *)

\* combine; what the order of the edges does not matter to is a set
Combine(verdicts, join) ==
  IF join = "all" /\ "excluded" \in verdicts THEN "excluded"
  ELSE IF join = "any" /\ "eligible" \in verdicts THEN "eligible"
  ELSE IF "waiting" \in verdicts THEN "waiting"
  ELSE IF join = "all" \/ verdicts = {} THEN "eligible" ELSE "excluded"

\* of an edge whose predecessor is unfinished and has that verdict itself
\* mutant: exclusion is not passed on
AlwaysWaiting(v) == "waiting"
Inherited(v) == IF v = "excluded" THEN "excluded" ELSE "waiting"

EdgeVerdict(e, v) ==
  CASE state[e.from] = "cancelled" -> "excluded"
    [] state[e.from] = "done" ->
         IF e.cond \in {"always", result[e.from]} THEN "eligible" ELSE "excluded"
    [] OTHER -> Inherited(v)

\* the rounds of gate_conn come to a stop: all tasks left have one of the others
\* as a predecessor
NoProgress ==
  \E S \in (SUBSET Task) \ {{}}: \A t \in S: \E e \in edges: e.to = t /\ e.from \in S

\* of a task, given the verdicts v of its predecessors
TaskVerdict(v, t) ==
  LET Of(S) == {EdgeVerdict(e, v[e.from]): e \in S}
      bound == {e \in Incoming(t): e.chain # None}
  IN Combine({Combine(Of(Incoming(t) \ bound), "all"),
              Combine(Of(bound), member[t].join)}, "all")

GateVerdict[t \in Task] == TaskVerdict(GateVerdict, t)

\* gate_conn for every task; a cycle anywhere leaves no task with a verdict
Gate == IF NoProgress THEN [t \in Task |-> "conflict"] ELSE GateVerdict

-----------------------------------------------------------------------------
(* Editing the graph.                                                         *)
AddDependency(t, p) ==
  /\ Exists(t) /\ Exists(p) /\ t # p
  /\ Cardinality(edges) < MaxEdges
  /\ ~\E e \in edges: e.to = t /\ e.from = p
  /\ ~WouldCycle(t, p)
  /\ edges' = edges \cup {[to |-> t, from |-> p, chain |-> None, cond |-> "always"]}
  /\ UNCHANGED <<state, result, member, archived, reworked>>

\* removes the edge whatever chain it is bound to
RemoveDependency(e) ==
  /\ edges' = edges \ {e}
  /\ UNCHANGED <<state, result, member, archived, reworked>>

\* set_collection_member; a task of another chain is refused by the unique index
SetMember(c, t, join) ==
  /\ c \notin archived /\ Exists(t)
  /\ member[t].chain \in {None, c}
  /\ member' = [member EXCEPT ![t] = [chain |-> c, join |-> join]]
  /\ UNCHANGED <<state, result, edges, archived, reworked>>

RemoveMember(c, t) ==
  /\ c \notin archived /\ member[t].chain = c
  /\ ~\E e \in edges: e.chain = c /\ t \in {e.to, e.from}
  /\ member' = [member EXCEPT ![t] = NoMember]
  /\ UNCHANGED <<state, result, edges, archived, reworked>>

\* inserts the edge or replaces its condition
SaveChainEdge(c, t, p, cond) ==
  LET old == {e \in edges: e.to = t /\ e.from = p} IN
  /\ c \notin archived
  /\ t # p /\ member[t].chain = c /\ member[p].chain = c
  /\ \A e \in old: e.chain = c
  /\ Cardinality(edges \ old) < MaxEdges
  /\ ~WouldCycle(t, p)
  /\ edges' = (edges \ old)
                \cup {[to |-> t, from |-> p, chain |-> c, cond |-> cond]}
  /\ UNCHANGED <<state, result, member, archived, reworked>>

RemoveChainEdge(c, e) ==
  /\ c \notin archived /\ e.chain = c
  /\ edges' = edges \ {e}
  /\ UNCHANGED <<state, result, member, archived, reworked>>

\* archiving stops edits through the chain and leaves its gates in force
ArchiveChain(c) ==
  /\ archived' = archived \cup {c}
  /\ UNCHANGED <<state, result, edges, member, reworked>>

\* save_task_collection with archived = false
RestoreChain(c) ==
  /\ archived' = archived \ {c}
  /\ UNCHANGED <<state, result, edges, member, reworked>>

-----------------------------------------------------------------------------
(* The tasks.  Every way to claim or complete one as executor asks its gate   *)
(* in the transaction that acts on it.                                        *)
Claim(t) ==
  /\ state[t] = "ready" /\ Gate[t] = "eligible"
  /\ state' = [state EXCEPT ![t] = "in_progress"]
  /\ UNCHANGED <<result, edges, member, archived, reworked>>

\* handoff, cleanup and an approved switch put it back in the queue
Requeue(t) ==
  /\ state[t] = "in_progress"
  /\ state' = [state EXCEPT ![t] = "ready"]
  /\ UNCHANGED <<result, edges, member, archived, reworked>>

Complete(t, r) ==
  /\ state[t] = "in_progress" /\ Gate[t] = "eligible"
  /\ state' = [state EXCEPT ![t] = "done"]
  /\ result' = [result EXCEPT ![t] = r]
  /\ UNCHANGED <<edges, member, archived, reworked>>

Cancel(t) ==
  /\ state[t] \in {"ready", "in_progress"}
  /\ state' = [state EXCEPT ![t] = "cancelled"]
  /\ UNCHANGED <<result, edges, member, archived, reworked>>

\* create_rework_task: a task of its own, which has no edges yet
CreateRework(t, source) ==
  /\ state[source] = "done" /\ state[t] = "none"
  /\ state' = [state EXCEPT ![t] = "ready"]
  /\ reworked' = reworked \cup {source}
  /\ UNCHANGED <<result, edges, member, archived>>

\* mutant: a dependent that is still being executed does not count
Settled(t) == state[t] = "done"
Consumed(t) == state[t] \in {"in_progress", "done"}

ReopenTask(t) ==
  /\ state[t] = "done" /\ t \notin reworked
  /\ \A e \in edges: e.from = t => ~Consumed(e.to)
  /\ state' = [state EXCEPT ![t] = "ready"]
  /\ result' = [result EXCEPT ![t] = None]  \* not read until it is done again
  /\ UNCHANGED <<edges, member, archived, reworked>>

-----------------------------------------------------------------------------
EditNext ==
  \/ \E t, p \in Task: AddDependency(t, p)
  \/ \E e \in edges: RemoveDependency(e)
  \/ \E c \in Chain:
       \/ ArchiveChain(c)
       \/ RestoreChain(c)
       \/ \E e \in edges: RemoveChainEdge(c, e)
       \/ \E t \in Task: RemoveMember(c, t) \/ \E j \in {"all", "any"}: SetMember(c, t, j)
       \/ \E t, p \in Task, cond \in Condition: SaveChainEdge(c, t, p, cond)

\* assign_task_group is a Claim for one member of a group after the other, each
\* in a transaction of its own that asks the gate again
TaskNext ==
  \E t \in Task:
    \/ Claim(t)
    \/ Requeue(t)
    \/ \E r \in Result \cup {None}: Complete(t, r)
    \/ Cancel(t)
    \/ \E source \in Task: CreateRework(t, source)
    \/ ReopenTask(t)

Next == EditNext \/ TaskNext

Spec == Init /\ [][Next]_vars

-----------------------------------------------------------------------------
GraphTypeOK ==
  /\ state \in [Task -> TaskState]
  /\ result \in [Task -> Result \cup {None}]
  /\ edges \subseteq EdgeRow
  /\ member \in [Task -> MemberRow]
  /\ archived \subseteq Chain
  /\ reworked \subseteq Task

\* "descendants of an unselected branch do not wait forever" (gate_conn), nor
\* does anyone in a cycle: a task that has to wait depends on an unfinished one
\* whose gate is open, so somebody can always go on.  Plain dependencies and
\* the edges of all chains count together, conditions, joins and cancelled
\* tasks included, and whatever was edited while tasks were executed.
NobodyWaitsForever ==
  LET gate == Gate IN
  \A t \in Task: \/ gate[t] \in {"eligible", "excluded"}
                 \/ \E p \in Task: /\ gate[t] = "waiting"
                                   /\ Requires(t, p)
                                   /\ state[p] \notin {"done", "cancelled"}
                                   /\ gate[p] = "eligible"

\* As long as the graph is not edited a verdict other than waiting is final: a
\* branch that was not selected stays so and an open gate stays open, although
\* unfinished predecessors may still be executed, cancelled or done over
\* (conditions and any-joins, gate_conn).  Only reopening a predecessor takes a
\* verdict back, and never an open gate that execution already relied on.
GateSettles ==
  [][edges' = edges /\ member' = member =>
       LET before == Gate
           after == Gate'
       IN \A t \in Task:
            (Exists(t) /\ before[t] # "waiting" /\ after[t] # before[t]) =>
              /\ \E p \in Task: state[p] = "done" /\ state'[p] = "ready"
              /\ ~(before[t] = "eligible" /\ state[t] \in {"in_progress", "done"})]_vars
=============================================================================
