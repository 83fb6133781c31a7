-------------------------- MODULE TaskGraphProofs --------------------------
(* The gate of the task graph (gate_conn), for any number of tasks and        *)
(* chains: the graph stays without cycles, so the gate decides every task; no *)
(* task waits unless another one can go on; verdicts other than waiting last. *)
EXTENDS TaskGraph, TLAPS

\* Fewer edges leave no new set of tasks that wait for one another.
LEMMA FewerEdges ==
  ASSUME ~NoProgress, edges' \subseteq edges
  PROVE  ~NoProgress'
BY DEF NoProgress

\* A new edge from p to t closes no cycle if p does not require t.  Of tasks that
\* waited for one another the new edge must be the edge of t, so p is one of them.
\* p and what it requires among them waited for one another before: t is none of
\* these, and none of their edges is new.
LEMMA NewEdge ==
  ASSUME ~NoProgress, NEW t \in Task, NEW p \in Task, t # p, ~WouldCycle(t, p),
         \A e \in edges': e \in edges \/ (e.to = t /\ e.from = p)
  PROVE  ~NoProgress'
<1>1. PICK B \in SUBSET (Task \ {t}): Direct(p) \subseteq B /\ Closed(B)
  BY DEF WouldCycle, Requires
<1>2. SUFFICES ASSUME NEW S \in (SUBSET Task) \ {{}},
                      \A u \in S: \E e \in edges': e.to = u /\ e.from \in S
               PROVE  FALSE
  BY DEF NoProgress
<1> DEFINE W == S \cap (B \cup {p})
<1>3. \A u \in W: \E e \in edges: e.to = u /\ e.from \in W
  <2>1. SUFFICES ASSUME NEW u \in W
                 PROVE  \E e \in edges: e.to = u /\ e.from \in W
    OBVIOUS
  <2>2. PICK e \in edges': e.to = u /\ e.from \in S
    BY <1>2
  <2>3. e \in edges
    BY <1>1, <2>2
  <2>4. e.from \in B
    <3>1. CASE u = p
      BY <3>1, <1>1, <2>2, <2>3 DEF Direct, Incoming
    <3>2. CASE u \in B
      BY <3>2, <1>1, <2>2, <2>3 DEF Closed
    <3> QED BY <3>1, <3>2
  <2> QED BY <2>2, <2>3, <2>4
<1>4. W = {}
  BY <1>3 DEF NoProgress
<1>5. p \notin S
  BY <1>4
<1>6. \A u \in S: \E e \in edges: e.to = u /\ e.from \in S
  BY <1>2, <1>5
<1> QED BY <1>6 DEF NoProgress

\* The graph always lets the gate give every task a verdict: no interleaving of
\* editing plain dependencies and chains closes a cycle through both.
LEMMA NextKeepsProgress ==
  ASSUME ~NoProgress, [Next]_vars
  PROVE  ~NoProgress'
<1>1. CASE UNCHANGED vars
  BY <1>1, FewerEdges DEF vars
<1>2. CASE EditNext
  <2>1. ASSUME NEW t \in Task, NEW p \in Task, AddDependency(t, p)
        PROVE  ~NoProgress'
    BY <2>1, NewEdge DEF AddDependency
  <2>2. ASSUME NEW e \in edges, RemoveDependency(e)
        PROVE  ~NoProgress'
    BY <2>2, FewerEdges DEF RemoveDependency
  <2>3. ASSUME NEW c \in Chain, NEW e \in edges, RemoveChainEdge(c, e)
        PROVE  ~NoProgress'
    BY <2>3, FewerEdges DEF RemoveChainEdge
  <2>4. ASSUME NEW c \in Chain, NEW t \in Task, NEW p \in Task,
               NEW cond \in Condition, SaveChainEdge(c, t, p, cond)
        PROVE  ~NoProgress'
    BY <2>4, NewEdge DEF SaveChainEdge
  <2>5. ASSUME NEW c \in Chain,
               \/ ArchiveChain(c)
               \/ RestoreChain(c)
               \/ \E t \in Task: \/ RemoveMember(c, t)
                                 \/ \E j \in {"all", "any"}: SetMember(c, t, j)
        PROVE  ~NoProgress'
    BY <2>5, FewerEdges DEF ArchiveChain, RestoreChain, RemoveMember, SetMember
  <2> QED BY <1>2, <2>1, <2>2, <2>3, <2>4, <2>5 DEF EditNext
<1>3. CASE TaskNext
  BY <1>3, FewerEdges DEF TaskNext, Claim, Requeue, Complete, Cancel, CreateRework,
    ReopenTask
<1> QED BY <1>1, <1>2, <1>3 DEF Next

\* In every reachable state the gate has a verdict for every task (gate_conn): a
\* set of tasks that all wait for one another never comes about, whatever
\* dependencies and chain edges are added, replaced and removed in any order.
THEOREM GateAlwaysDecides == Spec => []~NoProgress
<1>1. Init => ~NoProgress
  BY DEF Init, NoProgress
<1>2. ~NoProgress /\ [Next]_vars => ~NoProgress'
  BY NextKeepsProgress
<1> QED BY <1>1, <1>2, PTL DEF Spec

-----------------------------------------------------------------------------
(* The verdicts of all tasks solve one equation.                              *)

\* The rows of the tables have the types of their columns.
THEOREM GraphTypes == Spec => []GraphTypeOK
<1>1. Init => GraphTypeOK
  BY DEF Init, GraphTypeOK, TaskState, MemberRow, NoMember
<1>2. GraphTypeOK /\ [Next]_vars => GraphTypeOK'
  <2>1. SUFFICES ASSUME GraphTypeOK, [Next]_vars PROVE GraphTypeOK'
    OBVIOUS
  <2>2. CASE UNCHANGED vars
    BY <2>1, <2>2 DEF vars, GraphTypeOK
  <2>3. CASE EditNext
    <3>1. ASSUME NEW t \in Task, NEW p \in Task, AddDependency(t, p)
          PROVE  GraphTypeOK'
      BY <2>1, <3>1 DEF AddDependency, GraphTypeOK, EdgeRow, Condition
    <3>2. ASSUME NEW e \in edges, RemoveDependency(e)
          PROVE  GraphTypeOK'
      BY <2>1, <3>2 DEF RemoveDependency, GraphTypeOK
    <3>3. ASSUME NEW c \in Chain, ArchiveChain(c) \/ RestoreChain(c)
          PROVE  GraphTypeOK'
      BY <2>1, <3>3 DEF ArchiveChain, RestoreChain, GraphTypeOK
    <3>4. ASSUME NEW c \in Chain, NEW e \in edges, RemoveChainEdge(c, e)
          PROVE  GraphTypeOK'
      BY <2>1, <3>4 DEF RemoveChainEdge, GraphTypeOK
    <3>5. ASSUME NEW c \in Chain, NEW t \in Task, RemoveMember(c, t)
          PROVE  GraphTypeOK'
      BY <2>1, <3>5 DEF RemoveMember, GraphTypeOK, MemberRow, NoMember
    <3>6. ASSUME NEW c \in Chain, NEW t \in Task, NEW j \in {"all", "any"},
                 SetMember(c, t, j)
          PROVE  GraphTypeOK'
      BY <2>1, <3>6 DEF SetMember, GraphTypeOK, MemberRow
    <3>7. ASSUME NEW c \in Chain, NEW t \in Task, NEW p \in Task,
                 NEW cond \in Condition, SaveChainEdge(c, t, p, cond)
          PROVE  GraphTypeOK'
      BY <2>1, <3>7 DEF SaveChainEdge, GraphTypeOK, EdgeRow
    <3> QED BY <2>3, <3>1, <3>2, <3>3, <3>4, <3>5, <3>6, <3>7 DEF EditNext
  <2>4. CASE TaskNext
    BY <2>1, <2>4 DEF TaskNext, Claim, Requeue, Complete, Cancel, CreateRework,
      ReopenTask, GraphTypeOK, TaskState
  <2> QED BY <2>1, <2>2, <2>3, <2>4 DEF Next
<1> QED BY <1>1, <1>2, PTL DEF Spec

\* Among any tasks there is one that none of the others is a predecessor of: the
\* order in which the rounds of gate_conn decide them.
LEMMA FirstTask ==
  ASSUME ~NoProgress, NEW S, S \subseteq Task, S # {}
  PROVE  \E t \in S: Direct(t) \cap S = {}
<1>1. PICK t \in S: ~\E e \in edges: e.to = t /\ e.from \in S
  BY DEF NoProgress
<1>2. Direct(t) \cap S = {}
  BY <1>1 DEF Direct, Incoming
<1> QED BY <1>2

\* The verdict of a task depends on those of its predecessors alone.
LEMMA VerdictIsLocal ==
  ASSUME NEW t, NEW v, NEW w, \A p \in Direct(t): v[p] = w[p]
  PROVE  TaskVerdict(v, t) = TaskVerdict(w, t)
<1>1. ASSUME NEW S, S \subseteq Incoming(t)
      PROVE  {EdgeVerdict(e, v[e.from]): e \in S} = {EdgeVerdict(e, w[e.from]): e \in S}
  <2>1. \A e \in S: v[e.from] = w[e.from]
    BY <1>1 DEF Direct
  <2> QED BY <2>1
<1> DEFINE bound == {e \in Incoming(t): e.chain # None}
<1>2. bound \subseteq Incoming(t) /\ Incoming(t) \ bound \subseteq Incoming(t)
  OBVIOUS
<1>3. {EdgeVerdict(e, v[e.from]): e \in bound}
        = {EdgeVerdict(e, w[e.from]): e \in bound}
  BY <1>1, <1>2
<1>4. {EdgeVerdict(e, v[e.from]): e \in Incoming(t) \ bound}
        = {EdgeVerdict(e, w[e.from]): e \in Incoming(t) \ bound}
  BY <1>1, <1>2
<1> QED BY <1>3, <1>4 DEF TaskVerdict

\* f gives the verdicts of the tasks of C, which has the predecessors of its tasks.
Solves(f, C) ==
  /\ C \subseteq Task
  /\ \A u \in C: Direct(u) \subseteq C
  /\ \A u \in C: f[u] = TaskVerdict(f, u)

\* Two solutions agree where both are defined: the first task on which they did
\* not would have the same verdicts of its predecessors in both.
LEMMA OneSolution ==
  ASSUME ~NoProgress, NEW f, NEW g, NEW C, NEW D, Solves(f, C), Solves(g, D),
         NEW u \in C \cap D
  PROVE  f[u] = g[u]
<1> DEFINE S == {x \in C \cap D: f[x] # g[x]}
<1>1. SUFFICES ASSUME S # {} PROVE FALSE
  OBVIOUS
<1>2. S \subseteq Task
  BY DEF Solves
<1>3. PICK t \in S: Direct(t) \cap S = {}
  <2> HIDE DEF S
  <2> QED BY <1>1, <1>2, FirstTask
<1>4. \A p \in Direct(t): f[p] = g[p]
  BY <1>3 DEF Solves
<1>5. TaskVerdict(f, t) = TaskVerdict(g, t)
  BY <1>4, VerdictIsLocal
<1> QED BY <1>3, <1>5 DEF Solves

\* There is a solution for all tasks: the union of the partial ones is a solution,
\* and it lacks no task, as the first it lacked could be added.
LEMMA SomeSolution ==
  ASSUME ~NoProgress, GraphTypeOK
  PROVE  \E f: Solves(f, Task)
<1> DEFINE U == {u \in Task: \E C: \E f: u \in C /\ Solves(f, C)}
           g == [u \in Task |-> CHOOSE x: \E C: \E f: /\ u \in C /\ Solves(f, C)
                                                      /\ x = f[u]]
<1>1. ASSUME NEW C, NEW f, Solves(f, C), NEW u \in C
      PROVE  u \in U /\ g[u] = f[u]
  <2>1. u \in U /\ u \in Task
    BY <1>1 DEF Solves
  <2>2. PICK D, h: u \in D /\ Solves(h, D) /\ g[u] = h[u]
    BY <1>1, <2>1
  <2>3. f[u] = h[u]
    <3> HIDE DEF U, g
    <3> QED BY <1>1, <2>2, OneSolution
  <2> QED BY <2>1, <2>2, <2>3
<1>2. Solves(g, U)
  <2>1. ASSUME NEW u \in U
        PROVE  Direct(u) \subseteq U /\ g[u] = TaskVerdict(g, u)
    <3>1. PICK C, f: u \in C /\ Solves(f, C)
      BY <2>1
    <3> HIDE DEF U, g
    <3>2. Direct(u) \subseteq C /\ f[u] = TaskVerdict(f, u)
      BY <3>1 DEF Solves
    <3>3. \A p \in C: p \in U /\ g[p] = f[p]
      BY <1>1, <3>1
    <3>4. TaskVerdict(f, u) = TaskVerdict(g, u)
      BY <3>2, <3>3, VerdictIsLocal
    <3> QED BY <3>1, <3>2, <3>3, <3>4
  <2>2. U \subseteq Task
    OBVIOUS
  <2> HIDE DEF U, g
  <2> QED BY <2>1, <2>2 DEF Solves
<1>3. U = Task
  <2>1. SUFFICES ASSUME Task \ U # {} PROVE FALSE
    OBVIOUS
  <2>2. PICK t \in Task \ U: Direct(t) \cap (Task \ U) = {}
    <3> HIDE DEF U
    <3> QED BY <2>1, FirstTask
  <2>3. Direct(t) \subseteq U
    <3>1. Direct(t) \subseteq Task
      BY DEF Direct, Incoming, GraphTypeOK, EdgeRow
    <3> HIDE DEF U
    <3> QED BY <2>2, <3>1
  <2> DEFINE h == [u \in Task |-> IF u = t THEN TaskVerdict(g, t) ELSE g[u]]
  <2>4. \A u \in U: u \in Task /\ h[u] = g[u]
    BY <2>2
  <2>5. h[t] = TaskVerdict(g, t)
    BY <2>2
  <2> HIDE DEF U, g, h
  <2>6. \A u \in U \cup {t}: Direct(u) \subseteq U
    BY <1>2, <2>3 DEF Solves
  <2>7. \A u \in U \cup {t}: TaskVerdict(h, u) = TaskVerdict(g, u)
    BY <2>4, <2>6, VerdictIsLocal
  <2>8. \A u \in U \cup {t}: h[u] = TaskVerdict(h, u)
    BY <1>2, <2>4, <2>5, <2>7 DEF Solves
  <2>9. Solves(h, U \cup {t})
    BY <1>2, <2>2, <2>6, <2>8 DEF Solves
  <2>10. t \in U
    BY <2>9, <1>1
  <2> QED BY <2>2, <2>10
<1> HIDE DEF U, g
<1> QED BY <1>2, <1>3

GateEquation == \A t \in Task: GateVerdict[t] = TaskVerdict(GateVerdict, t)

\* The recursive definition of the verdicts defines something: they are a
\* solution of their equation.
LEMMA GateIsDefined ==
  ASSUME ~NoProgress, GraphTypeOK
  PROVE  GateEquation
<1>1. PICK f: Solves(f, Task)
  BY SomeSolution
<1> DEFINE F == [t \in Task |-> f[t]]
<1>2. \A t \in Task: F[t] = f[t]
  OBVIOUS
<1>3. \A t \in Task: Direct(t) \subseteq Task /\ f[t] = TaskVerdict(f, t)
  BY <1>1 DEF Solves
<1>4. F = [t \in Task |-> TaskVerdict(F, t)]
  <2> HIDE DEF F
  <2>1. \A t \in Task: TaskVerdict(F, t) = TaskVerdict(f, t)
    BY <1>2, <1>3, VerdictIsLocal
  <2>2. F = [t \in Task |-> F[t]]
    BY DEF F
  <2> QED BY <1>2, <1>3, <2>1, <2>2
<1> HIDE DEF F
<1>5. GateVerdict = [t \in Task |-> TaskVerdict(GateVerdict, t)]
  BY <1>4 DEF GateVerdict
<1> QED BY <1>5 DEF GateEquation

-----------------------------------------------------------------------------
(* Waiting.                                                                   *)

Verdict == {"eligible", "waiting", "excluded"}

\* A combination is a verdict, and waits only for one that waits.
LEMMA CombineWaits ==
  ASSUME NEW X, NEW j
  PROVE  /\ Combine(X, j) \in Verdict
         /\ Combine(X, j) = "waiting" => "waiting" \in X
BY DEF Combine, Verdict

\* A task has one of three verdicts, and waits only for an unfinished predecessor
\* that is not excluded.
LEMMA CauseOfWaiting ==
  ASSUME NEW v, NEW t
  PROVE  /\ TaskVerdict(v, t) \in Verdict
         /\ TaskVerdict(v, t) = "waiting" =>
              \E e \in Incoming(t): /\ state[e.from] \notin {"cancelled", "done"}
                                    /\ v[e.from] # "excluded"
<1> DEFINE Of(S) == {EdgeVerdict(e, v[e.from]): e \in S}
           bound == {e \in Incoming(t): e.chain # None}
           plainGate == Combine(Of(Incoming(t) \ bound), "all")
           boundGate == Combine(Of(bound), member[t].join)
<1>1. TaskVerdict(v, t) = Combine({plainGate, boundGate}, "all")
  BY DEF TaskVerdict
<1>2. /\ TaskVerdict(v, t) \in Verdict
      /\ TaskVerdict(v, t) = "waiting" => "waiting" \in {plainGate, boundGate}
  <2> HIDE DEF plainGate, boundGate
  <2> QED BY <1>1, CombineWaits
<1>3. ASSUME NEW S, S \subseteq Incoming(t), "waiting" \in Of(S)
      PROVE  \E e \in Incoming(t): /\ state[e.from] \notin {"cancelled", "done"}
                                   /\ v[e.from] # "excluded"
  <2>1. PICK e \in S: EdgeVerdict(e, v[e.from]) = "waiting"
    BY <1>3
  <2>2. state[e.from] \notin {"cancelled", "done"} /\ v[e.from] # "excluded"
    BY <2>1 DEF EdgeVerdict, Inherited
  <2> QED BY <1>3, <2>2
<1>4. bound \subseteq Incoming(t) /\ Incoming(t) \ bound \subseteq Incoming(t)
  OBVIOUS
<1>5. TaskVerdict(v, t) = "waiting" =>
        "waiting" \in Of(bound) \/ "waiting" \in Of(Incoming(t) \ bound)
  <2>1. /\ plainGate = "waiting" => "waiting" \in Of(Incoming(t) \ bound)
        /\ boundGate = "waiting" => "waiting" \in Of(bound)
    <3> HIDE DEF Of, bound
    <3> QED BY CombineWaits
  <2> HIDE DEF Of, bound, plainGate, boundGate
  <2> QED BY <1>2, <2>1
<1> HIDE DEF Of, bound, plainGate, boundGate
<1> QED BY <1>2, <1>3, <1>4, <1>5

\* Requires holds of predecessors and is transitive.
LEMMA RequiresDirect ==
  ASSUME NEW t, NEW p \in Direct(t)
  PROVE  Requires(t, p)
BY DEF Requires

LEMMA RequiresThrough ==
  ASSUME NEW t, NEW q, Requires(t, q), NEW p \in Direct(q)
  PROVE  Requires(t, p)
<1>1. SUFFICES ASSUME NEW S \in SUBSET (Task \ {p}), Direct(t) \subseteq S, Closed(S)
               PROVE  FALSE
  BY DEF Requires
<1>2. q \notin S
  BY <1>1 DEF Closed, Direct, Incoming
<1>3. S \in SUBSET (Task \ {q})
  BY <1>2
<1> QED BY <1>1, <1>3 DEF Requires

\* A task that waits requires an unfinished one that is eligible: the first of the
\* waiting tasks among it and those it requires has such a predecessor.
LEMMA SomeoneCanGoOn ==
  ASSUME ~NoProgress, GraphTypeOK, GateEquation
  PROVE  NobodyWaitsForever
<1>1. Gate = GateVerdict
  BY DEF Gate
<1>2. \A t \in Task: GateVerdict[t] \in Verdict
  BY CauseOfWaiting DEF GateEquation
<1>3. ASSUME NEW t \in Task, GateVerdict[t] = "waiting"
      PROVE  \E p \in Task: /\ Requires(t, p)
                            /\ state[p] \notin {"done", "cancelled"}
                            /\ GateVerdict[p] = "eligible"
  <2> DEFINE S == {q \in Task: GateVerdict[q] = "waiting" /\ (q = t \/ Requires(t, q))}
  <2>1. S \subseteq Task /\ t \in S
    BY <1>3
  <2>2. PICK q \in S: Direct(q) \cap S = {}
    <3> HIDE DEF S
    <3> QED BY <2>1, FirstTask
  <2>3. PICK e \in Incoming(q): /\ state[e.from] \notin {"cancelled", "done"}
                                /\ GateVerdict[e.from] # "excluded"
    BY <2>2, CauseOfWaiting DEF GateEquation
  <2>4. e.from \in Direct(q) /\ e.from \in Task
    BY DEF Direct, Incoming, GraphTypeOK, EdgeRow
  <2>5. Requires(t, e.from)
    BY <2>2, <2>4, RequiresDirect, RequiresThrough
  <2>6. GateVerdict[e.from] # "waiting"
    BY <2>2, <2>4, <2>5
  <2> QED BY <1>2, <2>3, <2>4, <2>5, <2>6 DEF Verdict
<1> QED BY <1>1, <1>2, <1>3 DEF NobodyWaitsForever, Verdict

\* Of every reachable state what the proofs about the gate need.
LEMMA GateInvariant == Spec => [](~NoProgress /\ GraphTypeOK /\ GateEquation)
<1>1. ~NoProgress /\ GraphTypeOK => GateEquation
  BY GateIsDefined
<1> QED BY <1>1, GateAlwaysDecides, GraphTypes, PTL

\* "descendants of an unselected branch do not wait forever" (gate_conn), and
\* nobody else does: a task whose gate waits requires an unfinished task whose
\* gate is open, in every graph that editing can make, while it is executed.
THEOREM SomebodyCanGoOn == Spec => []NobodyWaitsForever
<1>1. ~NoProgress /\ GraphTypeOK /\ GateEquation => NobodyWaitsForever
  BY SomeoneCanGoOn
<1> QED BY <1>1, GateInvariant, PTL

-----------------------------------------------------------------------------
(* Verdicts last.                                                             *)

\* A combination that does not wait is not changed by what it waits for.
LEMMA CombineSettles ==
  ASSUME NEW X, NEW Y, NEW j, Combine(X, j) # "waiting",
         \A x \in X: x # "waiting" => x \in Y,
         "waiting" \notin X => X = Y
  PROVE  Combine(X, j) = Combine(Y, j)
BY DEF Combine

\* An open combination of verdicts stays open while those that are eligible do.
LEMMA CombineStaysOpen ==
  ASSUME NEW X, NEW Y, NEW j, X \subseteq Verdict, Combine(X, j) = "eligible",
         "eligible" \in X => "eligible" \in Y,
         X \subseteq {"eligible"} => X = Y
  PROVE  Combine(Y, j) = "eligible"
BY DEF Combine, Verdict

\* What a step may do to a task: a cancelled one stays so; a done one keeps its
\* result or is reopened, alone, while nobody relies on it; and one is completed
\* while its own gate is open.
LEMMA TaskSteps ==
  ASSUME GraphTypeOK, [Next]_vars, NEW p \in Task
  PROVE  /\ state[p] = "cancelled" => state'[p] = "cancelled"
         /\ state[p] = "done" => \/ state'[p] = "done" /\ result'[p] = result[p]
                                \/ ReopenTask(p)
         /\ state'[p] = "done" => state[p] = "done" \/ Gate[p] = "eligible"
<1>1. CASE UNCHANGED vars
  BY <1>1 DEF vars
<1>2. CASE EditNext
  <2>1. state' = state /\ result' = result
    BY <1>2 DEF EditNext, AddDependency, RemoveDependency, SetMember, RemoveMember,
      SaveChainEdge, RemoveChainEdge, ArchiveChain, RestoreChain
  <2> QED BY <2>1
<1>3. CASE TaskNext
  <2>1. PICK t \in Task: \/ Claim(t) \/ Requeue(t)
                         \/ \E r \in Result \cup {None}: Complete(t, r)
                         \/ Cancel(t)
                         \/ \E source \in Task: CreateRework(t, source)
                         \/ ReopenTask(t)
    BY <1>3 DEF TaskNext
  <2>2. CASE ReopenTask(t)
    BY <2>2 DEF ReopenTask, GraphTypeOK
  <2>3. CASE Claim(t)
    BY <2>3 DEF Claim, GraphTypeOK
  <2>4. CASE Requeue(t)
    BY <2>4 DEF Requeue, GraphTypeOK
  <2>5. CASE \E r \in Result \cup {None}: Complete(t, r)
    BY <2>5 DEF Complete, GraphTypeOK
  <2>6. CASE Cancel(t)
    BY <2>6 DEF Cancel, GraphTypeOK
  <2>7. CASE \E source \in Task: CreateRework(t, source)
    BY <2>7 DEF CreateRework, GraphTypeOK
  <2> QED BY <2>1, <2>2, <2>3, <2>4, <2>5, <2>6, <2>7
<1> QED BY <1>1, <1>2, <1>3 DEF Next

\* As long as nothing is edited or reopened, a verdict other than waiting is kept:
\* the first task to lose it would have edges that all kept theirs.
LEMMA VerdictsSettle ==
  ASSUME ~NoProgress, GraphTypeOK, GateEquation, GateEquation', [Next]_vars,
         edges' = edges, member' = member,
         \A p \in Task: ~(state[p] = "done" /\ state'[p] = "ready"),
         NEW t \in Task, GateVerdict[t] # "waiting"
  PROVE  GateVerdict'[t] = GateVerdict[t]
<1> DEFINE S == {u \in Task: /\ GateVerdict[u] # "waiting"
                            /\ GateVerdict'[u] # GateVerdict[u]}
<1>1. SUFFICES ASSUME S # {} PROVE FALSE
  OBVIOUS
<1>2. PICK u \in S: Direct(u) \cap S = {}
  <2>1. S \subseteq Task
    OBVIOUS
  <2> HIDE DEF S
  <2> QED BY <1>1, <2>1, FirstTask
<1>3. ASSUME NEW e \in Incoming(u), EdgeVerdict(e, GateVerdict[e.from]) # "waiting"
      PROVE  EdgeVerdict(e, GateVerdict[e.from])' = EdgeVerdict(e, GateVerdict[e.from])
  <2>1. e.from \in Direct(u) /\ e.from \in Task
    BY DEF Direct, Incoming, GraphTypeOK, EdgeRow
  <2>2. GateVerdict[e.from] # "waiting" => GateVerdict'[e.from] = GateVerdict[e.from]
    BY <1>2, <2>1
  <2>3. CASE state[e.from] = "cancelled"
    <3>1. state'[e.from] = "cancelled"
      BY <2>1, <2>3, TaskSteps
    <3> QED BY <2>3, <3>1 DEF EdgeVerdict
  <2>4. CASE state[e.from] = "done"
    <3>1. ~ReopenTask(e.from)
      BY <2>1 DEF ReopenTask, GraphTypeOK
    <3>2. state'[e.from] = "done" /\ result'[e.from] = result[e.from]
      BY <2>1, <2>4, <3>1, TaskSteps
    <3> QED BY <2>4, <3>2 DEF EdgeVerdict
  <2>5. CASE state[e.from] \notin {"cancelled", "done"}
    <3>1. GateVerdict[e.from] = "excluded"
      BY <1>3, <2>5 DEF EdgeVerdict, Inherited
    <3>2. state'[e.from] # "done"
      BY <2>1, <2>5, <3>1, TaskSteps DEF Gate
    <3>3. GateVerdict'[e.from] = "excluded"
      BY <2>2, <3>1
    <3> QED BY <2>5, <3>1, <3>2, <3>3 DEF EdgeVerdict, Inherited
  <2> QED BY <2>3, <2>4, <2>5
<1> DEFINE before(Es) == {EdgeVerdict(e, GateVerdict[e.from]): e \in Es}
           after(Es) == {EdgeVerdict(e, GateVerdict[e.from])': e \in Es}
           bound == {e \in Incoming(u): e.chain # None}
           plain == Incoming(u) \ bound
<1>4. ASSUME NEW Es, Es \subseteq Incoming(u)
      PROVE  /\ \A x \in before(Es): x # "waiting" => x \in after(Es)
             /\ "waiting" \notin before(Es) => before(Es) = after(Es)
  BY <1>3, <1>4
<1>5. ASSUME NEW Es, Es \subseteq Incoming(u), NEW j, Combine(before(Es), j) # "waiting"
      PROVE  Combine(after(Es), j) = Combine(before(Es), j)
  <2> HIDE DEF before, after
  <2> QED BY <1>4, <1>5, CombineSettles
<1>6. bound \subseteq Incoming(u) /\ plain \subseteq Incoming(u)
  OBVIOUS
<1> DEFINE P == Combine(before(plain), "all")
           Q == Combine(after(plain), "all")
           B == Combine(before(bound), member[u].join)
           C == Combine(after(bound), member[u].join)
<1>7. GateVerdict[u] = Combine({P, B}, "all")
  BY DEF GateEquation, TaskVerdict
<1>8. GateVerdict'[u] = Combine({Q, C}, "all")
  BY DEF GateEquation, TaskVerdict, Incoming
<1>9. (P # "waiting" => P = Q) /\ (B # "waiting" => B = C)
  <2> HIDE DEF before, after, bound, plain
  <2> QED BY <1>5, <1>6
<1> HIDE DEF P, Q, B, C
<1>10. Combine({P, B}, "all") # "waiting" => Combine({P, B}, "all") = Combine({Q, C}, "all")
  BY <1>9, CombineSettles
<1> QED BY <1>2, <1>7, <1>8, <1>10

\* Reopening a task takes back no open gate of a task that does not depend on it.
LEMMA OpenGateStays ==
  ASSUME GraphTypeOK, GateEquation, GateEquation', [Next]_vars,
         edges' = edges, member' = member,
         NEW t \in Task, GateVerdict[t] = "eligible",
         \A p \in Direct(t): ~ReopenTask(p)
  PROVE  GateVerdict'[t] = "eligible"
<1>1. ASSUME NEW e \in Incoming(t), EdgeVerdict(e, GateVerdict[e.from]) = "eligible"
      PROVE  EdgeVerdict(e, GateVerdict[e.from])' = "eligible"
  <2>1. e.from \in Direct(t) /\ e.from \in Task
    BY DEF Direct, Incoming, GraphTypeOK, EdgeRow
  <2>2. state[e.from] = "done"
    BY <1>1 DEF EdgeVerdict, Inherited
  <2>3. state'[e.from] = "done" /\ result'[e.from] = result[e.from]
    BY <2>1, <2>2, TaskSteps
  <2> QED BY <1>1, <2>2, <2>3 DEF EdgeVerdict
<1> DEFINE before(Es) == {EdgeVerdict(e, GateVerdict[e.from]): e \in Es}
           after(Es) == {EdgeVerdict(e, GateVerdict[e.from])': e \in Es}
           bound == {e \in Incoming(t): e.chain # None}
           plain == Incoming(t) \ bound
<1>2. ASSUME NEW Es, Es \subseteq Incoming(t)
      PROVE  /\ before(Es) \subseteq Verdict
             /\ "eligible" \in before(Es) => "eligible" \in after(Es)
             /\ before(Es) \subseteq {"eligible"} => before(Es) = after(Es)
  <2>1. before(Es) \subseteq Verdict
    BY DEF EdgeVerdict, Inherited, Verdict
  <2>2. "eligible" \in before(Es) => "eligible" \in after(Es)
    BY <1>1, <1>2
  <2>3. before(Es) \subseteq {"eligible"} => before(Es) = after(Es)
    BY <1>1, <1>2
  <2> QED BY <2>1, <2>2, <2>3
<1>3. ASSUME NEW Es, Es \subseteq Incoming(t), NEW j, Combine(before(Es), j) = "eligible"
      PROVE  Combine(after(Es), j) = "eligible"
  <2> HIDE DEF before, after
  <2> QED BY <1>2, <1>3, CombineStaysOpen
<1>4. bound \subseteq Incoming(t) /\ plain \subseteq Incoming(t)
  OBVIOUS
<1> DEFINE P == Combine(before(plain), "all")
           Q == Combine(after(plain), "all")
           B == Combine(before(bound), member[t].join)
           C == Combine(after(bound), member[t].join)
<1>5. Combine({P, B}, "all") = "eligible"
  BY DEF GateEquation, TaskVerdict
<1>6. GateVerdict'[t] = Combine({Q, C}, "all")
  BY DEF GateEquation, TaskVerdict, Incoming
<1>7. P \in Verdict /\ B \in Verdict
  BY DEF Combine, Verdict
<1>8. (P = "eligible" => Q = "eligible") /\ (B = "eligible" => C = "eligible")
  <2> HIDE DEF before, after, bound, plain
  <2> QED BY <1>3, <1>4
<1> HIDE DEF P, Q, B, C
<1>9. P = "eligible" /\ B = "eligible"
  BY <1>5, <1>7 DEF Combine, Verdict
<1>10. Combine({Q, C}, "all") = "eligible"
  BY <1>8, <1>9 DEF Combine
<1> QED BY <1>6, <1>10

\* Once a task is claimed its gate cannot fall back to waiting: as long as the
\* graph is not edited only reopening a predecessor (reopen_task) takes a verdict
\* back, and never the open gate of a task that is executed or done.
THEOREM VerdictsLast == Spec => GateSettles
<1> DEFINE Inv == ~NoProgress /\ GraphTypeOK /\ GateEquation
<1>1. ASSUME Inv, Inv', [Next]_vars, edges' = edges, member' = member,
             NEW t \in Task, Exists(t), Gate[t] # "waiting", Gate'[t] # Gate[t]
      PROVE  /\ \E p \in Task: state[p] = "done" /\ state'[p] = "ready"
             /\ ~(Gate[t] = "eligible" /\ state[t] \in {"in_progress", "done"})
  <2>1. Gate = GateVerdict /\ Gate' = GateVerdict'
    BY <1>1 DEF Gate
  <2>2. \E p \in Task: state[p] = "done" /\ state'[p] = "ready"
    BY <1>1, <2>1, VerdictsSettle
  <2>3. ASSUME Gate[t] = "eligible", state[t] \in {"in_progress", "done"}
        PROVE  FALSE
    <3>1. \A p \in Direct(t): ~ReopenTask(p)
      BY <2>3 DEF Direct, Incoming, ReopenTask, Consumed
    <3> QED BY <1>1, <2>1, <2>3, <3>1, OpenGateStays
  <2> QED BY <2>2, <2>3
<1>2. Inv /\ Inv' /\ [Next]_vars =>
        [edges' = edges /\ member' = member =>
           \A t \in Task:
             (Exists(t) /\ Gate[t] # "waiting" /\ Gate'[t] # Gate[t]) =>
               /\ \E p \in Task: state[p] = "done" /\ state'[p] = "ready"
               /\ ~(Gate[t] = "eligible" /\ state[t] \in {"in_progress", "done"})]_vars
  BY <1>1
<1>3. Spec => []Inv
  BY GateInvariant
<1> HIDE DEF Inv
<1> QED BY <1>2, <1>3, PTL DEF Spec, GateSettles
=============================================================================
