---------------------------- MODULE ProjectMemory ----------------------------
(* The shared memory of one project (git_memory.rs, memory.rs).  It starts in *)
(* SQL and can be cut over to Git; SQL then keeps an index of the Git head.   *)
(* The two stores are not atomic: a durable operation is prepared in SQL, a   *)
(* compare-and-swap moves the Git reference, the index follows, and           *)
(* reconciliation finishes what a crash left half done.                       *)
(*                                                                            *)
(* Every step here but MoveRef is one BEGIN IMMEDIATE transaction or a part   *)
(* of one.  Reconciliation holds its transaction over several steps: staged   *)
(* is the database as it sees it, and a crash takes staged back to db.  The   *)
(* commit that an operation makes is named by the operation: it is kept under *)
(* refs/morrows/operations/<id> and found again after a crash.                *)
EXTENDS Naturals, FiniteSets

CONSTANTS
  Client,          \* whoever holds credentials, at first one agent each
  OAuthClient,     \* those whose agent came from OAuth and can be merged
  Key,             \* idempotency keys
  Foreign,         \* a commit that somebody else made
  NMem, NOp,       \* bounds: memory entries and Git operations
  NOperator,       \* bound: memory entries that operators write
  MaxFault         \* bound: crashes, foreign pushes, lost rows and failing update-refs

Mem == 1 .. NMem
Op == 1 .. NOp
Commit == Op \cup {0, Foreign}      \* 0: the reference does not exist

ASSUME MemoryBounds ==
  NMem \in Nat /\ NOp \in Nat /\ NOperator \in Nat /\ MaxFault \in Nat
ASSUME OAuthAssumption == OAuthClient \subseteq Client
ASSUME ForeignAssumption == Foreign \notin Nat

VARIABLES
  db,        \* the committed database
  staged,    \* the database as the reconciling transaction has changed it
  at,        \* where reconciliation is: idle, ready or moved
  head,      \* the Git reference of the project
  identity,  \* the agent a client acts as (oauth_agent_bindings)
  answers,   \* history: the answers that were given
  faults     \* history: faults so far

memVars == <<db, staged, at, head, identity, answers, faults>>

-----------------------------------------------------------------------------
(* Types. *)
Entry == [id: Mem, sup: Mem \cup {0}, shared: BOOLEAN,
          source: {"agent_task", "operator"}]
Request == [sup: Mem \cup {0}, base: Commit]
Publication == [agent: Client, key: Key, req: Request, mem: Mem]
NoRequest == [sup |-> 0, base |-> 0]

Empty == [entries |-> {}, pubs |-> {}]
NullOp == [state |-> "none"]
MirrorOp(payload, base) ==
  [state |-> "prepared", kind |-> "mirror", base |-> base, payload |-> payload]
PublicationOp(agent, key, req, mem, payload) ==
  [state |-> "prepared", kind |-> "publication", base |-> req.base,
   payload |-> payload, actor |-> agent, key |-> key, req |-> req, mem |-> mem]

OpOK(o) ==
  \/ o = NullOp
  \/ /\ o.state \in {"prepared", "indexed", "conflict"}
     /\ o.kind \in {"mirror", "publication"} /\ o.base \in Commit
     /\ o.payload.entries \subseteq Entry /\ o.payload.pubs \subseteq Publication
     /\ o.kind = "publication" =>
          o.actor \in Client /\ o.key \in Key /\ o.req \in Request /\ o.mem \in Mem

DatabaseOK(d) ==
  /\ d.entries \subseteq Entry
  /\ d.pubs \subseteq Publication
  /\ d.backend \in {"sql", "git"}
  /\ d.indexed \in Op \cup {0} /\ d.verified \in Op \cup {0}
  /\ DOMAIN d.ops = Op /\ \A o \in Op: OpOK(d.ops[o])

Reply == [client: Client, agent: Client, key: Key, mem: Mem]

MemoryTypeOK ==
  /\ DatabaseOK(db) /\ DatabaseOK(staged)
  /\ at \in {"idle", "ready", "moved"} /\ (at = "idle" => staged = db)
  /\ head \in Commit
  /\ identity \in [Client -> Client]
  /\ answers \subseteq Reply
  /\ faults \in 0 .. MaxFault

MemoryInit ==
  /\ db = [entries |-> {}, pubs |-> {}, backend |-> "sql", indexed |-> 0,
           verified |-> 0, ops |-> [o \in Op |-> NullOp]]
  /\ staged = db /\ at = "idle"
  /\ head = 0
  /\ identity = [c \in Client |-> c]
  /\ answers = {}
  /\ faults = 0

-----------------------------------------------------------------------------
(* Queries. *)
Shared(d) == {e \in d.entries: e.shared}
Snapshot(d) ==
  [entries |-> Shared(d),
   pubs |-> {p \in d.pubs: \E e \in Shared(d): e.id = p.mem}]
Content(c) == IF c \in Op THEN db.ops[c].payload ELSE Empty
Prepared(d) == {o \in Op: d.ops[o].state = "prepared"}
FirstPrepared(d) == CHOOSE o \in Prepared(d): \A p \in Prepared(d): o <= p

Settled == db.indexed = head /\ head # 0

\* mutant: the rows themselves are not compared with Git
IndexedHead == db.indexed = head /\ head # 0
\* The index stands at the head and holds exactly what Git holds there.
ProjectionMatches == Settled /\ Snapshot(db) = Content(head)
Readable == db.backend = "git" => ProjectionMatches

UsedMem == {e.id: e \in db.entries}
           \cup {e.id: e \in UNION {Content(o).entries: o \in {p \in Op: db.ops[p] # NullOp}}}
FreshMem(m) == m \notin UsedMem /\ \A n \in Mem: n < m => n \in UsedMem
FreshOp(o) == db.ops[o] = NullOp /\ \A p \in Op: p < o => db.ops[p] # NullOp

Current(m) ==
  /\ \E e \in Shared(db): e.id = m
  /\ \A e \in Shared(db): e.sup # m

\* mutant: any shared entry of the project may be superseded
KnownEntry(m) == m = 0 \/ \E e \in Shared(db): e.id = m
\* supersedes_memory_id must be shared memory that nothing supersedes yet.
MayReplace(m) == m = 0 \/ Current(m)

Operations(agent, key) ==
  {o \in Op: db.ops[o] # NullOp /\ db.ops[o].kind = "publication"
             /\ db.ops[o].actor = agent /\ db.ops[o].key = key}

\* memory_publications, whose primary key is the agent with its key
Saved(agent, key) == {p \in db.pubs: p.agent = agent /\ p.key = key}

-----------------------------------------------------------------------------
(* Writers.  The write lock excludes them while reconciliation is under way.  *)
Write(d) == at = "idle" /\ db' = d /\ staged' = d /\ UNCHANGED at

\* A publisher is told the entry that its key stands for: by its first call, or
\* by one that repeats the same request, but not while the operation is open, and
\* never if the operation has conflicted or the index cannot be read.
AnswerPublisher(c, key) ==
  LET a == identity[c] IN
  \E p \in Saved(a, key):
    /\ at = "idle" /\ Prepared(db) = {} /\ Readable
    /\ \A o \in Operations(a, key):
         db.ops[o].state = "indexed" /\ db.ops[o].req = p.req
    /\ answers' = answers \cup
         {[client |-> c, agent |-> a, key |-> key, mem |-> p.mem]}
    /\ UNCHANGED <<db, staged, at, head, identity, faults>>

\* The first publication with a key.  In a Git project the caller names the head
\* it has read, the index has to agree with that head, and all that is written is
\* the operation: the entry was inserted only to compute its payload.
Publish(c, key, sup) ==
  LET a == identity[c]
      req == [sup |-> sup, base |-> IF db.backend = "git" THEN head ELSE 0]
  IN
  \E m \in Mem:
    LET entry == [id |-> m, sup |-> sup, shared |-> TRUE, source |-> "agent_task"]
        with == [db EXCEPT !.entries = @ \cup {entry},
                           !.pubs = @ \cup {[agent |-> a, key |-> key,
                                             req |-> req, mem |-> m]}]
    IN
    /\ FreshMem(m)
    /\ Prepared(db) = {}
    /\ Saved(a, key) = {} /\ Operations(a, key) = {}
    /\ MayReplace(sup)
    /\ IF db.backend = "sql"
       THEN Write(with)
       ELSE \E o \in Op:
              /\ ProjectionMatches /\ FreshOp(o)
              /\ Write([db EXCEPT !.ops[o] =
                          PublicationOp(a, key, req, m, Snapshot(with))])
    /\ UNCHANGED <<head, identity, answers, faults>>

\* mutant: the backend is not asked
ByOperator(shared) == TRUE
\* A Git project takes shared memory only through a publication.
OperatorMayWrite(shared) == shared => db.backend = "sql"

\* An operator writes a memory of the project, shared or private.  It supersedes
\* what the operator names, current or not.
CreateEntry(sup, shared) ==
  /\ sup # 0 => \E e \in db.entries: e.id = sup
  /\ OperatorMayWrite(shared)
  /\ Cardinality({e \in db.entries: e.source = "operator"}) < NOperator
  /\ \E m \in Mem:
       /\ FreshMem(m)
       /\ Write([db EXCEPT !.entries = @ \cup
            {[id |-> m, sup |-> sup, shared |-> shared, source |-> "operator"]}])
  /\ UNCHANGED <<head, identity, answers, faults>>

Mirror ==
  \E o \in Op:
    /\ db.backend = "sql" /\ FreshOp(o)
    /\ Write([db EXCEPT !.ops[o] = MirrorOp(Snapshot(db), head)])
    /\ UNCHANGED <<head, identity, answers, faults>>

\* mutant: what the mirror has verified once is taken for equal
VerifiedHead(c) == db.verified = c /\ head = c
\* SQL must be what the verified mirror head holds, at this very moment.
SameAsMirror(c) == db.verified = c /\ head = c /\ Snapshot(db) = Content(c)

\* mutant: an operation that is still prepared does not matter
AnyPending(d) == TRUE
\* No operation of the project is between its intent and its result.
NonePending(d) == Prepared(d) = {}

Cutover(c) ==
  /\ NonePending(db)
  /\ SameAsMirror(c)
  /\ \A e \in Content(c).entries:
       e.sup = 0 \/ \E f \in Content(c).entries: f.id = e.sup
  /\ Write([db EXCEPT !.backend = "git", !.indexed = c])
  /\ UNCHANGED <<head, identity, answers, faults>>

\* An operator merges the agent of one client into another agent.  The actors of
\* operations are renamed, the agents of publications are not.
Renamed(a, b) ==
  [o \in Op |-> IF db.ops[o] # NullOp /\ db.ops[o].kind = "publication"
                   /\ db.ops[o].actor = a
                THEN [db.ops[o] EXCEPT !.actor = b] ELSE db.ops[o]]
MergeAgents(a, b) ==
  /\ a \in OAuthClient /\ a # b /\ identity[b] = b /\ identity[a] = a
  /\ \A k \in Key: Operations(a, k) = {} \/ Operations(b, k) = {}
  /\ Write([db EXCEPT !.ops = Renamed(a, b)])
  /\ identity' = [identity EXCEPT ![a] = b]
  /\ UNCHANGED <<head, answers, faults>>

-----------------------------------------------------------------------------
(* Reconciliation: one transaction over all prepared operations, oldest first. *)
ReconcileBegin ==
  /\ at = "idle" /\ Prepared(db) # {}
  /\ at' = "ready"
  /\ UNCHANGED <<db, staged, head, identity, answers, faults>>

\* one more of the bounded number of faults
Fault == faults < MaxFault /\ faults' = faults + 1

\* mutant: a head that is already the result is taken for somebody else's
OnlyFromBase(o) == head = db.ops[o].base
\* The reference is where the operation expects it, or the operation has moved
\* it already and a crash kept that from being recorded.
RefMatches(o) == head = o \/ head = db.ops[o].base

\* update-ref of the project, which compares and swaps: any failure of it is taken
\* for a reference that somebody else has moved
MoveRef ==
  /\ at = "ready" /\ Prepared(staged) # {}
  /\ LET o == FirstPrepared(staged) IN
     \/ /\ RefMatches(o)
        /\ head' = o /\ at' = "moved" /\ UNCHANGED <<staged, faults>>
     \/ /\ \/ ~RefMatches(o) /\ UNCHANGED faults
           \/ head = db.ops[o].base /\ Fault
        /\ staged' = [staged EXCEPT !.ops[o].state = "conflict"]
        /\ UNCHANGED <<head, at>>
  /\ UNCHANGED <<db, identity, answers>>

\* index_snapshot: entries are added or restored, publications replaced exactly
Projected(d, s) ==
  [d EXCEPT !.entries = @ \cup s.entries,
            !.pubs = (@ \ Snapshot(d).pubs) \cup s.pubs]

\* A mirror counts as verified if SQL still is what it was made of.
StillVerified(d, o) == d.backend = "sql" /\ Snapshot(d) = d.ops[o].payload

Indexed(d, o) ==
  LET e == [d EXCEPT !.ops[o].state = "indexed"] IN
  IF d.ops[o].kind = "publication"
  THEN [Projected(e, d.ops[o].payload) EXCEPT !.indexed = o]
  ELSE IF StillVerified(d, o) THEN [e EXCEPT !.verified = o] ELSE e

\* An index that then differs from Git makes the whole transaction fail.
IndexOp ==
  /\ at = "moved"
  /\ LET o == FirstPrepared(staged)
         next == Indexed(staged, o)
     IN IF staged.ops[o].kind = "publication"
           /\ Snapshot(next) # staged.ops[o].payload
        THEN staged' = db /\ at' = "idle"
        ELSE staged' = next /\ at' = "ready"
  /\ UNCHANGED <<db, head, identity, answers, faults>>

ReconcileCommit ==
  /\ at = "ready" /\ Prepared(staged) = {}
  /\ db' = staged /\ at' = "idle"
  /\ UNCHANGED <<staged, head, identity, answers, faults>>

\* An operator restores the index from the head it stands for.
Rebuild ==
  /\ db.backend = "git" /\ Settled
  /\ Snapshot(Projected(db, Content(head))) = Content(head)
  /\ Write(Projected(db, Content(head)))
  /\ UNCHANGED <<head, identity, answers, faults>>

-----------------------------------------------------------------------------
(* Faults. *)
Crash ==
  /\ Fault
  /\ staged' = db /\ at' = "idle"
  /\ UNCHANGED <<db, head, identity, answers>>

\* Somebody moves the reference by hand.
ForeignPush ==
  /\ Fault
  /\ head # Foreign /\ head' = Foreign
  /\ UNCHANGED <<db, staged, at, identity, answers>>

\* A row of the index is lost: the rebuild is for "missing/corrupted index rows".
LoseRow(e) ==
  /\ Fault
  /\ db.backend = "git" /\ e \in Shared(db)
  /\ \A f \in db.entries: f.sup # e.id
  /\ Write([db EXCEPT !.entries = @ \ {e}, !.pubs = {p \in @: p.mem # e.id}])
  /\ UNCHANGED <<head, identity, answers>>

MemoryNext ==
  \/ \E c \in Client, k \in Key: AnswerPublisher(c, k)
  \/ \E c \in Client, k \in Key, sup \in Mem \cup {0}: Publish(c, k, sup)
  \/ \E sup \in Mem \cup {0}, shared \in BOOLEAN: CreateEntry(sup, shared)
  \/ Mirror
  \/ \E c \in Op: Cutover(c)
  \/ \E a, b \in Client: MergeAgents(a, b)
  \/ ReconcileBegin \/ MoveRef \/ IndexOp \/ ReconcileCommit
  \/ Rebuild
  \/ Crash \/ ForeignPush
  \/ \E e \in db.entries: LoseRow(e)

MemorySpec == MemoryInit /\ [][MemoryNext]_memVars

-----------------------------------------------------------------------------
(* What the memory is for. *)

\* What a reader may rely on: Git after the cutover, as far as the service knows
\* the head, and SQL before.
Published ==
  IF db.backend = "sql" THEN Shared(db)
  ELSE IF head = Foreign THEN Content(db.indexed).entries
  ELSE Content(head).entries

Abstract == INSTANCE PublishedMemory WITH
  log <- Published,
  told <- {w.mem: w \in answers}

\* Published memory is only added to, through mirror, cutover, crash, conflict,
\* rebuild and merge, and no answered publication is ever lost
\* (publish_project_memory, cutover_project_memory, reconcile_git_memory).
OnlyAddsToPublished == Abstract!PublishedSpec

\* A publication replaces an entry that nothing else replaces: revisions do not
\* fork, whichever store is the authority ("rather than forking shared truth",
\* publish_project_memory).
PublicationDoesNotFork ==
  [][\A e \in Published' \ Published:
       e.source = "agent_task" /\ e.sup # 0 =>
         \A f \in Published: f.sup # e.sup]_memVars

\* A publication that ended in conflict is not the head and nothing was built on
\* it, whatever crashed between the reference and the index: its author may publish
\* again without doubling the entry (reconcile_git_memory).
ConflictIsUnpublished ==
  \A o \in Op: db.ops[o].state = "conflict" /\ db.ops[o].kind = "publication" =>
    /\ head # o /\ db.indexed # o
    /\ \A p \in Op: db.ops[p] # NullOp => db.ops[p].base # o

\* Outside of reconciliation with nothing prepared, the index of a Git project
\* stands at its head, unless somebody else moved it, and holds nothing that Git
\* does not hold (cutover_project_memory, memory_read_transaction).
SettledWhenIdle ==
  db.backend = "git" =>
    /\ Prepared(db) = {} /\ head # Foreign => Settled
    /\ Shared(db) \subseteq Content(db.indexed).entries

\* A key of an agent stands for one entry: however often a publication is
\* repeated, after a crash, a conflict or the cutover, the answers name the same
\* entry (publish_project_memory).
OneEntryPerKey ==
  \A v, w \in answers: v.agent = w.agent /\ v.key = w.key => v.mem = w.mem

\* "Retries return the original publication" (memory.rs:17), for a client whose
\* agent may have been merged into another one in between.
RetryReturnsOriginal ==
  \A v, w \in answers: v.client = w.client /\ v.key = w.key => v.mem = w.mem

\* The index can always follow the reference: a publication that has moved it is
\* never left with an index that "differs from Git", which would make every later
\* reconciliation fail as well (index_snapshot, create_memory_entry, cutover).
IndexCanFollow ==
  at = "moved" =>
    LET o == FirstPrepared(staged) IN
    staged.ops[o].kind = "publication" =>
      Snapshot(Indexed(staged, o)) = staged.ops[o].payload
=============================================================================
