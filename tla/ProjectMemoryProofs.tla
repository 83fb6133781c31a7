------------------------ MODULE ProjectMemoryProofs ------------------------
(* The project memory implements PublishedMemory: for any number of clients,  *)
(* entries, operations and faults, published knowledge is only added to and   *)
(* what an author was told stays, across both stores and the cutover.         *)
EXTENDS ProjectMemory, WellFoundedInduction, TLAPS

-----------------------------------------------------------------------------
(* The inductive invariant.                                                   *)
Payload == [entries: SUBSET Entry, pubs: SUBSET Publication]
OpState == {"prepared", "indexed", "conflict"}
OpRow ==
  [state: OpState, kind: {"mirror"}, base: Commit, payload: Payload]
  \cup [state: OpState, kind: {"publication"}, base: Commit, payload: Payload,
        actor: Client, key: Key, req: Request, mem: Mem]
Database ==
  [entries: SUBSET Entry, pubs: SUBSET Publication, backend: {"sql", "git"},
   indexed: Op \cup {0}, verified: Op \cup {0}, ops: [Op -> OpRow \cup {NullOp}]]

Typed ==
  /\ db \in Database /\ staged \in Database
  /\ at \in {"idle", "ready", "moved"}
  /\ head \in Commit
  /\ identity \in [Client -> Client]

\* a publication names an entry that is there
Linked(d) == \A p \in d.pubs: \E e \in d.entries: e.shared /\ e.id = p.mem

\* what reconciliation has changed so far: states of operations, and the index
StagedOK ==
  /\ at = "idle" => staged = db
  /\ staged.backend = db.backend
  /\ db.backend = "sql" => Shared(staged) = Shared(db)
  /\ \A o \in Op:
       /\ staged.ops[o] = NullOp <=> db.ops[o] = NullOp
       /\ db.ops[o] # NullOp => staged.ops[o].kind = db.ops[o].kind
                                /\ staged.ops[o].payload = db.ops[o].payload
                                /\ staged.ops[o].base = db.ops[o].base
  /\ Prepared(staged) \subseteq Prepared(db)
  /\ at = "moved" => Prepared(staged) # {} /\ head \in {FirstPrepared(staged), Foreign}

References ==
  /\ Linked(db) /\ Linked(staged)
  /\ \A o \in Op: db.ops[o] # NullOp => Linked(db.ops[o].payload)
  /\ db.verified # 0 => db.ops[db.verified] # NullOp
  /\ staged.verified # 0 => db.ops[staged.verified] # NullOp
  /\ db.backend = "sql" => \A o \in Op: db.ops[o] # NullOp => db.ops[o].kind = "mirror"

\* a publication adds one entry to what the index stands for
Extends(o) ==
  /\ db.ops[o].kind = "publication" /\ db.ops[o].base = db.indexed
  /\ \E e \in Entry:
       /\ db.ops[o].payload.entries = db.ops[db.indexed].payload.entries \cup {e}
       /\ \A f \in db.ops[db.indexed].payload.entries: f.id # e.id

GitOK ==
  db.backend = "git" =>
    /\ db.indexed \in Op /\ db.ops[db.indexed] # NullOp
    /\ \A o \in Prepared(db): Extends(o)
    /\ \A o, p \in Prepared(db): o = p
    /\ head \in {db.indexed, Foreign} \cup Prepared(db)
    /\ Prepared(staged) = {} =>
         /\ head \in {staged.indexed, Foreign}
         /\ staged.indexed \in {db.indexed} \cup Prepared(db)
    /\ Prepared(staged) # {} => staged.indexed = db.indexed

\* what no fault takes back
Stable ==
  IF db.backend = "sql" THEN Shared(db) ELSE db.ops[db.indexed].payload.entries
ToldOK == \A w \in answers: \E e \in Stable: e.id = w.mem

MemoryInv == Typed /\ StagedOK /\ References /\ GitOK /\ ToldOK

-----------------------------------------------------------------------------
(* A step of the abstract memory, in terms of the detailed one.               *)
Told == {w.mem: w \in answers}

Implements ==
  \/ Published' = Published /\ Told' = Told
  \/ \E e: /\ \A f \in Published: f.id # e.id
           /\ Published' = Published \cup {e} /\ Told' = Told
  \/ \E e \in Published: Told' = Told \cup {e.id} /\ Published' = Published
  \/ \E e \in Published: /\ e.id \notin Told
                         /\ Published' = Published \ {e} /\ Told' = Told

LEMMA AbstractStep ==
  ASSUME Implements
  PROVE  [Abstract!PublishedNext]_<<Published, Told>>
<1>1. CASE Published' = Published /\ Told' = Told
  BY <1>1
<1>2. ASSUME NEW e, \A f \in Published: f.id # e.id,
             Published' = Published \cup {e}, Told' = Told
      PROVE  Abstract!PublishedNext
  BY <1>2 DEF Abstract!PublishedNext, Abstract!Append, Told
<1>3. ASSUME NEW e \in Published, Told' = Told \cup {e.id}, Published' = Published
      PROVE  Abstract!PublishedNext
  BY <1>3 DEF Abstract!PublishedNext, Abstract!Tell, Told
<1>4. ASSUME NEW e \in Published, e.id \notin Told,
             Published' = Published \ {e}, Told' = Told
      PROVE  Abstract!PublishedNext
  BY <1>4 DEF Abstract!PublishedNext, Abstract!Undo, Told
<1> QED BY <1>1, <1>2, <1>3, <1>4 DEF Implements

-----------------------------------------------------------------------------
(* Facts about operations.                                                    *)
LEMMA OpFacts ==
  ASSUME NEW d \in Database, NEW o \in Op, d.ops[o] # NullOp
  PROVE  /\ d.ops[o] \in OpRow /\ d.ops[o].payload \in Payload
         /\ d.ops[o].state \in OpState /\ d.ops[o].base \in Commit
BY DEF Database, OpRow

LEMMA NullFacts ==
  /\ NullOp.state = "none" /\ NullOp \notin OpRow
  /\ \A d \in Database: \A o \in Prepared(d): o \in Op /\ d.ops[o] # NullOp
BY DEF NullOp, OpRow, OpState, Prepared

LEMMA FirstIsPrepared ==
  ASSUME NEW d \in Database, Prepared(d) # {}
  PROVE  FirstPrepared(d) \in Prepared(d)
<1>1. Prepared(d) \subseteq Nat
  BY DEF Prepared, Op
<1> DEFINE Less == {ss \in Nat \X Nat: ss[1] < ss[2]}
<1>2. IsWellFoundedOn(Less, Nat)
  BY NatLessThanWellFounded DEF OpToRel
<1>a. \A p, o \in Nat: <<p, o>> \notin Less => o <= p
  OBVIOUS
<1> HIDE DEF Less
<1>3. \E o \in Prepared(d): \A p \in Prepared(d): ~(<<p, o>> \in Less)
  BY <1>1, <1>2, WFMin
<1>4. \E o \in Prepared(d): \A p \in Prepared(d): o <= p
  BY <1>1, <1>3, <1>a
<1> QED BY <1>4 DEF FirstPrepared

\* An operation gets another state.
Moved(d, o, st, e) ==
  /\ e.entries = d.entries /\ e.pubs = d.pubs /\ e.backend = d.backend
  /\ e.indexed = d.indexed /\ e.verified = d.verified
  /\ \A p \in Op: /\ e.ops[p] = NullOp <=> d.ops[p] = NullOp
                  /\ p # o => e.ops[p] = d.ops[p]
  /\ e.ops[o].kind = d.ops[o].kind /\ e.ops[o].payload = d.ops[o].payload
  /\ e.ops[o].base = d.ops[o].base
  /\ e.ops[o].state = st

LEMMA StateStep ==
  ASSUME NEW d \in Database, NEW o \in Op, d.ops[o] # NullOp, NEW st \in OpState,
         NEW e, e = [d EXCEPT !.ops[o].state = st]
  PROVE  e \in Database /\ Moved(d, o, st, e)
<1> DEFINE row == [d.ops[o] EXCEPT !.state = st]
<1>1. e = [d EXCEPT !.ops = [d.ops EXCEPT ![o] = row]]
  BY DEF Database
<1>2. d.ops[o] \in OpRow
  BY OpFacts
<1>3. /\ row \in OpRow /\ row.kind = d.ops[o].kind /\ row.payload = d.ops[o].payload
      /\ row.base = d.ops[o].base /\ row.state = st
  BY <1>2 DEF OpRow
<1>4. row # NullOp
  BY <1>3, NullFacts
<1> HIDE DEF row
<1>5. [d.ops EXCEPT ![o] = row] \in [Op -> OpRow \cup {NullOp}]
  BY <1>3 DEF Database
<1> QED BY <1>1, <1>3, <1>4, <1>5 DEF Database, Moved

LEMMA ForeignIsNoOp == Foreign \notin Op \cup {0}
BY ForeignAssumption DEF Op

\* In a Git project readers see the payload of an operation.
LEMMA GitPublished ==
  ASSUME MemoryInv, db.backend = "git"
  PROVE  /\ head # Foreign => head \in Op /\ db.ops[head] # NullOp
         /\ db.indexed \in Op /\ db.ops[db.indexed] # NullOp
         /\ Published = IF head = Foreign THEN db.ops[db.indexed].payload.entries
                        ELSE db.ops[head].payload.entries
         /\ Stable = db.ops[db.indexed].payload.entries
<1>1. /\ head # Foreign => head \in Op /\ db.ops[head] # NullOp
      /\ db.indexed \in Op /\ db.ops[db.indexed] # NullOp
  BY NullFacts DEF MemoryInv, Typed, GitOK
<1> QED BY <1>1 DEF Published, Content, Stable

-----------------------------------------------------------------------------
(* The transactions outside of reconciliation.                                *)

\* They keep the operations that are there and add one at most.
KeepsOps(d) ==
  \A o \in Op: db.ops[o] # NullOp =>
    /\ d.ops[o] # NullOp /\ d.ops[o].state = db.ops[o].state
    /\ d.ops[o].kind = db.ops[o].kind /\ d.ops[o].base = db.ops[o].base
    /\ d.ops[o].payload = db.ops[o].payload

IsNew(d, o) == db.ops[o] = NullOp /\ d.ops[o] # NullOp

AddsMirror(d) ==
  \A o \in Op: IsNew(d, o) => Linked(d.ops[o].payload) /\ d.ops[o].kind = "mirror"

AddsPublication(d) ==
  \A o \in Op: IsNew(d, o) =>
    /\ Linked(d.ops[o].payload) /\ Prepared(db) = {}
    /\ \A p \in Op: IsNew(d, p) => p = o
    /\ d.ops[o].kind = "publication" /\ d.ops[o].base = db.indexed
    /\ \E e \in Entry:
         /\ d.ops[o].payload.entries = db.ops[db.indexed].payload.entries \cup {e}
         /\ \A f \in db.ops[db.indexed].payload.entries: f.id # e.id

LEMMA WriteInv ==
  ASSUME MemoryInv, NEW d \in Database, Write(d), head' = head,
         identity' \in [Client -> Client], answers' = answers, Linked(d),
         d.backend = db.backend, d.indexed = db.indexed, d.verified = db.verified,
         db.backend = "sql" => Shared(db) \subseteq Shared(d),
         KeepsOps(d),
         IF db.backend = "sql" THEN AddsMirror(d) ELSE AddsPublication(d)
  PROVE  MemoryInv' /\ (db.backend = "git" => Published' = Published)
<1> USE DEF MemoryInv, KeepsOps, AddsMirror, AddsPublication, IsNew
<1>1. at = "idle" /\ db' = d /\ staged' = d /\ at' = at
  BY DEF Write
<1>2. Typed'
  BY <1>1 DEF Typed
<1>3. StagedOK'
  BY <1>1 DEF StagedOK
<1>4. References'
  <2>1. \A o \in Op: d.ops[o] # NullOp => Linked(d.ops[o].payload)
    BY DEF References
  <2>2. d.verified # 0 => d.ops[d.verified] # NullOp
    BY DEF References, Typed, Database
  <2>3. d.backend = "sql" => \A o \in Op: d.ops[o] # NullOp => d.ops[o].kind = "mirror"
    BY DEF References
  <2> QED BY <1>1, <2>1, <2>2, <2>3 DEF References
<1>5. CASE db.backend = "sql"
  <2>1. GitOK'
    BY <1>1, <1>5 DEF GitOK
  <2>2. ToldOK'
    BY <1>1, <1>5 DEF ToldOK, Stable
  <2> QED BY <1>2, <1>3, <1>4, <1>5, <2>1, <2>2
<1>6. CASE db.backend = "git"
  <2>1. db.indexed \in Op /\ db.ops[db.indexed] # NullOp
    BY <1>6, GitPublished
  <2>2. d.ops[db.indexed].payload = db.ops[db.indexed].payload
    BY <2>1
  <2>3. \A o \in Op: db.ops[o] # NullOp => (o \in Prepared(d) <=> o \in Prepared(db))
    BY DEF Prepared
  <2>4. \A o \in Prepared(d):
          Extends(o)' /\ \A p \in Prepared(d): o = p
    <3> SUFFICES ASSUME NEW o \in Prepared(d)
                 PROVE  Extends(o)' /\ \A p \in Prepared(d): o = p
      OBVIOUS
    <3>1. o \in Op /\ d.ops[o] # NullOp /\ \A p \in Prepared(d): p \in Op /\ d.ops[p] # NullOp
      BY NullFacts
    <3>2. CASE db.ops[o] # NullOp
      <4>1. o \in Prepared(db)
        BY <2>3, <3>1, <3>2
      <4>2. Extends(o) /\ \A p \in Prepared(db): o = p
        BY <1>6, <4>1 DEF GitOK
      <4>3. \A p \in Prepared(d): db.ops[p] # NullOp
        BY <1>6, <3>1, <4>1
      <4> QED BY <1>1, <2>1, <2>2, <2>3, <3>1, <3>2, <4>2, <4>3 DEF Extends
    <3>3. CASE db.ops[o] = NullOp
      <4>1. Prepared(db) = {}
        BY <1>6, <3>1, <3>3
      <4>2. \A p \in Prepared(d): db.ops[p] = NullOp
        BY <2>3, <3>1, <4>1
      <4> QED BY <1>1, <1>6, <2>2, <3>1, <3>3, <4>2 DEF Extends
    <3> QED BY <3>2, <3>3
  <2>5. head \in {d.indexed, Foreign} \cup Prepared(d)
    BY <1>6, <2>3, NullFacts DEF GitOK, Typed
  <2>6. Prepared(d) = {} => head \in {d.indexed, Foreign}
    BY <2>5
  <2>7. GitOK'
    BY <1>1, <1>6, <2>1, <2>4, <2>5, <2>6 DEF GitOK
  <2>8. Stable' = Stable
    BY <1>1, <1>6, <2>2 DEF Stable
  <2>9. ToldOK'
    BY <2>8 DEF ToldOK
  <2>10. Published' = Published
    BY <1>1, <1>6, <2>1, <2>2, GitPublished DEF Published, Content
  <2> QED BY <1>2, <1>3, <1>4, <2>7, <2>9, <2>10
<1>7. db.backend \in {"sql", "git"}
  BY DEF Typed, Database
<1> QED BY <1>5, <1>6, <1>7

\* The id of a new entry is not in use, neither in the tables nor in a payload.
LEMMA FreshId ==
  ASSUME NEW m \in Mem, FreshMem(m)
  PROVE  /\ \A e \in db.entries: e.id # m
         /\ \A o \in Op: db.ops[o] # NullOp => \A e \in db.ops[o].payload.entries: e.id # m
BY DEF FreshMem, UsedMem, Content

\* Snapshots keep what is linked.
LEMMA SnapshotLinked ==
  ASSUME NEW d \in Database
  PROVE  Snapshot(d) \in Payload /\ Linked(Snapshot(d))
<1>1. Snapshot(d).entries = Shared(d)
      /\ Snapshot(d).pubs = {p \in d.pubs: \E e \in Shared(d): e.id = p.mem}
  BY DEF Snapshot
<1>2. Snapshot(d) \in Payload
  BY DEF Snapshot, Shared, Payload, Database
<1>3. \A e \in Shared(d): e.shared
  BY DEF Shared
<1> QED BY <1>1, <1>2, <1>3 DEF Linked

LEMMA PublishSteps ==
  ASSUME MemoryInv, NEW c \in Client, NEW key \in Key, NEW sup \in Mem \cup {0},
         Publish(c, key, sup)
  PROVE  MemoryInv' /\ Implements
<1> USE DEF MemoryInv
<1> DEFINE a == identity[c]
           req == [sup |-> sup, base |-> IF db.backend = "git" THEN head ELSE 0]
           entry(m) == [id |-> m, sup |-> sup, shared |-> TRUE, source |-> "agent_task"]
           pub(m) == [agent |-> a, key |-> key, req |-> req, mem |-> m]
           with(m) == [db EXCEPT !.entries = @ \cup {entry(m)}, !.pubs = @ \cup {pub(m)}]
<1>1. PICK m \in Mem:
        /\ FreshMem(m) /\ Prepared(db) = {}
        /\ IF db.backend = "sql" THEN Write(with(m))
           ELSE \E o \in Op:
                  /\ ProjectionMatches /\ FreshOp(o)
                  /\ Write([db EXCEPT !.ops[o] =
                              PublicationOp(a, key, req, m, Snapshot(with(m)))])
  BY DEF Publish
<1>2. UNCHANGED <<head, identity, answers>>
  BY DEF Publish
<1>3. entry(m) \in Entry /\ pub(m) \in Publication
  BY DEF Entry, Publication, Request, Typed, Commit
<1>4. with(m) \in Database
      /\ with(m).entries = db.entries \cup {entry(m)}
      /\ with(m).pubs = db.pubs \cup {pub(m)}
      /\ with(m).backend = db.backend /\ with(m).indexed = db.indexed
      /\ with(m).verified = db.verified /\ with(m).ops = db.ops
  BY <1>3 DEF Typed, Database
<1>5. Linked(with(m))
  <2>1. entry(m).shared /\ entry(m).id = m /\ pub(m).mem = m
    OBVIOUS
  <2> HIDE DEF entry, pub, with
  <2> QED BY <1>4, <2>1 DEF Linked, References
<1>6. Shared(with(m)) = Shared(db) \cup {entry(m)}
  BY <1>4 DEF Shared
<1>7. entry(m).id = m
  OBVIOUS
<1>8. Told' = Told
  BY <1>2 DEF Told
<1> HIDE DEF entry, pub, with, req
<1>9. CASE db.backend = "sql"
  <2>a. KeepsOps(with(m)) /\ AddsMirror(with(m))
    BY <1>4 DEF KeepsOps, AddsMirror, IsNew
  <2>1. MemoryInv'
    BY <1>1, <1>2, <1>4, <1>5, <1>6, <1>9, <2>a, WriteInv DEF Typed
  <2>2. Published' = Published \cup {entry(m)}
    BY <1>1, <1>4, <1>6, <1>9 DEF Published, Write
  <2>3. \A f \in Published: f.id # entry(m).id
    BY <1>1, <1>7, <1>9, FreshId DEF Published, Shared
  <2> QED BY <1>8, <2>1, <2>2, <2>3 DEF Implements
<1>10. CASE db.backend = "git"
  <2>1. PICK o \in Op:
          /\ ProjectionMatches /\ FreshOp(o)
          /\ Write([db EXCEPT !.ops[o] =
                      PublicationOp(a, key, req, m, Snapshot(with(m)))])
    BY <1>1, <1>10
  <2> DEFINE row == PublicationOp(a, key, req, m, Snapshot(with(m)))
             d == [db EXCEPT !.ops[o] = row]
  <2>2. Snapshot(with(m)) \in Payload /\ Linked(Snapshot(with(m)))
    BY <1>4, SnapshotLinked
  <2>3. req \in Request /\ req.base = head
    BY <1>10 DEF req, Request, Typed
  <2>4. /\ row \in OpRow /\ row.state = "prepared" /\ row.kind = "publication"
        /\ row.base = head /\ row.payload = Snapshot(with(m))
    BY <2>2, <2>3 DEF PublicationOp, OpRow, OpState, Typed, Request
  <2>5. db.indexed = head /\ Snapshot(db) = Content(head)
    BY <2>1 DEF ProjectionMatches, Settled
  <2>6. db.indexed \in Op /\ db.ops[db.indexed] # NullOp
    BY <1>10, GitPublished
  <2>7. db.ops[db.indexed].payload.entries = Shared(db)
    BY <2>5, <2>6 DEF Content, Snapshot
  <2>8. Snapshot(with(m)).entries = Shared(db) \cup {entry(m)}
    BY <1>6 DEF Snapshot
  <2>9. \A f \in Shared(db): f.id # entry(m).id
    BY <1>1, <1>7, FreshId DEF Shared
  <2>10. db.ops[o] = NullOp
    BY <2>1 DEF FreshOp
  <2> HIDE DEF row
  <2>11. /\ d \in Database /\ d.backend = db.backend /\ d.indexed = db.indexed
         /\ d.verified = db.verified /\ d.entries = db.entries /\ d.pubs = db.pubs
         /\ d.ops = [db.ops EXCEPT ![o] = row]
    BY <2>4 DEF Typed, Database
  <2>12. \A p \in Op: d.ops[p] = IF p = o THEN row ELSE db.ops[p]
    BY <2>11 DEF Typed, Database
  <2>13. Linked(d)
    BY <2>11 DEF Linked, References
  <2>14. Write(d)
    BY <2>1 DEF row
  <2> HIDE DEF d
  <2>15. \A p \in Op: db.ops[p] = NullOp /\ d.ops[p] # NullOp => p = o
    BY <2>12
  <2>16. /\ d.ops[o].kind = "publication" /\ d.ops[o].base = db.indexed
         /\ Linked(d.ops[o].payload) /\ entry(m) \in Entry
         /\ d.ops[o].payload.entries = db.ops[db.indexed].payload.entries \cup {entry(m)}
         /\ \A f \in db.ops[db.indexed].payload.entries: f.id # entry(m).id
    BY <1>3, <2>2, <2>4, <2>5, <2>7, <2>8, <2>9, <2>12
  <2>17. KeepsOps(d)
    BY <2>10, <2>12 DEF KeepsOps
  <2>18. AddsPublication(d)
    BY <1>1, <2>15, <2>16 DEF AddsPublication, IsNew
  <2>19. identity' \in [Client -> Client]
    BY <1>2 DEF Typed
  <2>20. MemoryInv' /\ Published' = Published
    BY <1>2, <1>10, <2>11, <2>13, <2>14, <2>17, <2>18, <2>19, WriteInv
  <2> QED BY <1>8, <2>20 DEF Implements
<1>11. db.backend \in {"sql", "git"}
  BY DEF Typed, Database
<1> QED BY <1>9, <1>10, <1>11

LEMMA CreateEntrySteps ==
  ASSUME MemoryInv, NEW sup \in Mem \cup {0}, NEW shared \in BOOLEAN,
         CreateEntry(sup, shared)
  PROVE  MemoryInv' /\ Implements
<1> USE DEF MemoryInv
<1> DEFINE entry(n) == [id |-> n, sup |-> sup, shared |-> shared, source |-> "operator"]
           with(n) == [db EXCEPT !.entries = @ \cup {entry(n)}]
<1>1. PICK n \in Mem: FreshMem(n) /\ Write(with(n))
  BY DEF CreateEntry
<1>2. UNCHANGED <<head, identity, answers>> /\ (shared => db.backend = "sql")
  BY DEF CreateEntry, OperatorMayWrite
<1>3. entry(n) \in Entry /\ entry(n).id = n /\ entry(n).shared = shared
  BY DEF Entry
<1> HIDE DEF entry
<1>4. with(n) \in Database
      /\ with(n).entries = db.entries \cup {entry(n)}
      /\ with(n).pubs = db.pubs
      /\ with(n).backend = db.backend /\ with(n).indexed = db.indexed
      /\ with(n).verified = db.verified /\ with(n).ops = db.ops
  BY <1>3 DEF Typed, Database
<1> HIDE DEF with
<1>5. Linked(with(n)) /\ KeepsOps(with(n)) /\ AddsMirror(with(n)) /\ AddsPublication(with(n))
  BY <1>4 DEF Linked, References, KeepsOps, AddsMirror, AddsPublication, IsNew
<1>6. Shared(with(n)) = IF shared THEN Shared(db) \cup {entry(n)} ELSE Shared(db)
  BY <1>3, <1>4 DEF Shared
<1>7. identity' \in [Client -> Client]
  BY <1>2 DEF Typed
<1>8. MemoryInv' /\ (db.backend = "git" => Published' = Published)
  BY <1>1, <1>2, <1>4, <1>5, <1>6, <1>7, WriteInv
<1>9. Told' = Told
  BY <1>2 DEF Told
<1>10. CASE db.backend = "sql"
  <2>1. Published = Shared(db) /\ Published' = Shared(with(n))
    BY <1>1, <1>4, <1>10 DEF Published, Write
  <2>2. \A f \in Published: f.id # entry(n).id
    BY <1>1, <1>3, <2>1, FreshId DEF Shared
  <2> QED BY <1>6, <1>8, <1>9, <2>1, <2>2 DEF Implements
<1>11. CASE db.backend # "sql"
  BY <1>8, <1>9, <1>11 DEF Implements, Typed, Database
<1> QED BY <1>10, <1>11

LEMMA MirrorSteps ==
  ASSUME MemoryInv, Mirror
  PROVE  MemoryInv' /\ Implements
<1> USE DEF MemoryInv
<1>1. PICK o \in Op:
        /\ db.backend = "sql" /\ FreshOp(o)
        /\ Write([db EXCEPT !.ops[o] = MirrorOp(Snapshot(db), head)])
  BY DEF Mirror
<1>2. UNCHANGED <<head, identity, answers>>
  BY DEF Mirror
<1> DEFINE row == MirrorOp(Snapshot(db), head)
           d == [db EXCEPT !.ops[o] = row]
<1>3. Snapshot(db) \in Payload /\ Linked(Snapshot(db))
  BY SnapshotLinked DEF Typed
<1>4. row \in OpRow /\ row.kind = "mirror" /\ row.payload = Snapshot(db)
  BY <1>3 DEF MirrorOp, OpRow, OpState, Typed
<1>5. Write(d)
  BY <1>1
<1> HIDE DEF row
<1>6. /\ d \in Database /\ d.backend = db.backend /\ d.indexed = db.indexed
      /\ d.verified = db.verified /\ d.entries = db.entries /\ d.pubs = db.pubs
      /\ d.ops = [db.ops EXCEPT ![o] = row]
  BY <1>4 DEF Typed, Database
<1>7. \A p \in Op: d.ops[p] = IF p = o THEN row ELSE db.ops[p]
  BY <1>6 DEF Typed, Database
<1> HIDE DEF d
<1>8. db.ops[o] = NullOp
  BY <1>1 DEF FreshOp
<1>9. Linked(d) /\ Shared(d) = Shared(db)
  BY <1>6 DEF Linked, References, Shared
<1>10. KeepsOps(d) /\ AddsMirror(d)
  BY <1>3, <1>4, <1>7, <1>8 DEF KeepsOps, AddsMirror, IsNew
<1>11. identity' \in [Client -> Client]
  BY <1>2 DEF Typed
<1>12. MemoryInv'
  BY <1>1, <1>2, <1>5, <1>6, <1>9, <1>10, <1>11, WriteInv
<1>13. Published' = Published /\ Told' = Told
  BY <1>1, <1>2, <1>5, <1>6, <1>9 DEF Published, Told, Write
<1> QED BY <1>12, <1>13 DEF Implements

\* Merging renames actors and leaves what was written.
LEMMA MergedOps ==
  ASSUME MemoryInv, NEW a \in Client, NEW b \in Client
  PROVE  /\ \A o \in Op:
            /\ Renamed(a, b)[o] \in OpRow \cup {NullOp}
            /\ Renamed(a, b)[o] = NullOp <=> db.ops[o] = NullOp
            /\ db.ops[o] # NullOp =>
                 /\ Renamed(a, b)[o].state = db.ops[o].state
                 /\ Renamed(a, b)[o].kind = db.ops[o].kind
                 /\ Renamed(a, b)[o].base = db.ops[o].base
                 /\ Renamed(a, b)[o].payload = db.ops[o].payload
         /\ Renamed(a, b) \in [Op -> OpRow \cup {NullOp}]
<1> USE DEF MemoryInv
<1>1. \A o \in Op:
        /\ Renamed(a, b)[o] \in OpRow \cup {NullOp}
        /\ Renamed(a, b)[o] = NullOp <=> db.ops[o] = NullOp
        /\ db.ops[o] # NullOp =>
             /\ Renamed(a, b)[o].state = db.ops[o].state
             /\ Renamed(a, b)[o].kind = db.ops[o].kind
             /\ Renamed(a, b)[o].base = db.ops[o].base
             /\ Renamed(a, b)[o].payload = db.ops[o].payload
  <2> SUFFICES ASSUME NEW o \in Op
               PROVE  /\ Renamed(a, b)[o] \in OpRow \cup {NullOp}
                      /\ Renamed(a, b)[o] = NullOp <=> db.ops[o] = NullOp
                      /\ db.ops[o] # NullOp =>
                           /\ Renamed(a, b)[o].state = db.ops[o].state
                           /\ Renamed(a, b)[o].kind = db.ops[o].kind
                           /\ Renamed(a, b)[o].base = db.ops[o].base
                           /\ Renamed(a, b)[o].payload = db.ops[o].payload
    OBVIOUS
  <2> DEFINE r == db.ops[o]
             R == Renamed(a, b)[o]
  <2>1. r \in OpRow \cup {NullOp}
    BY DEF Typed, Database
  <2>2. CASE R = r
    BY <2>1, <2>2
  <2>3. CASE r # NullOp /\ r.kind = "publication" /\ R = [r EXCEPT !.actor = b]
    <3>1. r \in [state: OpState, kind: {"publication"}, base: Commit, payload: Payload,
                 actor: Client, key: Key, req: Request, mem: Mem]
      BY <2>1, <2>3 DEF OpRow
    <3>2. /\ R \in OpRow /\ R.state = r.state /\ R.kind = r.kind
          /\ R.base = r.base /\ R.payload = r.payload
      BY <2>3, <3>1 DEF OpRow
    <3> QED BY <2>3, <3>2, NullFacts
  <2>4. R = r \/ (r # NullOp /\ r.kind = "publication" /\ R = [r EXCEPT !.actor = b])
    BY DEF Renamed
  <2> QED BY <2>2, <2>3, <2>4
<1>2. Renamed(a, b) \in [Op -> OpRow \cup {NullOp}]
  <2>1. Renamed(a, b) = [o \in Op |-> Renamed(a, b)[o]]
    BY DEF Renamed
  <2> QED BY <1>1, <2>1
<1> QED BY <1>1, <1>2

LEMMA MergeSteps ==
  ASSUME MemoryInv, NEW a \in Client, NEW b \in Client, MergeAgents(a, b)
  PROVE  MemoryInv' /\ Implements
<1> USE DEF MemoryInv
<1> DEFINE d == [db EXCEPT !.ops = Renamed(a, b)]
<1>1. Write(d) /\ identity' = [identity EXCEPT ![a] = b] /\ UNCHANGED <<head, answers>>
  BY DEF MergeAgents
<1>2. /\ d \in Database /\ d.backend = db.backend /\ d.indexed = db.indexed
      /\ d.verified = db.verified /\ d.entries = db.entries /\ d.pubs = db.pubs
      /\ d.ops = Renamed(a, b)
  BY MergedOps DEF Typed, Database
<1> HIDE DEF d
<1>3. Linked(d) /\ Shared(d) = Shared(db)
  BY <1>2 DEF Linked, References, Shared
<1>4. KeepsOps(d) /\ AddsMirror(d) /\ AddsPublication(d)
  BY <1>2, MergedOps DEF KeepsOps, AddsMirror, AddsPublication, IsNew
<1>5. identity' \in [Client -> Client]
  BY <1>1 DEF Typed
<1>6. MemoryInv' /\ (db.backend = "git" => Published' = Published)
  BY <1>1, <1>2, <1>3, <1>4, <1>5, WriteInv
<1>7. db.backend = "sql" => Published' = Published
  BY <1>1, <1>2, <1>3 DEF Published, Write
<1>8. Told' = Told
  BY <1>1 DEF Told
<1> QED BY <1>6, <1>7, <1>8 DEF Implements, Typed, Database

\* The projection of a payload is linked again, and no other column changes.
LEMMA ProjectedFacts ==
  ASSUME NEW d \in Database, Linked(d), NEW s \in Payload, Linked(s)
  PROVE  /\ Projected(d, s) \in Database /\ Linked(Projected(d, s))
         /\ Projected(d, s).backend = d.backend /\ Projected(d, s).indexed = d.indexed
         /\ Projected(d, s).verified = d.verified /\ Projected(d, s).ops = d.ops
<1> DEFINE e == Projected(d, s)
<1>1. /\ e \in Database /\ e.backend = d.backend /\ e.indexed = d.indexed
      /\ e.verified = d.verified /\ e.ops = d.ops
      /\ e.entries = d.entries \cup s.entries
      /\ e.pubs = (d.pubs \ Snapshot(d).pubs) \cup s.pubs
  BY DEF Projected, Database, Payload
<1> HIDE DEF e
<1>2. Linked(e)
  BY <1>1 DEF Linked
<1> QED BY <1>1, <1>2 DEF e

LEMMA RebuildSteps ==
  ASSUME MemoryInv, Rebuild
  PROVE  MemoryInv' /\ Implements
<1> USE DEF MemoryInv
<1> DEFINE d == Projected(db, Content(head))
<1>1. Write(d) /\ UNCHANGED <<head, identity, answers>> /\ db.backend = "git" /\ head = db.indexed
  BY DEF Rebuild, Settled
<1>2. db.indexed \in Op /\ db.ops[db.indexed] # NullOp
  BY <1>1, GitPublished
<1>3. Content(head) = db.ops[head].payload /\ Content(head) \in Payload /\ Linked(Content(head))
  BY <1>1, <1>2, OpFacts DEF Content, References, Typed
<1>4. /\ d \in Database /\ d.backend = db.backend /\ d.indexed = db.indexed
      /\ d.verified = db.verified /\ d.ops = db.ops /\ Linked(d)
  BY <1>3, ProjectedFacts DEF Typed, References
<1> HIDE DEF d
<1>5. KeepsOps(d) /\ AddsPublication(d)
  BY <1>4 DEF KeepsOps, AddsPublication, IsNew
<1>6. identity' \in [Client -> Client]
  BY <1>1 DEF Typed
<1>7. MemoryInv' /\ Published' = Published
  BY <1>1, <1>4, <1>5, <1>6, WriteInv
<1> QED BY <1>1, <1>7 DEF Implements, Told

LEMMA LoseRowSteps ==
  ASSUME MemoryInv, NEW e \in db.entries, LoseRow(e)
  PROVE  MemoryInv' /\ Implements
<1> USE DEF MemoryInv
<1> DEFINE d == [db EXCEPT !.entries = @ \ {e}, !.pubs = {p \in @: p.mem # e.id}]
<1>1. Write(d) /\ UNCHANGED <<head, identity, answers>> /\ db.backend = "git"
  BY DEF LoseRow
<1>2. /\ d \in Database /\ d.backend = db.backend /\ d.indexed = db.indexed
      /\ d.verified = db.verified /\ d.ops = db.ops
      /\ d.entries = db.entries \ {e} /\ d.pubs = {p \in db.pubs: p.mem # e.id}
  BY DEF Typed, Database
<1> HIDE DEF d
<1>3. Linked(d) /\ KeepsOps(d) /\ AddsPublication(d)
  BY <1>2 DEF Linked, References, KeepsOps, AddsPublication, IsNew
<1>4. identity' \in [Client -> Client]
  BY <1>1 DEF Typed
<1>5. MemoryInv' /\ Published' = Published
  BY <1>1, <1>2, <1>3, <1>4, WriteInv
<1> QED BY <1>1, <1>5 DEF Implements, Told

\* The cutover: what readers see is what the verified mirror holds.
LEMMA CutoverSteps ==
  ASSUME MemoryInv, NEW c \in Op, Cutover(c)
  PROVE  MemoryInv' /\ Implements
<1> USE DEF MemoryInv
<1> DEFINE d == [db EXCEPT !.backend = "git", !.indexed = c]
<1>1. /\ at = "idle" /\ at' = at /\ db' = d /\ staged' = d
      /\ UNCHANGED <<head, identity, answers>>
  BY DEF Cutover, Write
<1>2. Prepared(db) = {} /\ db.verified = c /\ head = c /\ Snapshot(db) = Content(c)
  BY DEF Cutover, NonePending, SameAsMirror
<1>3. /\ d \in Database /\ d.backend = "git" /\ d.indexed = c
      /\ d.verified = db.verified /\ d.ops = db.ops
      /\ d.entries = db.entries /\ d.pubs = db.pubs
  BY DEF Typed, Database
<1> HIDE DEF d
<1>4. c # 0 /\ db.ops[c] # NullOp
  BY <1>2 DEF References, Op
<1>5. db.ops[c].payload.entries = Shared(db)
  BY <1>2 DEF Content, Snapshot
<1>6. Typed' /\ StagedOK'
  BY <1>1, <1>3 DEF Typed, StagedOK
<1>7. References'
  BY <1>1, <1>3 DEF References, Linked
<1>8. Prepared(d) = {}
  BY <1>2, <1>3 DEF Prepared
<1>9. GitOK'
  BY <1>1, <1>2, <1>3, <1>4, <1>8 DEF GitOK
<1>10. CASE db.backend = "sql"
  <2>1. Stable' = Stable
    BY <1>1, <1>3, <1>5, <1>10 DEF Stable
  <2>2. Published' = Published
    BY <1>1, <1>2, <1>3, <1>5, <1>10, ForeignIsNoOp DEF Published, Content
  <2>3. ToldOK'
    BY <1>1, <2>1 DEF ToldOK
  <2> QED BY <1>1, <1>6, <1>7, <1>9, <2>2, <2>3 DEF Implements, Told
<1>11. CASE db.backend = "git"
  <2>1. head \in {db.indexed, Foreign}
    BY <1>2, <1>11 DEF GitOK
  <2>2. c = db.indexed
    BY <1>2, <2>1, ForeignIsNoOp
  <2>3. Stable' = Stable /\ Published' = Published
    BY <1>1, <1>2, <1>3, <1>11, <2>2 DEF Stable, Published, Content
  <2>4. ToldOK'
    BY <1>1, <2>3 DEF ToldOK
  <2> QED BY <1>1, <1>6, <1>7, <1>9, <2>3, <2>4 DEF Implements, Told
<1> QED BY <1>10, <1>11 DEF Typed, Database

LEMMA AnswerSteps ==
  ASSUME MemoryInv, NEW c \in Client, NEW key \in Key, AnswerPublisher(c, key)
  PROVE  MemoryInv' /\ Implements
<1> USE DEF MemoryInv
<1>1. PICK p \in db.pubs:
        /\ Prepared(db) = {} /\ Readable
        /\ answers' = answers \cup
             {[client |-> c, agent |-> identity[c], key |-> key, mem |-> p.mem]}
        /\ UNCHANGED <<db, staged, at, head, identity>>
  BY DEF AnswerPublisher, Saved
<1>2. PICK e \in db.entries: e.shared /\ e.id = p.mem
  BY DEF References, Linked
<1>3. e \in Shared(db)
  BY <1>2 DEF Shared
<1>4. Told' = Told \cup {e.id}
  <2> DEFINE r == [client |-> c, agent |-> identity[c], key |-> key, mem |-> p.mem]
  <2>1. answers' = answers \cup {r} /\ r.mem = e.id
    BY <1>1, <1>2
  <2> HIDE DEF r
  <2> QED BY <2>1 DEF Told
<1>5. Published' = Published /\ Stable' = Stable
  BY <1>1 DEF Published, Stable, Content
<1>6. Shared(db) = Published /\ Shared(db) = Stable
  <2>1. CASE db.backend = "sql"
    BY <2>1 DEF Published, Stable
  <2>2. CASE db.backend = "git"
    <3>1. db.indexed = head /\ Snapshot(db) = Content(head)
      BY <1>1, <2>2 DEF Readable, ProjectionMatches, Settled
    <3>2. db.indexed \in Op
      BY <2>2, GitPublished
    <3> QED BY <2>2, <3>1, <3>2, ForeignIsNoOp DEF Published, Stable, Content, Snapshot
  <2> QED BY <2>1, <2>2 DEF Typed, Database
<1>7. ToldOK'
  <2>1. \A w \in answers': w \in answers \/ w.mem = e.id
    BY <1>1, <1>2
  <2> QED BY <1>3, <1>5, <1>6, <2>1 DEF ToldOK
<1>8. (Typed /\ StagedOK /\ References /\ GitOK)'
  BY <1>1 DEF Typed, StagedOK, References, GitOK, Linked, Extends, Prepared, Shared,
     FirstPrepared
<1> QED BY <1>3, <1>4, <1>5, <1>6, <1>7, <1>8 DEF Implements

-----------------------------------------------------------------------------
(* Reconciliation and faults.                                                 *)
LEMMA ReconcileBeginSteps ==
  ASSUME MemoryInv, ReconcileBegin
  PROVE  MemoryInv' /\ Implements
<1> USE DEF MemoryInv
<1>1. at = "idle" /\ at' = "ready" /\ UNCHANGED <<db, staged, head, identity, answers>>
  BY DEF ReconcileBegin
<1>2. Typed' /\ References' /\ ToldOK'
  BY <1>1 DEF Typed, References, ToldOK, Linked, Stable, Shared
<1>3. StagedOK'
  BY <1>1 DEF StagedOK, Shared, Prepared
<1>4. GitOK'
  BY <1>1 DEF GitOK, Extends, Prepared
<1>5. Published' = Published /\ Told' = Told
  BY <1>1 DEF Published, Content, Told
<1> QED BY <1>2, <1>3, <1>4, <1>5 DEF Implements

\* What a crash, or an index that cannot follow, leaves behind.
LEMMA BackToDatabase ==
  ASSUME MemoryInv, staged' = db, at' = "idle", UNCHANGED <<db, head, identity, answers>>
  PROVE  MemoryInv' /\ Implements
<1> USE DEF MemoryInv
<1>1. Typed' /\ References' /\ ToldOK'
  BY DEF Typed, References, ToldOK, Linked, Stable, Shared
<1>2. StagedOK'
  BY DEF StagedOK, Shared, Prepared
<1>3. GitOK'
  BY DEF GitOK, Extends, Prepared
<1>4. Published' = Published /\ Told' = Told
  BY DEF Published, Content, Told
<1> QED BY <1>1, <1>2, <1>3, <1>4 DEF Implements

LEMMA MoveRefSteps ==
  ASSUME MemoryInv, MoveRef
  PROVE  MemoryInv' /\ Implements
<1> USE DEF MemoryInv
<1>1. at = "ready" /\ Prepared(staged) # {} /\ UNCHANGED <<db, identity, answers>>
  BY DEF MoveRef
<1>2. PICK o \in Prepared(staged): o = FirstPrepared(staged)
  BY <1>1, FirstIsPrepared DEF Typed
<1>3. o \in Op /\ staged.ops[o] # NullOp /\ o \in Prepared(db) /\ db.ops[o] # NullOp
  BY <1>2, NullFacts DEF StagedOK, Typed
<1>4. Told' = Told /\ Stable' = Stable /\ ToldOK'
  BY <1>1 DEF Told, Stable, ToldOK, Shared
<1>5. ASSUME RefMatches(o), head' = o, at' = "moved", staged' = staged
      PROVE  MemoryInv' /\ Implements
  <2>1. Typed' /\ References'
    BY <1>1, <1>3, <1>5 DEF Typed, References, Linked, Commit
  <2>2. StagedOK'
    BY <1>1, <1>2, <1>5 DEF StagedOK, Shared, Prepared, FirstPrepared
  <2>3. GitOK'
    BY <1>1, <1>3, <1>5 DEF GitOK, Extends, Prepared
  <2>4. CASE db.backend = "sql"
    BY <1>1, <1>4, <2>1, <2>2, <2>3, <2>4 DEF Implements, Published, Shared
  <2>5. CASE db.backend = "git"
    <3>1. Published' = db.ops[o].payload.entries
      BY <1>1, <1>3, <1>5, <2>5, ForeignIsNoOp DEF Published, Content
    <3>2. CASE head = o
      <4>1. Published = db.ops[o].payload.entries
        BY <1>3, <2>5, <3>2, ForeignIsNoOp DEF Published, Content
      <4> QED BY <1>4, <2>1, <2>2, <2>3, <3>1, <4>1 DEF Implements
    <3>3. CASE head = db.ops[o].base
      <4>1. Extends(o)
        BY <1>3, <2>5 DEF GitOK
      <4>2. head = db.indexed /\ db.indexed \in Op
        BY <2>5, <3>3, <4>1, GitPublished DEF Extends
      <4>3. Published = db.ops[db.indexed].payload.entries
        BY <2>5, <4>2, ForeignIsNoOp DEF Published, Content
      <4> QED BY <1>4, <2>1, <2>2, <2>3, <3>1, <4>1, <4>3 DEF Implements, Extends
    <3> QED BY <1>5, <3>2, <3>3 DEF RefMatches
  <2> QED BY <2>4, <2>5 DEF Typed, Database
<1>6. ASSUME ~RefMatches(o) \/ head = db.ops[o].base,
             staged' = [staged EXCEPT !.ops[o].state = "conflict"],
             head' = head, at' = at
      PROVE  MemoryInv' /\ Implements
  <2>1. staged' \in Database /\ Moved(staged, o, "conflict", staged')
    <3> DEFINE e == [staged EXCEPT !.ops[o].state = "conflict"]
    <3>1. staged \in Database /\ "conflict" \in OpState
      BY DEF Typed, OpState
    <3>2. e \in Database /\ Moved(staged, o, "conflict", e)
      BY <1>3, <3>1, StateStep
    <3> QED BY <1>6, <3>2
  <2>2. Typed' /\ References'
    BY <1>1, <1>6, <2>1 DEF Typed, References, Linked, Moved
  <2>3. Prepared(staged') \subseteq Prepared(staged) /\ Shared(staged') = Shared(staged)
    BY <2>1 DEF Prepared, Shared, Moved
  <2>4. StagedOK'
    <3>1. at' # "idle" /\ at' # "moved"
      BY <1>1, <1>6
    <3>2. \A p \in Op:
            /\ staged'.ops[p] = NullOp <=> staged.ops[p] = NullOp
            /\ staged'.ops[p].kind = staged.ops[p].kind
            /\ staged'.ops[p].payload = staged.ops[p].payload
            /\ staged'.ops[p].base = staged.ops[p].base
      BY <2>1 DEF Moved
    <3>3. Prepared(staged') \subseteq Prepared(db)' /\ (Shared(db))' = Shared(db)
      BY <1>1, <2>3 DEF StagedOK, Prepared, Shared
    <3>4. /\ staged'.backend = db'.backend
          /\ db'.backend = "sql" => Shared(staged') = Shared(db)
      BY <1>1, <2>1, <2>3 DEF StagedOK, Moved
    <3>5. \A p \in Op:
            /\ staged'.ops[p] = NullOp <=> db'.ops[p] = NullOp
            /\ db'.ops[p] # NullOp => staged'.ops[p].kind = db'.ops[p].kind
                                     /\ staged'.ops[p].payload = db'.ops[p].payload
                                     /\ staged'.ops[p].base = db'.ops[p].base
      BY <1>1, <3>2 DEF StagedOK
    <3> QED BY <3>1, <3>3, <3>4, <3>5 DEF StagedOK
  <2>5. GitOK'
    <3> SUFFICES ASSUME db.backend = "git" PROVE GitOK'
      BY <1>1 DEF GitOK
    <3>1. Extends(o) /\ \A p \in Prepared(db): p = o
      BY <1>3 DEF GitOK
    <3>2. head \in {db.indexed, Foreign}
      BY <1>6, <3>1 DEF GitOK, Extends, RefMatches
    <3>3. staged'.indexed = db.indexed
      BY <1>1, <2>1 DEF GitOK, Moved
    <3> QED BY <1>1, <1>6, <3>2, <3>3 DEF GitOK, Extends, Prepared
  <2>6. Published' = Published
    BY <1>1, <1>6 DEF Published, Shared, Content
  <2> QED BY <1>4, <2>2, <2>4, <2>5, <2>6 DEF Implements
<1> QED BY <1>2, <1>5, <1>6 DEF MoveRef

LEMMA IndexOpSteps ==
  ASSUME MemoryInv, IndexOp
  PROVE  MemoryInv' /\ Implements
<1> USE DEF MemoryInv
<1>1. at = "moved" /\ Prepared(staged) # {} /\ UNCHANGED <<db, head, identity, answers>>
  BY DEF IndexOp, StagedOK
<1>2. PICK o \in Prepared(staged): o = FirstPrepared(staged)
  BY <1>1, FirstIsPrepared DEF Typed
<1>3. o \in Op /\ staged.ops[o] # NullOp /\ o \in Prepared(db) /\ db.ops[o] # NullOp
  BY <1>2, NullFacts DEF StagedOK, Typed
<1>4. /\ staged.ops[o].kind = db.ops[o].kind
      /\ staged.ops[o].payload = db.ops[o].payload
      /\ staged.ops[o].payload \in Payload /\ Linked(staged.ops[o].payload)
  BY <1>3, OpFacts DEF StagedOK, References, Typed
<1>5. CASE staged' = db /\ at' = "idle"
  BY <1>1, <1>5, BackToDatabase
<1>6. ASSUME staged' = Indexed(staged, o), at' = "ready"
      PROVE  MemoryInv' /\ Implements
  <2> DEFINE e == [staged EXCEPT !.ops[o].state = "indexed"]
  <2>1. staged \in Database /\ "indexed" \in OpState
    BY DEF Typed, OpState
  <2>2. e \in Database /\ Moved(staged, o, "indexed", e)
    BY <1>3, <2>1, StateStep
  <2>3. Linked(e) /\ Shared(e) = Shared(staged)
    BY <2>2 DEF Linked, References, Moved, Shared
  <2>4. IF staged.ops[o].kind = "publication"
        THEN staged' = [Projected(e, staged.ops[o].payload) EXCEPT !.indexed = o]
        ELSE staged' \in {e, [e EXCEPT !.verified = o]}
    BY <1>6 DEF Indexed
  <2> HIDE DEF e
  <2>5. /\ staged' \in Database /\ Linked(staged') /\ staged'.ops = e.ops
        /\ staged'.backend = staged.backend
        /\ staged'.verified \in {staged.verified, o}
        /\ staged.ops[o].kind = "publication" => staged'.indexed = o
        /\ staged.ops[o].kind # "publication" => Shared(staged') = Shared(staged)
    <3>1. CASE staged.ops[o].kind = "publication"
      <4> DEFINE f == Projected(e, staged.ops[o].payload)
      <4>1. /\ f \in Database /\ Linked(f) /\ f.backend = e.backend
            /\ f.verified = e.verified /\ f.ops = e.ops
        BY <1>4, <2>2, <2>3, ProjectedFacts
      <4>2. staged' = [f EXCEPT !.indexed = o]
        BY <2>4, <3>1
      <4> HIDE DEF f
      <4>3. /\ staged' \in Database /\ staged'.backend = f.backend
            /\ staged'.verified = f.verified /\ staged'.ops = f.ops /\ staged'.indexed = o
            /\ staged'.entries = f.entries /\ staged'.pubs = f.pubs
        BY <1>3, <4>1, <4>2 DEF Database
      <4> QED BY <2>2, <3>1, <4>1, <4>3 DEF Linked, Moved
    <3>2. CASE staged.ops[o].kind # "publication"
      <4>1. CASE staged' = e
        BY <2>2, <2>3, <3>2, <4>1 DEF Moved
      <4>2. CASE staged' = [e EXCEPT !.verified = o]
        <5>1. /\ staged' \in Database /\ staged'.backend = e.backend
              /\ staged'.verified = o /\ staged'.ops = e.ops
              /\ staged'.entries = e.entries /\ staged'.pubs = e.pubs
          BY <1>3, <2>2, <4>2 DEF Database
        <5> QED BY <2>2, <2>3, <3>2, <5>1 DEF Linked, Shared, Moved
      <4> QED BY <2>4, <3>2, <4>1, <4>2
    <3> QED BY <3>1, <3>2
  <2>6. \A p \in Op:
          /\ staged'.ops[p] = NullOp <=> staged.ops[p] = NullOp
          /\ staged'.ops[p].kind = staged.ops[p].kind
          /\ staged'.ops[p].payload = staged.ops[p].payload
          /\ staged'.ops[p].base = staged.ops[p].base
          /\ staged'.ops[p].state = "prepared" <=>
               p # o /\ staged.ops[p].state = "prepared"
    BY <2>2, <2>5 DEF Moved
  <2>7. Prepared(staged') = Prepared(staged) \ {o}
    BY <2>6 DEF Prepared
  <2>8. Typed' /\ References' /\ Told' = Told /\ Published' = Published /\ ToldOK'
    <3>1. staged'.verified # 0 => db.ops[staged'.verified] # NullOp
      BY <1>3, <2>5 DEF References
    <3>2. Typed' /\ References'
      BY <1>1, <1>6, <2>5, <3>1 DEF Typed, References, Linked
    <3> QED BY <1>1, <3>2 DEF Told, Published, Content, ToldOK, Stable, Shared
  <2>9. db.backend = "sql" => Shared(staged') = Shared(db)
    <3> HAVE db.backend = "sql"
    <3>1. db.ops[o].kind = "mirror"
      BY <1>3 DEF References
    <3> QED BY <1>4, <2>5, <3>1 DEF StagedOK
  <2>10. StagedOK'
    <3>1. at' # "idle" /\ at' # "moved" /\ db' = db
      BY <1>1, <1>6
    <3>2. staged'.backend = db.backend /\ Prepared(staged') \subseteq Prepared(db)
      BY <2>5, <2>7 DEF StagedOK
    <3>3. \A p \in Op:
            /\ staged'.ops[p] = NullOp <=> db.ops[p] = NullOp
            /\ db.ops[p] # NullOp => staged'.ops[p].kind = db.ops[p].kind
                                    /\ staged'.ops[p].payload = db.ops[p].payload
                                    /\ staged'.ops[p].base = db.ops[p].base
      BY <2>6 DEF StagedOK
    <3> HIDE DEF MemoryInv
    <3> QED BY <2>9, <3>1, <3>2, <3>3 DEF StagedOK
  <2>11. GitOK'
    <3> SUFFICES ASSUME db.backend = "git" PROVE GitOK'
      BY <1>1 DEF GitOK
    <3>1. Extends(o) /\ \A p \in Prepared(db): p = o
      BY <1>3 DEF GitOK
    <3>2. staged'.indexed = o
      BY <1>4, <2>5, <3>1 DEF Extends
    <3>3. Prepared(staged') = {}
      BY <2>7, <3>1 DEF StagedOK
    <3>4. head \in {o, Foreign}
      BY <1>1, <1>2 DEF StagedOK
    <3> QED BY <1>1, <1>3, <3>2, <3>3, <3>4 DEF GitOK, Extends, Prepared
  <2> QED BY <2>8, <2>10, <2>11 DEF Implements
<1>7. (staged' = db /\ at' = "idle") \/ (staged' = Indexed(staged, o) /\ at' = "ready")
  BY <1>2 DEF IndexOp
<1> QED BY <1>5, <1>6, <1>7

\* The commit of the transaction: the index is at the head, or the head is
\* somebody else's and what the index stood for has got one entry more.
LEMMA ReconcileCommitSteps ==
  ASSUME MemoryInv, ReconcileCommit
  PROVE  MemoryInv' /\ Implements
<1> USE DEF MemoryInv
<1>1. /\ Prepared(staged) = {} /\ db' = staged /\ at' = "idle"
      /\ UNCHANGED <<staged, head, identity, answers>>
  BY DEF ReconcileCommit
<1>2. Typed' /\ Told' = Told
  BY <1>1 DEF Typed, Told
<1>3. StagedOK'
  BY <1>1 DEF StagedOK
<1>4. References'
  <2>1. \A o \in Op: staged.ops[o] # NullOp =>
          Linked(staged.ops[o].payload) /\ db.ops[o] # NullOp
    BY DEF StagedOK, References
  <2>2. staged.verified # 0 => staged.ops[staged.verified] # NullOp
    BY DEF StagedOK, References, Typed, Database
  <2>3. staged.backend = "sql" =>
          \A o \in Op: staged.ops[o] # NullOp => staged.ops[o].kind = "mirror"
    BY DEF StagedOK, References
  <2>4. Linked(staged)
    BY DEF References
  <2> HIDE DEF MemoryInv
  <2> QED BY <1>1, <2>1, <2>2, <2>3, <2>4 DEF References
<1>5. CASE db.backend = "sql"
  <2>1. staged.backend = "sql" /\ Shared(staged) = Shared(db)
    BY <1>5 DEF StagedOK
  <2>2. GitOK'
    BY <1>1, <2>1 DEF GitOK
  <2>3. Published' = Published /\ Stable' = Stable
    BY <1>1, <1>5, <2>1 DEF Published, Stable
  <2>4. ToldOK'
    BY <1>1, <2>3 DEF ToldOK
  <2> QED BY <1>2, <1>3, <1>4, <2>2, <2>3, <2>4 DEF Implements
<1>6. CASE db.backend = "git"
  <2>1. /\ staged.backend = "git" /\ head \in {staged.indexed, Foreign}
        /\ staged.indexed \in {db.indexed} \cup Prepared(db)
    BY <1>1, <1>6 DEF GitOK, StagedOK
  <2>2. \A p \in Op: db.ops[p] # NullOp =>
          staged.ops[p] # NullOp /\ staged.ops[p].payload = db.ops[p].payload
    BY DEF StagedOK
  <2>3. PICK o \in Op: o = staged.indexed /\ db.ops[o] # NullOp
    BY <1>6, <2>1, NullFacts, GitPublished DEF Typed
  <2>4. Stable' = db.ops[o].payload.entries
    BY <1>1, <2>1, <2>2, <2>3 DEF Stable
  <2>5. Stable = db.ops[db.indexed].payload.entries
    BY <1>6 DEF Stable
  <2>6. o = db.indexed \/ Extends(o)
    BY <1>6, <2>1, <2>3 DEF GitOK
  <2>7. Stable \subseteq Stable'
    BY <2>4, <2>5, <2>6 DEF Extends
  <2>8. ToldOK'
    BY <1>1, <2>7 DEF ToldOK
  <2>9. GitOK'
    BY <1>1, <2>1, <2>2, <2>3 DEF GitOK
  <2>10. CASE head # Foreign
    <3>1. head = o
      BY <2>1, <2>3, <2>10
    <3>2. Published = db.ops[o].payload.entries
      BY <1>6, <2>3, <2>10, <3>1 DEF Published, Content
    <3>3. Published' = db.ops[o].payload.entries
      BY <1>1, <2>1, <2>2, <2>3, <2>10, <3>1 DEF Published, Content
    <3> QED BY <1>2, <1>3, <1>4, <2>8, <2>9, <3>2, <3>3 DEF Implements
  <2>11. CASE head = Foreign
    <3>1. Published = Stable
      BY <1>6, <2>11, GitPublished
    <3>2. Published' = Stable'
      BY <1>1, <2>1, <2>3, <2>11 DEF Published, Stable, Content
    <3> QED BY <1>2, <1>3, <1>4, <2>4, <2>5, <2>6, <2>8, <2>9, <3>1, <3>2
            DEF Implements, Extends
  <2> QED BY <2>10, <2>11
<1> QED BY <1>5, <1>6 DEF Typed, Database

\* A push by hand: readers fall back to what the index stands for, which may undo
\* the one publication that is still open, whose author was not told.
LEMMA ForeignPushSteps ==
  ASSUME MemoryInv, ForeignPush
  PROVE  MemoryInv' /\ Implements
<1> USE DEF MemoryInv
<1>1. /\ head # Foreign /\ head' = Foreign
      /\ UNCHANGED <<db, staged, at, identity, answers>>
  BY DEF ForeignPush
<1>2. Typed' /\ References' /\ ToldOK' /\ Told' = Told
  BY <1>1 DEF Typed, References, ToldOK, Linked, Stable, Shared, Commit, Told
<1>3. StagedOK'
  BY <1>1 DEF StagedOK, Shared, Prepared, FirstPrepared
<1>4. GitOK'
  BY <1>1 DEF GitOK, Extends, Prepared
<1>5. CASE db.backend = "sql"
  <2>1. Published' = Published
    BY <1>1, <1>5 DEF Published, Shared
  <2> QED BY <1>2, <1>3, <1>4, <2>1 DEF Implements
<1>6. CASE db.backend = "git"
  <2>1. head \in Op /\ db.ops[head] # NullOp
        /\ db.indexed \in Op /\ db.ops[db.indexed] # NullOp
        /\ Published = db.ops[head].payload.entries
        /\ Stable = db.ops[db.indexed].payload.entries
    BY <1>1, <1>6, GitPublished
  <2>2. Published' = db.ops[db.indexed].payload.entries
    BY <1>1, <1>6, <2>1 DEF Published, Content
  <2>3. CASE head = db.indexed
    BY <1>2, <1>3, <1>4, <2>1, <2>2, <2>3 DEF Implements
  <2>4. CASE head \in Prepared(db)
    <3>1. PICK e \in Entry:
            /\ db.ops[head].payload.entries = Stable \cup {e}
            /\ \A f \in Stable: f.id # e.id
      BY <1>6, <2>1, <2>4 DEF GitOK, Extends
    <3>2. e \in Published /\ Published' = Published \ {e}
      BY <2>1, <2>2, <3>1
    <3>3. e.id \notin Told
      BY <3>1 DEF ToldOK, Told
    <3> QED BY <1>2, <1>3, <1>4, <3>2, <3>3 DEF Implements
  <2> QED BY <1>1, <1>6, <2>3, <2>4 DEF GitOK
<1> QED BY <1>5, <1>6 DEF Typed, Database

-----------------------------------------------------------------------------
(* The theorem.                                                               *)
LEMMA MemoryStart ==
  MemoryInit => MemoryInv /\ Abstract!PublishedInit
<1> SUFFICES ASSUME MemoryInit PROVE MemoryInv /\ Abstract!PublishedInit
  OBVIOUS
<1>1. /\ db.entries = {} /\ db.pubs = {} /\ db.backend = "sql" /\ db.indexed = 0
      /\ db.verified = 0 /\ db.ops = [o \in Op |-> NullOp] /\ db \in Database
      /\ staged = db /\ at = "idle" /\ head = 0
      /\ identity \in [Client -> Client] /\ answers = {}
  BY DEF MemoryInit, Database
<1>2. Typed /\ References
  BY <1>1 DEF Typed, References, Linked, Commit
<1>3. \A o \in Op: db.ops[o] = NullOp
  BY <1>1
<1>4. StagedOK
  BY <1>1 DEF StagedOK
<1>5. GitOK /\ ToldOK
  BY <1>1 DEF GitOK, ToldOK
<1>6. Abstract!PublishedInit
  BY <1>1 DEF Abstract!PublishedInit, Published, Shared
<1> QED BY <1>2, <1>4, <1>5, <1>6 DEF MemoryInv

LEMMA MemorySteps ==
  ASSUME MemoryInv, [MemoryNext]_memVars
  PROVE  MemoryInv' /\ Implements
<1>1. ASSUME NEW c \in Client, NEW k \in Key, AnswerPublisher(c, k)
      PROVE  MemoryInv' /\ Implements
  BY <1>1, AnswerSteps
<1>2. ASSUME NEW c \in Client, NEW k \in Key, NEW sup \in Mem \cup {0}, Publish(c, k, sup)
      PROVE  MemoryInv' /\ Implements
  BY <1>2, PublishSteps
<1>3. ASSUME NEW sup \in Mem \cup {0}, NEW shared \in BOOLEAN, CreateEntry(sup, shared)
      PROVE  MemoryInv' /\ Implements
  BY <1>3, CreateEntrySteps
<1>4. CASE Mirror
  BY <1>4, MirrorSteps
<1>5. ASSUME NEW c \in Op, Cutover(c)
      PROVE  MemoryInv' /\ Implements
  BY <1>5, CutoverSteps
<1>6. ASSUME NEW a \in Client, NEW b \in Client, MergeAgents(a, b)
      PROVE  MemoryInv' /\ Implements
  BY <1>6, MergeSteps
<1>7. CASE ReconcileBegin
  BY <1>7, ReconcileBeginSteps
<1>8. CASE MoveRef
  BY <1>8, MoveRefSteps
<1>9. CASE IndexOp
  BY <1>9, IndexOpSteps
<1>10. CASE ReconcileCommit
  BY <1>10, ReconcileCommitSteps
<1>11. CASE Rebuild
  BY <1>11, RebuildSteps
<1>12. CASE Crash
  BY <1>12, BackToDatabase DEF Crash
<1>13. CASE ForeignPush
  BY <1>13, ForeignPushSteps
<1>14. ASSUME NEW e \in db.entries, LoseRow(e)
       PROVE  MemoryInv' /\ Implements
  BY <1>14, LoseRowSteps
<1>15. ASSUME UNCHANGED memVars
       PROVE  MemoryInv' /\ Implements
  <2>1. UNCHANGED <<db, staged, at, head, identity, answers>>
    BY <1>15 DEF memVars
  <2>2. Typed' /\ References' /\ ToldOK'
    BY <2>1 DEF MemoryInv, Typed, References, ToldOK, Linked, Stable, Shared
  <2>3. StagedOK'
    BY <2>1 DEF MemoryInv, StagedOK, Shared, Prepared, FirstPrepared
  <2>4. GitOK'
    BY <2>1 DEF MemoryInv, GitOK, Extends, Prepared
  <2>5. Published' = Published /\ Told' = Told
    BY <2>1 DEF Published, Content, Shared, Told
  <2> QED BY <2>2, <2>3, <2>4, <2>5 DEF MemoryInv, Implements
<1> QED
  BY <1>1, <1>2, <1>3, <1>4, <1>5, <1>6, <1>7, <1>8, <1>9, <1>10, <1>11, <1>12,
     <1>13, <1>14, <1>15 DEF MemoryNext

\* What the two stores of a project hold between them, with reconciliation at any
\* point of its transaction and after any fault (publish_project_memory,
\* cutover_project_memory, reconcile_git_memory).
THEOREM MemoryInvariant == MemorySpec => []MemoryInv
<1>1. MemoryInit => MemoryInv
  BY MemoryStart
<1>2. MemoryInv /\ [MemoryNext]_memVars => MemoryInv'
  BY MemorySteps
<1> QED BY <1>1, <1>2, PTL DEF MemorySpec

\* The project memory implements PublishedMemory: what readers find is only added
\* to, and what an author was told is never lost (publish_project_memory,
\* cutover_project_memory, reconcile_git_memory, rebuild_git_index).
THEOREM MemoryRefinement == MemorySpec => OnlyAddsToPublished
<1>1. MemoryInit => Abstract!PublishedInit
  BY MemoryStart
<1>2. MemoryInv /\ [MemoryNext]_memVars
        => [Abstract!PublishedNext]_<<Published, {w.mem: w \in answers}>>
  BY MemorySteps, AbstractStep DEF Told
<1>3. MemorySpec => []MemoryInv
  BY MemoryInvariant
<1> QED BY <1>1, <1>2, <1>3, PTL DEF MemorySpec, OnlyAddsToPublished, Abstract!PublishedSpec

-----------------------------------------------------------------------------
(* What the index in SQL holds of the project memory: it never has an entry   *)
(* that Git does not have, it can always follow the reference, revisions do   *)
(* not fork and a key stands for one entry.                                   *)
(* The invariant: MemoryInv says where the reference and the index are, this  *)
(* one says what the tables and the payloads of operations hold.              *)

\* a key of an agent names one entry
OneEach(pubs) ==
  \A p, q \in pubs: p.agent = q.agent /\ p.key = q.key => p.mem = q.mem

PayloadOK(s) == (\A e \in s.entries: e.shared) /\ OneEach(s.pubs)

Known(c) == c \in Op => db.ops[c] # NullOp

NotBuiltOn(o) == \A p \in Op: db.ops[p] # NullOp => db.ops[p].base # o

\* revisions do not fork when a state with entries es gets those of fs as well
NoForkBetween(es, fs) ==
  \A e \in fs \ es: e.source = "agent_task" /\ e.sup # 0 => \A f \in es: f.sup # e.sup

\* the open publication of a Git project goes on from what the index stands for
Follows(o) ==
  /\ db.ops[db.indexed].payload.pubs \subseteq db.ops[o].payload.pubs
  /\ NoForkBetween(db.ops[db.indexed].payload.entries, db.ops[o].payload.entries)
  /\ NotBuiltOn(o)

TablesOK(d) ==
  /\ OneEach(d.pubs)
  /\ d.backend = "git" => Shared(d) \subseteq db.ops[d.indexed].payload.entries
  /\ \A o \in Op: d.ops[o].state = "conflict" /\ d.ops[o].kind = "publication" =>
       head # o /\ d.indexed # o /\ NotBuiltOn(o)

OpsOK ==
  /\ \A o \in Op: db.ops[o] # NullOp =>
       PayloadOK(db.ops[o].payload) /\ Known(db.ops[o].base)
  /\ Known(head)
  /\ db.backend = "git" => \A o \in Prepared(db): Follows(o)

\* publications that no fault takes back
StablePubs == IF db.backend = "sql" THEN db.pubs ELSE db.ops[db.indexed].payload.pubs
AnswersOK ==
  \A w \in answers: \E p \in StablePubs:
    p.agent = w.agent /\ p.key = w.key /\ p.mem = w.mem

\* before the cutover reconciliation leaves the publications alone
SamePubs == db.backend = "sql" => staged.pubs = db.pubs

IndexInv == OpsOK /\ TablesOK(db) /\ TablesOK(staged) /\ SamePubs /\ AnswersOK

NoFork == NoForkBetween(Published, Published')

-----------------------------------------------------------------------------
(* What follows from the invariant.                                           *)

\* In a table whose publications are linked the snapshot leaves none of them out.
LEMMA SnapshotPubs ==
  ASSUME NEW d \in Database, Linked(d)
  PROVE  Snapshot(d).pubs = d.pubs /\ Snapshot(d).entries = Shared(d)
BY DEF Snapshot, Linked, Shared

LEMMA IndexedFacts ==
  ASSUME MemoryInv, IndexInv, db.backend = "git"
  PROVE  SettledWhenIdle
<1> USE DEF MemoryInv, IndexInv
<1>1. /\ db.indexed \in Op /\ db.ops[db.indexed] # NullOp
      /\ head \in {db.indexed, Foreign} \cup Prepared(db)
  BY DEF GitOK
<1>2. Shared(db) \subseteq Content(db.indexed).entries
  BY <1>1 DEF TablesOK, Content
<1>3. Prepared(db) = {} /\ head # Foreign => Settled
  BY <1>1 DEF Settled, Op
<1> QED BY <1>2, <1>3 DEF SettledWhenIdle

LEMMA ConflictFacts ==
  ASSUME IndexInv
  PROVE  ConflictIsUnpublished
BY DEF IndexInv, TablesOK, NotBuiltOn, ConflictIsUnpublished

LEMMA KeyFacts ==
  ASSUME MemoryInv, IndexInv
  PROVE  OneEach(StablePubs) /\ OneEntryPerKey
<1> USE DEF MemoryInv, IndexInv
<1>1. OneEach(StablePubs)
  <2>1. CASE db.backend = "sql"
    BY <2>1 DEF StablePubs, TablesOK
  <2>2. CASE db.backend = "git"
    BY <2>2 DEF StablePubs, OpsOK, PayloadOK, GitOK
  <2> QED BY <2>1, <2>2 DEF Typed, Database
<1>2. OneEntryPerKey
  <2> SUFFICES ASSUME NEW v \in answers, NEW w \in answers,
                      v.agent = w.agent, v.key = w.key
               PROVE  v.mem = w.mem
    BY DEF OneEntryPerKey
  <2>1. PICK p \in StablePubs: p.agent = v.agent /\ p.key = v.key /\ p.mem = v.mem
    BY DEF AnswersOK
  <2>2. PICK q \in StablePubs: q.agent = w.agent /\ q.key = w.key /\ q.mem = w.mem
    BY DEF AnswersOK
  <2> QED BY <1>1, <2>1, <2>2 DEF OneEach
<1> QED BY <1>1, <1>2

\* Indexing the payload of the open publication gives exactly this payload.
LEMMA IndexedSnapshot ==
  ASSUME MemoryInv, IndexInv, NEW o \in Prepared(staged),
         staged.ops[o].kind = "publication"
  PROVE  /\ Snapshot(Indexed(staged, o)) = staged.ops[o].payload
         /\ Shared(Indexed(staged, o)) = staged.ops[o].payload.entries
         /\ Indexed(staged, o).pubs = staged.ops[o].payload.pubs
<1> USE DEF MemoryInv, IndexInv
<1> DEFINE s == staged.ops[o].payload
           e == [staged EXCEPT !.ops[o].state = "indexed"]
           f == Projected(e, s)
<1>1. o \in Op /\ staged.ops[o] # NullOp /\ o \in Prepared(db) /\ db.ops[o] # NullOp
  BY NullFacts DEF StagedOK, Typed
<1>2. s = db.ops[o].payload /\ db.ops[o].kind = "publication"
      /\ s \in Payload /\ Linked(s) /\ PayloadOK(s)
  BY <1>1, OpFacts DEF StagedOK, References, Typed, OpsOK
<1>3. db.backend = "git" /\ Extends(o)
  BY <1>1, <1>2 DEF References, GitOK, Typed, Database
<1>4. Shared(staged) \subseteq s.entries
  <2>1. staged.backend = "git" /\ staged.indexed = db.indexed
    BY <1>3 DEF StagedOK, GitOK
  <2>2. Shared(staged) \subseteq db.ops[db.indexed].payload.entries
    BY <2>1 DEF TablesOK
  <2> QED BY <1>2, <1>3, <2>2 DEF Extends
<1>5. e \in Database /\ Moved(staged, o, "indexed", e)
  <2>1. staged \in Database /\ "indexed" \in OpState
    BY DEF Typed, OpState
  <2> QED BY <1>1, <2>1, StateStep
<1>6. Linked(e) /\ Shared(e) = Shared(staged) /\ Snapshot(e).pubs = e.pubs
  <2>1. Linked(e) /\ Shared(e) = Shared(staged)
    BY <1>5 DEF Linked, References, Moved, Shared
  <2> QED BY <1>5, <2>1, SnapshotPubs
<1>7. Indexed(staged, o) = [f EXCEPT !.indexed = o]
  BY DEF Indexed
<1> HIDE DEF e, s
<1>8. f = [e EXCEPT !.entries = @ \cup s.entries,
                    !.pubs = (@ \ Snapshot(e).pubs) \cup s.pubs]
  BY DEF Projected
<1>9. f \in Database /\ f.entries = e.entries \cup s.entries /\ f.pubs = s.pubs /\ Linked(f)
  <2>1. s.entries \subseteq Entry /\ s.pubs \subseteq Publication
    BY <1>2 DEF Payload
  <2>2. f.entries = e.entries \cup s.entries /\ f.pubs = s.pubs
    BY <1>5, <1>6, <1>8 DEF Database
  <2>3. f \in Database
    BY <1>5, <1>6, <1>8, <2>1 DEF Database
  <2> QED BY <1>2, <2>2, <2>3 DEF Linked
<1> HIDE DEF f
<1> DEFINE g == [f EXCEPT !.indexed = o]
<1>10. /\ g \in Database /\ g.entries = f.entries /\ g.pubs = f.pubs
  BY <1>1, <1>9 DEF Database
<1> HIDE DEF g
<1>11. Linked(g) /\ Shared(g) = s.entries
  BY <1>2, <1>4, <1>6, <1>9, <1>10 DEF Linked, Shared, PayloadOK
<1>12. Snapshot(g).entries = s.entries /\ Snapshot(g).pubs = s.pubs
  BY <1>9, <1>10, <1>11, SnapshotPubs
<1>13. Snapshot(g) = s
  BY <1>2, <1>12 DEF Snapshot, Payload
<1> QED BY <1>7, <1>9, <1>10, <1>11, <1>13 DEF g, s

LEMMA FollowFacts ==
  ASSUME MemoryInv, IndexInv
  PROVE  IndexCanFollow
<1> SUFFICES ASSUME at = "moved",
                    staged.ops[FirstPrepared(staged)].kind = "publication"
             PROVE  Snapshot(Indexed(staged, FirstPrepared(staged)))
                      = staged.ops[FirstPrepared(staged)].payload
  BY DEF IndexCanFollow
<1>1. PICK o \in Prepared(staged): o = FirstPrepared(staged)
  BY FirstIsPrepared DEF MemoryInv, Typed, StagedOK
<1> QED BY <1>1, IndexedSnapshot

-----------------------------------------------------------------------------
(* The transactions outside of reconciliation.                                *)

AddsSound(d) ==
  \A o \in Op: IsNew(d, o) =>
    PayloadOK(d.ops[o].payload) /\ d.ops[o].state = "prepared" /\ d.ops[o].base = head

AddsFollower(d) ==
  \A o \in Op: IsNew(d, o) =>
    /\ db.ops[db.indexed].payload.pubs \subseteq d.ops[o].payload.pubs
    /\ NoForkBetween(db.ops[db.indexed].payload.entries, d.ops[o].payload.entries)

LEMMA WriteIndex ==
  ASSUME MemoryInv, IndexInv, NEW d \in Database, Write(d), head' = head,
         answers' = answers, d.backend = db.backend, d.indexed = db.indexed,
         KeepsOps(d), AddsSound(d), OneEach(d.pubs),
         IF db.backend = "sql" THEN db.pubs \subseteq d.pubs
         ELSE /\ AddsPublication(d) /\ AddsFollower(d)
              /\ Shared(d) \subseteq db.ops[db.indexed].payload.entries
  PROVE  IndexInv'
<1> USE DEF MemoryInv, IndexInv
<1>1. at = "idle" /\ db' = d /\ staged' = d
  BY DEF Write
<1>2. \A o \in Op: IsNew(d, o) => NotBuiltOn(o) /\ head # o
  BY DEF OpsOK, Known, NotBuiltOn, IsNew
<1>3. \A o \in Op: db.ops[o] # NullOp =>
        /\ d.ops[o] # NullOp /\ d.ops[o].state = db.ops[o].state
        /\ d.ops[o].kind = db.ops[o].kind /\ d.ops[o].base = db.ops[o].base
        /\ d.ops[o].payload = db.ops[o].payload
  BY DEF KeepsOps
<1>4. \A o \in Op: d.ops[o] # NullOp /\ db.ops[o] = NullOp =>
        IsNew(d, o) /\ PayloadOK(d.ops[o].payload)
        /\ d.ops[o].state = "prepared" /\ d.ops[o].base = head
  BY DEF AddsSound, IsNew
<1>5. \A o \in Op: NotBuiltOn(o) /\ head # o => NotBuiltOn(o)'
  BY <1>1, <1>3, <1>4 DEF NotBuiltOn
<1>6. OpsOK'
  <2>1. \A o \in Op: d.ops[o] # NullOp => PayloadOK(d.ops[o].payload)
    BY <1>3, <1>4 DEF OpsOK
  <2>2. \A o \in Op: d.ops[o] # NullOp => (d.ops[o].base \in Op => d.ops[d.ops[o].base] # NullOp)
    BY <1>3, <1>4 DEF OpsOK, Known
  <2>3. Known(head)'
    BY <1>1, <1>3 DEF OpsOK, Known
  <2>4. ASSUME db.backend = "git", NEW o \in Prepared(d)
        PROVE  Follows(o)'
    <3>1. o \in Op /\ d.ops[o] # NullOp /\ db.indexed \in Op /\ db.ops[db.indexed] # NullOp
      BY <2>4, NullFacts, GitPublished
    <3>2. d.ops[db.indexed].payload = db.ops[db.indexed].payload
      BY <1>3, <3>1
    <3>3. CASE db.ops[o] # NullOp
      <4>1. o \in Prepared(db)
        BY <1>3, <2>4, <3>1, <3>3 DEF Prepared
      <4>2. Follows(o) /\ Extends(o)
        BY <2>4, <4>1 DEF OpsOK, GitOK
      <4>3. d.ops[o].payload = db.ops[o].payload
        BY <1>3, <3>1, <3>3
      <4>4. \A p \in Op: d.ops[p] # NullOp => db.ops[p] # NullOp
        BY <2>4, <4>1 DEF AddsPublication, IsNew
      <4>5. NotBuiltOn(o)'
        BY <1>1, <1>3, <4>2, <4>4 DEF Follows, NotBuiltOn
      <4> QED BY <1>1, <3>2, <4>2, <4>3, <4>5 DEF Follows
    <3>4. CASE db.ops[o] = NullOp
      <4>1. IsNew(d, o)
        BY <3>1, <3>4 DEF IsNew
      <4>2. NotBuiltOn(o)'
        BY <1>2, <1>5, <3>1, <4>1
      <4> QED BY <1>1, <2>4, <3>1, <3>2, <4>1, <4>2 DEF Follows, AddsFollower
    <3> QED BY <3>3, <3>4
  <2> HIDE DEF MemoryInv, IndexInv
  <2> QED BY <1>1, <2>1, <2>2, <2>3, <2>4 DEF OpsOK, Known
<1>7. \A o \in Op: d.ops[o].state = "conflict" /\ d.ops[o].kind = "publication" =>
        head # o /\ d.indexed # o /\ NotBuiltOn(o)'
  <2> SUFFICES ASSUME NEW o \in Op, d.ops[o].state = "conflict",
                      d.ops[o].kind = "publication"
               PROVE  head # o /\ d.indexed # o /\ NotBuiltOn(o)'
    OBVIOUS
  <2>1. db.ops[o] # NullOp
    <3>1. d.ops[o] # NullOp
      BY NullFacts
    <3> QED BY <1>4, <3>1
  <2>2. db.ops[o].state = "conflict" /\ db.ops[o].kind = "publication"
    BY <1>3, <2>1
  <2>3. head # o /\ db.indexed # o /\ NotBuiltOn(o)
    BY <2>2 DEF TablesOK
  <2> QED BY <1>5, <2>3
<1>8. d.backend = "git" => Shared(d) \subseteq d.ops[d.indexed].payload.entries
  BY <1>3, GitPublished
<1>9. TablesOK(db)' /\ TablesOK(staged)'
  <2> HIDE DEF MemoryInv, IndexInv
  <2> QED BY <1>1, <1>7, <1>8 DEF TablesOK, Shared
<1>10. StablePubs \subseteq StablePubs'
  BY <1>1, <1>3, GitPublished DEF StablePubs, Typed, Database
<1>11. AnswersOK' /\ SamePubs'
  BY <1>1, <1>10 DEF AnswersOK, SamePubs
<1> QED BY <1>6, <1>9, <1>11

\* What such a transaction publishes.
LEMMA WritePublished ==
  ASSUME MemoryInv, NEW d \in Database, Write(d), d.backend = db.backend
  PROVE  db.backend = "sql" => Published = Shared(db) /\ Published' = Shared(d)
BY DEF Write, Published

LEMMA PublishIndex ==
  ASSUME MemoryInv, IndexInv, NEW c \in Client, NEW key \in Key,
         NEW sup \in Mem \cup {0}, Publish(c, key, sup), MemoryInv'
  PROVE  IndexInv' /\ NoFork
<1> USE DEF MemoryInv, IndexInv
<1> DEFINE a == identity[c]
           req == [sup |-> sup, base |-> IF db.backend = "git" THEN head ELSE 0]
           entry(m) == [id |-> m, sup |-> sup, shared |-> TRUE, source |-> "agent_task"]
           pub(m) == [agent |-> a, key |-> key, req |-> req, mem |-> m]
           with(m) == [db EXCEPT !.entries = @ \cup {entry(m)}, !.pubs = @ \cup {pub(m)}]
<1>1. PICK m \in Mem:
        /\ FreshMem(m) /\ Prepared(db) = {} /\ Saved(a, key) = {} /\ MayReplace(sup)
        /\ IF db.backend = "sql" THEN Write(with(m))
           ELSE \E o \in Op:
                  /\ ProjectionMatches /\ FreshOp(o)
                  /\ Write([db EXCEPT !.ops[o] =
                              PublicationOp(a, key, req, m, Snapshot(with(m)))])
  BY DEF Publish
<1>2. head' = head /\ answers' = answers
  BY DEF Publish
<1>3. /\ entry(m) \in Entry /\ entry(m).id = m /\ entry(m).sup = sup /\ entry(m).shared
      /\ pub(m) \in Publication /\ pub(m).agent = a /\ pub(m).key = key /\ pub(m).mem = m
  BY DEF Entry, Publication, Request, Typed, Commit
<1>4. with(m) \in Database
      /\ with(m).entries = db.entries \cup {entry(m)}
      /\ with(m).pubs = db.pubs \cup {pub(m)}
      /\ with(m).backend = db.backend /\ with(m).indexed = db.indexed
      /\ with(m).verified = db.verified /\ with(m).ops = db.ops
  BY <1>3 DEF Typed, Database
<1> HIDE DEF entry, pub, with, req
<1>5. Linked(with(m)) /\ Shared(with(m)) = Shared(db) \cup {entry(m)}
  BY <1>3, <1>4 DEF Linked, References, Shared
<1>6. OneEach(with(m).pubs)
  <2>1. \A p \in db.pubs: ~(p.agent = a /\ p.key = key)
    BY <1>1 DEF Saved
  <2>2. OneEach(db.pubs)
    BY DEF TablesOK
  <2> QED BY <1>3, <1>4, <2>1, <2>2 DEF OneEach
<1>7. NoForkBetween(Shared(db), Shared(db) \cup {entry(m)})
  BY <1>1, <1>3 DEF NoForkBetween, MayReplace, Current
<1>8. /\ Snapshot(with(m)).entries = Shared(db) \cup {entry(m)}
      /\ Snapshot(with(m)).pubs = db.pubs \cup {pub(m)}
      /\ PayloadOK(Snapshot(with(m)))
  BY <1>3, <1>4, <1>5, <1>6, SnapshotPubs DEF PayloadOK, Shared
<1>9. CASE db.backend = "sql"
  <2>1. KeepsOps(with(m)) /\ AddsSound(with(m))
    BY <1>4 DEF KeepsOps, AddsSound, IsNew
  <2>2. Write(with(m)) /\ db.pubs \subseteq with(m).pubs
    BY <1>1, <1>4, <1>9
  <2>3. IndexInv'
    BY <1>2, <1>4, <1>6, <1>9, <2>1, <2>2, WriteIndex
  <2>4. Published = Shared(db) /\ Published' = Shared(with(m))
    BY <1>4, <1>9, <2>2, WritePublished
  <2> QED BY <1>5, <1>7, <2>3, <2>4 DEF NoFork
<1>10. CASE db.backend = "git"
  <2>1. PICK o \in Op:
          /\ ProjectionMatches /\ FreshOp(o)
          /\ Write([db EXCEPT !.ops[o] =
                      PublicationOp(a, key, req, m, Snapshot(with(m)))])
    BY <1>1, <1>10
  <2> DEFINE row == PublicationOp(a, key, req, m, Snapshot(with(m)))
             d == [db EXCEPT !.ops[o] = row]
  <2>2. Snapshot(with(m)) \in Payload
    BY <1>4, SnapshotLinked
  <2>3. req \in Request /\ req.base = head
    BY <1>10 DEF req, Request, Typed
  <2>4. /\ row \in OpRow /\ row.state = "prepared" /\ row.kind = "publication"
        /\ row.base = head /\ row.payload = Snapshot(with(m))
    BY <2>2, <2>3 DEF PublicationOp, OpRow, OpState, Typed, Request
  <2>5. db.indexed = head /\ Snapshot(db) = Content(head) /\ db.ops[o] = NullOp
    BY <2>1 DEF ProjectionMatches, Settled, FreshOp
  <2>6. db.indexed \in Op /\ db.ops[db.indexed] # NullOp
    BY <1>10, GitPublished
  <2>7. /\ db.ops[db.indexed].payload.entries = Shared(db)
        /\ db.ops[db.indexed].payload.pubs = db.pubs
    <3>1. Snapshot(db).entries = Shared(db) /\ Snapshot(db).pubs = db.pubs
      BY SnapshotPubs DEF References, Typed
    <3> QED BY <2>5, <2>6, <3>1 DEF Content
  <2>8. Write(d)
    BY <2>1
  <2> HIDE DEF row
  <2>9. /\ d \in Database /\ d.backend = db.backend /\ d.indexed = db.indexed
        /\ d.entries = db.entries /\ d.pubs = db.pubs
        /\ d.ops = [db.ops EXCEPT ![o] = row]
    BY <2>4 DEF Typed, Database
  <2>10. \A p \in Op: d.ops[p] = IF p = o THEN row ELSE db.ops[p]
    BY <2>9 DEF Typed, Database
  <2> HIDE DEF d
  <2>11. \A p \in Op: IsNew(d, p) => p = o
    BY <2>10 DEF IsNew
  <2>12. \A f \in Shared(db): f.id # m
    BY <1>1, FreshId DEF Shared
  <2>13. KeepsOps(d)
    BY <2>5, <2>10 DEF KeepsOps
  <2>14. AddsSound(d)
    BY <1>8, <2>4, <2>10, <2>11 DEF AddsSound
  <2>15. AddsFollower(d)
    <3> SUFFICES ASSUME NEW p \in Op, p = o
                 PROVE  /\ db.ops[db.indexed].payload.pubs \subseteq d.ops[p].payload.pubs
                        /\ NoForkBetween(db.ops[db.indexed].payload.entries,
                                         d.ops[p].payload.entries)
      BY <2>11 DEF AddsFollower
    <3>1. d.ops[p].payload.entries = Shared(db) \cup {entry(m)}
          /\ d.ops[p].payload.pubs = db.pubs \cup {pub(m)}
      BY <1>8, <2>4, <2>10
    <3> QED BY <1>7, <2>7, <3>1
  <2>16. AddsPublication(d)
    <3>1. Linked(Snapshot(with(m)))
      BY <1>4, SnapshotLinked
    <3>2. \A p \in Op: IsNew(d, p) => d.ops[p] = row
      BY <2>10, <2>11
    <3>3. /\ row.payload.entries = db.ops[db.indexed].payload.entries \cup {entry(m)}
          /\ \A f \in db.ops[db.indexed].payload.entries: f.id # entry(m).id
      BY <1>3, <1>8, <2>4, <2>7, <2>12
    <3> QED BY <1>1, <1>3, <2>4, <2>5, <2>11, <3>1, <3>2, <3>3 DEF AddsPublication
  <2>17. Shared(d) = Shared(db) /\ OneEach(d.pubs)
    BY <2>9 DEF Shared, TablesOK
  <2>18. IndexInv'
    BY <1>2, <1>10, <2>7, <2>8, <2>9, <2>13, <2>14, <2>15, <2>16, <2>17, WriteIndex
  <2>19. Published' = Published
    <3>1. db' = d /\ d.ops[db.indexed] = db.ops[db.indexed]
      BY <2>5, <2>6, <2>8, <2>10 DEF Write
    <3> QED BY <1>2, <1>10, <2>5, <2>6, <2>9, <3>1 DEF Published, Content
  <2> QED BY <2>18, <2>19 DEF NoFork, NoForkBetween
<1> QED BY <1>9, <1>10 DEF Typed, Database

\* Nothing that readers see changes.
LEMMA SamePublished ==
  ASSUME Published' = Published
  PROVE  NoFork
BY DEF NoFork, NoForkBetween

LEMMA GitUnchanged ==
  ASSUME MemoryInv, NEW d \in Database, Write(d), head' = head, KeepsOps(d),
         d.backend = db.backend, d.indexed = db.indexed, db.backend = "git"
  PROVE  NoFork
<1>1. db' = d
  BY DEF Write
<1>2. Published' = Published
  BY <1>1, GitPublished DEF KeepsOps, Published, Content
<1> QED BY <1>2, SamePublished

\* A transaction that adds no operation.
LEMMA NothingNew ==
  ASSUME NEW d, d.ops = db.ops
  PROVE  KeepsOps(d) /\ AddsSound(d) /\ AddsPublication(d) /\ AddsFollower(d)
BY DEF KeepsOps, AddsSound, AddsPublication, AddsFollower, IsNew

LEMMA CreateEntryIndex ==
  ASSUME MemoryInv, IndexInv, NEW sup \in Mem \cup {0}, NEW shared \in BOOLEAN,
         CreateEntry(sup, shared)
  PROVE  IndexInv' /\ NoFork
<1> USE DEF MemoryInv, IndexInv
<1> DEFINE entry(n) == [id |-> n, sup |-> sup, shared |-> shared, source |-> "operator"]
           with(n) == [db EXCEPT !.entries = @ \cup {entry(n)}]
<1>1. PICK n \in Mem: Write(with(n))
  BY DEF CreateEntry
<1>2. head' = head /\ answers' = answers /\ (shared => db.backend = "sql")
  BY DEF CreateEntry, OperatorMayWrite
<1>3. entry(n) \in Entry /\ entry(n).shared = shared /\ entry(n).source = "operator"
  BY DEF Entry
<1> HIDE DEF entry
<1>4. with(n) \in Database
      /\ with(n).entries = db.entries \cup {entry(n)}
      /\ with(n).pubs = db.pubs
      /\ with(n).backend = db.backend /\ with(n).indexed = db.indexed
      /\ with(n).ops = db.ops
  BY <1>3 DEF Typed, Database
<1> HIDE DEF with
<1>5. Shared(with(n)) = IF shared THEN Shared(db) \cup {entry(n)} ELSE Shared(db)
  BY <1>3, <1>4 DEF Shared
<1>6. OneEach(with(n).pubs)
  BY <1>4 DEF TablesOK
<1>7. db.backend # "sql" => Shared(with(n)) \subseteq db.ops[db.indexed].payload.entries
  BY <1>2, <1>5 DEF TablesOK, Typed, Database
<1>8. IndexInv'
  BY <1>1, <1>2, <1>4, <1>6, <1>7, NothingNew, WriteIndex
<1>9. CASE db.backend = "sql"
  <2>1. Published = Shared(db) /\ Published' = Shared(with(n))
    BY <1>1, <1>4, <1>9, WritePublished
  <2>2. Published' \ Published \subseteq {entry(n)}
    BY <1>5, <2>1
  <2> QED BY <1>3, <1>8, <2>2 DEF NoFork, NoForkBetween
<1>10. CASE db.backend = "git"
  BY <1>1, <1>2, <1>4, <1>8, <1>10, NothingNew, GitUnchanged
<1> QED BY <1>9, <1>10 DEF Typed, Database

LEMMA MirrorIndex ==
  ASSUME MemoryInv, IndexInv, Mirror
  PROVE  IndexInv' /\ NoFork
<1> USE DEF MemoryInv, IndexInv
<1>1. PICK o \in Op:
        /\ db.backend = "sql" /\ FreshOp(o)
        /\ Write([db EXCEPT !.ops[o] = MirrorOp(Snapshot(db), head)])
  BY DEF Mirror
<1>2. head' = head /\ answers' = answers
  BY DEF Mirror
<1> DEFINE row == MirrorOp(Snapshot(db), head)
           d == [db EXCEPT !.ops[o] = row]
<1>3. Snapshot(db) \in Payload /\ PayloadOK(Snapshot(db))
  <2>1. Snapshot(db).entries = Shared(db) /\ Snapshot(db).pubs = db.pubs
    BY SnapshotPubs DEF References, Typed
  <2> QED BY <2>1, SnapshotLinked DEF Typed, TablesOK, PayloadOK, Shared
<1>4. /\ row \in OpRow /\ row.state = "prepared" /\ row.payload = Snapshot(db)
      /\ row.base = head
  BY <1>3 DEF MirrorOp, OpRow, OpState, Typed
<1>5. Write(d)
  BY <1>1
<1> HIDE DEF row
<1>6. /\ d \in Database /\ d.backend = db.backend /\ d.indexed = db.indexed
      /\ d.entries = db.entries /\ d.pubs = db.pubs /\ d.ops = [db.ops EXCEPT ![o] = row]
  BY <1>4 DEF Typed, Database
<1>7. \A p \in Op: d.ops[p] = IF p = o THEN row ELSE db.ops[p]
  BY <1>6 DEF Typed, Database
<1> HIDE DEF d
<1>8. KeepsOps(d)
  BY <1>1, <1>7 DEF KeepsOps, FreshOp
<1>9. AddsSound(d)
  BY <1>3, <1>4, <1>7 DEF AddsSound, IsNew
<1>10. Shared(d) = Shared(db) /\ OneEach(d.pubs)
  BY <1>6 DEF Shared, TablesOK
<1>11. IndexInv'
  BY <1>1, <1>2, <1>5, <1>6, <1>8, <1>9, <1>10, WriteIndex
<1>12. Published' = Published
  BY <1>1, <1>5, <1>6, <1>10, WritePublished
<1> QED BY <1>11, <1>12, SamePublished

LEMMA MergeIndex ==
  ASSUME MemoryInv, IndexInv, NEW a \in Client, NEW b \in Client, MergeAgents(a, b)
  PROVE  IndexInv' /\ NoFork
<1> USE DEF MemoryInv, IndexInv
<1> DEFINE d == [db EXCEPT !.ops = Renamed(a, b)]
<1>1. Write(d) /\ head' = head /\ answers' = answers
  BY DEF MergeAgents
<1>2. d \in Database /\ d.ops = Renamed(a, b)
  BY MergedOps DEF Typed, Database
<1>3. /\ d.backend = db.backend /\ d.indexed = db.indexed
      /\ d.entries = db.entries /\ d.pubs = db.pubs
  BY DEF Typed, Database
<1> HIDE DEF d
<1>4. KeepsOps(d) /\ AddsSound(d) /\ AddsPublication(d) /\ AddsFollower(d)
  BY <1>2, MergedOps DEF KeepsOps, AddsSound, AddsPublication, AddsFollower, IsNew
<1>5. Shared(d) = Shared(db) /\ OneEach(d.pubs)
  BY <1>3 DEF Shared, TablesOK
<1>6. db.backend # "sql" => Shared(d) \subseteq db.ops[db.indexed].payload.entries
  BY <1>5 DEF TablesOK, Typed, Database
<1>7. IndexInv'
  BY <1>1, <1>2, <1>3, <1>4, <1>5, <1>6, WriteIndex
<1>8. CASE db.backend = "sql"
  BY <1>1, <1>2, <1>3, <1>5, <1>7, <1>8, WritePublished, SamePublished
<1>9. CASE db.backend = "git"
  BY <1>1, <1>2, <1>3, <1>4, <1>7, <1>9, GitUnchanged
<1> QED BY <1>8, <1>9 DEF Typed, Database

LEMMA RebuildIndex ==
  ASSUME MemoryInv, IndexInv, Rebuild
  PROVE  IndexInv' /\ NoFork
<1> USE DEF MemoryInv, IndexInv
<1> DEFINE s == Content(head)
           d == Projected(db, s)
<1>1. /\ Write(d) /\ head' = head /\ answers' = answers
      /\ db.backend = "git" /\ head = db.indexed
  BY DEF Rebuild, Settled
<1>2. db.indexed \in Op /\ db.ops[db.indexed] # NullOp
  BY <1>1, GitPublished
<1>3. s = db.ops[db.indexed].payload /\ s \in Payload /\ Linked(s) /\ PayloadOK(s)
  BY <1>1, <1>2, OpFacts DEF Content, References, Typed, OpsOK
<1>4. /\ d \in Database /\ d.backend = db.backend /\ d.indexed = db.indexed
      /\ d.ops = db.ops
  BY <1>3, ProjectedFacts DEF Typed, References
<1>5. d.entries = db.entries \cup s.entries /\ d.pubs = s.pubs
  <2>1. Snapshot(db).pubs = db.pubs
    BY SnapshotPubs DEF References, Typed
  <2> QED BY <2>1 DEF Projected, Typed, Database
<1> HIDE DEF d
<1>6. Shared(d) \subseteq s.entries /\ OneEach(d.pubs)
  <2>1. Shared(db) \subseteq s.entries
    BY <1>1, <1>3 DEF TablesOK
  <2> QED BY <1>3, <1>5, <2>1 DEF Shared, PayloadOK
<1>7. IndexInv'
  BY <1>1, <1>3, <1>4, <1>6, NothingNew, WriteIndex
<1> QED BY <1>1, <1>4, <1>7, NothingNew, GitUnchanged

LEMMA LoseRowIndex ==
  ASSUME MemoryInv, IndexInv, NEW e \in db.entries, LoseRow(e)
  PROVE  IndexInv' /\ NoFork
<1> USE DEF MemoryInv, IndexInv
<1> DEFINE d == [db EXCEPT !.entries = @ \ {e}, !.pubs = {p \in @: p.mem # e.id}]
<1>1. Write(d) /\ head' = head /\ answers' = answers /\ db.backend = "git"
  BY DEF LoseRow
<1>2. /\ d \in Database /\ d.backend = db.backend /\ d.indexed = db.indexed
      /\ d.ops = db.ops
      /\ d.entries = db.entries \ {e} /\ d.pubs = {p \in db.pubs: p.mem # e.id}
  BY DEF Typed, Database
<1> HIDE DEF d
<1>3. Shared(d) \subseteq db.ops[db.indexed].payload.entries /\ OneEach(d.pubs)
  BY <1>1, <1>2 DEF TablesOK, Shared, OneEach
<1>4. IndexInv'
  BY <1>1, <1>2, <1>3, NothingNew, WriteIndex
<1> QED BY <1>1, <1>2, <1>4, NothingNew, GitUnchanged

LEMMA CutoverIndex ==
  ASSUME MemoryInv, IndexInv, NEW c \in Op, Cutover(c)
  PROVE  IndexInv' /\ NoFork
<1> USE DEF MemoryInv, IndexInv
<1> DEFINE d == [db EXCEPT !.backend = "git", !.indexed = c]
<1>1. db' = d /\ staged' = d /\ head' = head /\ answers' = answers
  BY DEF Cutover, Write
<1>2. Prepared(db) = {} /\ db.verified = c /\ head = c /\ Snapshot(db) = Content(c)
  BY DEF Cutover, NonePending, SameAsMirror
<1>3. /\ d \in Database /\ d.backend = "git" /\ d.indexed = c
      /\ d.ops = db.ops /\ d.entries = db.entries /\ d.pubs = db.pubs
  BY DEF Typed, Database
<1> HIDE DEF d
<1>4. /\ db.ops[c] # NullOp /\ c # 0
      /\ db.ops[c].payload.entries = Shared(db) /\ db.ops[c].payload.pubs = db.pubs
  <2>1. Snapshot(db).entries = Shared(db) /\ Snapshot(db).pubs = db.pubs
    BY SnapshotPubs DEF References, Typed
  <2>2. c # 0 /\ db.ops[c] # NullOp
    BY <1>2 DEF References, Op
  <2> QED BY <1>2, <2>1, <2>2 DEF Content
<1>5. OpsOK'
  <2>1. Prepared(d) = {}
    BY <1>2, <1>3 DEF Prepared
  <2> QED BY <1>1, <1>3, <2>1 DEF OpsOK, Known
<1>6. TablesOK(d)'
  <2>1. OneEach(d.pubs) /\ Shared(d) = Shared(db)
    BY <1>3 DEF TablesOK, Shared
  <2>2. \A o \in Op: d.ops[o].state = "conflict" /\ d.ops[o].kind = "publication" =>
          head # o /\ NotBuiltOn(o)
    BY <1>3 DEF TablesOK
  <2>3. \A o \in Op: NotBuiltOn(o) => NotBuiltOn(o)'
    BY <1>1, <1>3 DEF NotBuiltOn
  <2> HIDE DEF MemoryInv, IndexInv
  <2>4. PICK e: e = d
    OBVIOUS
  <2>5. TablesOK(e)'
    BY <1>1, <1>2, <1>3, <1>4, <2>1, <2>2, <2>3, <2>4 DEF TablesOK, Shared
  <2> QED BY <1>1, <2>4, <2>5 DEF TablesOK, Shared, d
<1>7. TablesOK(db)' /\ TablesOK(staged)'
  BY <1>1, <1>6 DEF TablesOK, Shared, d
<1>8. Published' = Published /\ StablePubs' = StablePubs
  <2>1. CASE db.backend = "sql"
    BY <1>1, <1>2, <1>3, <1>4, <2>1, ForeignIsNoOp DEF StablePubs, Published, Content
  <2>2. CASE db.backend = "git"
    <3>1. head \in {db.indexed, Foreign}
      BY <1>2, <2>2 DEF GitOK
    <3>2. c = db.indexed
      BY <1>2, <3>1, ForeignIsNoOp
    <3> QED BY <1>1, <1>2, <1>3, <2>2, <3>2 DEF StablePubs, Published, Content
  <2> QED BY <2>1, <2>2 DEF Typed, Database
<1>9. AnswersOK' /\ SamePubs'
  BY <1>1, <1>8 DEF AnswersOK, SamePubs
<1> QED BY <1>5, <1>7, <1>8, <1>9, SamePublished

LEMMA AnswerIndex ==
  ASSUME MemoryInv, IndexInv, NEW c \in Client, NEW key \in Key, AnswerPublisher(c, key)
  PROVE  IndexInv' /\ NoFork
<1> USE DEF MemoryInv, IndexInv
<1> DEFINE r(m) == [client |-> c, agent |-> identity[c], key |-> key, mem |-> m]
<1>1. PICK p \in db.pubs:
        /\ p.agent = identity[c] /\ p.key = key /\ Readable
        /\ answers' = answers \cup {r(p.mem)}
        /\ UNCHANGED <<db, staged, at, head, identity>>
  BY DEF AnswerPublisher, Saved
<1>2. r(p.mem).agent = p.agent /\ r(p.mem).key = p.key /\ r(p.mem).mem = p.mem
  BY <1>1
<1> HIDE DEF r
<1>3. Published' = Published /\ StablePubs' = StablePubs
  BY <1>1 DEF Published, StablePubs, Content, Shared
<1>4. StablePubs = db.pubs
  <2>1. CASE db.backend = "sql"
    BY <2>1 DEF StablePubs
  <2>2. CASE db.backend = "git"
    <3>1. db.indexed = head /\ Snapshot(db) = Content(head)
      BY <1>1, <2>2 DEF Readable, ProjectionMatches, Settled
    <3>2. db.indexed \in Op /\ Snapshot(db).pubs = db.pubs
      BY <2>2, GitPublished, SnapshotPubs DEF References, Typed
    <3> QED BY <2>2, <3>1, <3>2 DEF StablePubs, Content
  <2> QED BY <2>1, <2>2 DEF Typed, Database
<1>5. AnswersOK'
  BY <1>1, <1>2, <1>3, <1>4 DEF AnswersOK
<1>6. OpsOK' /\ TablesOK(db)' /\ TablesOK(staged)' /\ SamePubs'
  BY <1>1 DEF SamePubs, OpsOK, TablesOK, Known, Follows, NotBuiltOn, Prepared, Shared
<1> QED BY <1>3, <1>5, <1>6, SamePublished

-----------------------------------------------------------------------------
(* Reconciliation and faults.                                                 *)
LEMMA SameDatabase ==
  ASSUME MemoryInv, IndexInv, staged' \in {staged, db},
         UNCHANGED <<db, head, answers>>
  PROVE  IndexInv' /\ NoFork
<1> USE DEF MemoryInv, IndexInv
<1>1. OpsOK' /\ AnswersOK' /\ TablesOK(db)'
  BY DEF OpsOK, TablesOK, Known, Follows, NotBuiltOn, Prepared, Shared, AnswersOK, StablePubs
<1>2. TablesOK(staged)' /\ SamePubs'
  BY DEF TablesOK, NotBuiltOn, Shared, SamePubs
<1>3. Published' = Published
  BY DEF Published, Content, Shared
<1> QED BY <1>1, <1>2, <1>3, SamePublished

LEMMA MoveRefIndex ==
  ASSUME MemoryInv, IndexInv, MoveRef
  PROVE  IndexInv' /\ NoFork
<1> USE DEF MemoryInv, IndexInv
<1>1. Prepared(staged) # {} /\ UNCHANGED <<db, answers>>
  BY DEF MoveRef
<1>2. PICK o \in Prepared(staged): o = FirstPrepared(staged)
  BY <1>1, FirstIsPrepared DEF Typed
<1>3. /\ o \in Op /\ staged.ops[o].state = "prepared" /\ db.ops[o].state = "prepared"
      /\ staged.ops[o] # NullOp /\ db.ops[o] # NullOp /\ o \in Prepared(db)
  BY <1>2, NullFacts DEF StagedOK, Typed, Prepared
<1>4. AnswersOK'
  BY <1>1 DEF AnswersOK, StablePubs
<1>5. ASSUME RefMatches(o), head' = o, staged' = staged
      PROVE  IndexInv' /\ NoFork
  <2>1. OpsOK' /\ SamePubs'
    BY <1>1, <1>3, <1>5 DEF OpsOK, SamePubs, Known, Follows, NotBuiltOn, Prepared
  <2>2. TablesOK(db)' /\ TablesOK(staged)'
    BY <1>1, <1>3, <1>5 DEF TablesOK, NotBuiltOn, Shared
  <2>3. CASE db.backend = "sql"
    <3>1. Published' = Published
      BY <1>1, <2>3 DEF Published, Shared
    <3> QED BY <1>4, <2>1, <2>2, <3>1, SamePublished
  <2>4. CASE db.backend = "git"
    <3>1. Published' = db.ops[o].payload.entries
      BY <1>1, <1>3, <1>5, <2>4, ForeignIsNoOp DEF Published, Content
    <3>2. CASE head = o
      <4>1. Published' = Published
        BY <1>3, <2>4, <3>1, <3>2, ForeignIsNoOp DEF Published, Content
      <4> QED BY <1>4, <2>1, <2>2, <4>1, SamePublished
    <3>3. CASE head = db.ops[o].base
      <4>1. Extends(o) /\ Follows(o)
        BY <1>3, <2>4 DEF GitOK, OpsOK
      <4>2. head = db.indexed /\ db.indexed \in Op
        BY <2>4, <3>3, <4>1, GitPublished DEF Extends
      <4>3. Published = db.ops[db.indexed].payload.entries
        BY <2>4, <4>2, ForeignIsNoOp DEF Published, Content
      <4> QED BY <1>4, <2>1, <2>2, <3>1, <4>1, <4>3 DEF NoFork, Follows
    <3> QED BY <1>5, <3>2, <3>3 DEF RefMatches
  <2> QED BY <2>3, <2>4 DEF Typed, Database
<1>6. ASSUME ~RefMatches(o) \/ head = db.ops[o].base,
             staged' = [staged EXCEPT !.ops[o].state = "conflict"],
             head' = head
      PROVE  IndexInv' /\ NoFork
  <2>1. staged' \in Database /\ Moved(staged, o, "conflict", staged')
    <3> DEFINE e == [staged EXCEPT !.ops[o].state = "conflict"]
    <3>1. staged \in Database /\ "conflict" \in OpState
      BY DEF Typed, OpState
    <3>2. e \in Database /\ Moved(staged, o, "conflict", e)
      BY <1>3, <3>1, StateStep
    <3> QED BY <1>6, <3>2
  <2>2. Published' = Published /\ OpsOK' /\ TablesOK(db)' /\ SamePubs'
    <3>1. staged'.pubs = staged.pubs
      BY <2>1 DEF Moved
    <3> QED BY <1>1, <1>6, <3>1
            DEF Published, Content, Shared, OpsOK, TablesOK, Known, Follows, NotBuiltOn,
                Prepared, SamePubs
  <2>3. staged.ops[o].kind = "publication" =>
          head # o /\ staged.indexed # o /\ NotBuiltOn(o)
    <3> HAVE staged.ops[o].kind = "publication"
    <3>1. db.backend = "git"
      BY <1>3 DEF StagedOK, References, Typed, Database
    <3>2. Extends(o) /\ Follows(o) /\ staged.indexed = db.indexed
      BY <1>1, <1>3, <3>1 DEF GitOK, OpsOK
    <3> QED BY <1>3, <1>6, <3>2 DEF RefMatches, Extends, Follows, NotBuiltOn
  <2>4. TablesOK(staged)'
    <3>1. OneEach(staged'.pubs) /\ staged'.indexed = staged.indexed
          /\ Shared(staged') = Shared(staged) /\ staged'.backend = staged.backend
      BY <2>1 DEF Moved, TablesOK, Shared
    <3>2. ASSUME NEW q \in Op, staged'.ops[q].state = "conflict",
                 staged'.ops[q].kind = "publication"
          PROVE  head # q /\ staged.indexed # q /\ NotBuiltOn(q)
      <4>1. CASE q = o
        BY <2>1, <2>3, <3>2, <4>1 DEF Moved
      <4>2. CASE q # o
        BY <2>1, <3>2, <4>2 DEF Moved, TablesOK
      <4> QED BY <4>1, <4>2
    <3>3. \A q \in Op: NotBuiltOn(q) => NotBuiltOn(q)'
      BY <1>1 DEF NotBuiltOn
    <3>4. staged.backend = "git" => Shared(staged) \subseteq db.ops[staged.indexed].payload.entries
      BY DEF TablesOK
    <3> HIDE DEF MemoryInv, IndexInv
    <3>5. (Shared(staged))' = Shared(staged')
      BY DEF Shared
    <3> QED BY <1>1, <1>6, <3>1, <3>2, <3>3, <3>4, <3>5 DEF TablesOK
  <2> QED BY <1>4, <2>2, <2>4, SamePublished
<1> QED BY <1>2, <1>5, <1>6 DEF MoveRef

LEMMA IndexOpIndex ==
  ASSUME MemoryInv, IndexInv, IndexOp
  PROVE  IndexInv' /\ NoFork
<1> USE DEF MemoryInv, IndexInv
<1>1. Prepared(staged) # {} /\ UNCHANGED <<db, head, answers>>
  BY DEF IndexOp, StagedOK
<1>2. PICK o \in Prepared(staged): o = FirstPrepared(staged)
  BY <1>1, FirstIsPrepared DEF Typed
<1>3. o \in Op /\ staged.ops[o] # NullOp /\ o \in Prepared(db) /\ db.ops[o] # NullOp
      /\ staged.ops[o].kind = db.ops[o].kind /\ staged.ops[o].payload = db.ops[o].payload
  BY <1>2, NullFacts DEF StagedOK, Typed
<1>4. CASE staged' = db
  BY <1>1, <1>4, SameDatabase
<1>5. ASSUME staged' = Indexed(staged, o)
      PROVE  IndexInv' /\ NoFork
  <2> DEFINE e == [staged EXCEPT !.ops[o].state = "indexed"]
  <2>1. staged \in Database /\ "indexed" \in OpState
    BY DEF Typed, OpState
  <2>2. e \in Database /\ Moved(staged, o, "indexed", e)
    BY <1>3, <2>1, StateStep
  <2>3. IF staged.ops[o].kind = "publication"
        THEN staged' = [Projected(e, staged.ops[o].payload) EXCEPT !.indexed = o]
        ELSE staged' \in {e, [e EXCEPT !.verified = o]}
    BY <1>5 DEF Indexed
  <2> HIDE DEF e
  <2>4. Published' = Published /\ OpsOK' /\ TablesOK(db)' /\ AnswersOK'
    BY <1>1 DEF Published, Content, Shared, OpsOK, TablesOK, Known, Follows, NotBuiltOn,
       Prepared, AnswersOK, StablePubs
  <2>5. \A q \in Op: NotBuiltOn(q)' = NotBuiltOn(q)
    BY <1>1 DEF NotBuiltOn
  <2>6. (Shared(staged))' = Shared(staged')
    BY DEF Shared
  <2>7. CASE staged.ops[o].kind = "publication"
    <3> DEFINE f == Projected(e, staged.ops[o].payload)
    <3>1. staged.ops[o].payload \in Payload /\ Linked(staged.ops[o].payload)
          /\ PayloadOK(db.ops[o].payload)
      BY <1>3, OpFacts DEF References, Typed, OpsOK
    <3>2. Linked(e)
      BY <2>2 DEF Linked, References, Moved
    <3>3. f \in Database /\ f.ops = e.ops
      BY <2>2, <3>1, <3>2, ProjectedFacts
    <3>4. staged' = [f EXCEPT !.indexed = o]
      BY <2>3, <2>7
    <3> HIDE DEF f
    <3>5. staged'.ops = e.ops /\ staged'.indexed = o
      BY <3>3, <3>4 DEF Database
    <3>6. Shared(staged') = db.ops[o].payload.entries /\ staged'.pubs = db.ops[o].payload.pubs
      BY <1>3, <1>5, <2>7, IndexedSnapshot
    <3>7. db.backend = "git"
      BY <1>3, <2>7 DEF References, Typed, Database
    <3>8. ASSUME NEW q \in Op, staged'.ops[q].state = "conflict",
                 staged'.ops[q].kind = "publication"
          PROVE  head # q /\ o # q /\ NotBuiltOn(q)
      <4>1. q # o
        BY <2>2, <3>5, <3>8 DEF Moved
      <4>2. staged.ops[q] = staged'.ops[q]
        BY <2>2, <3>5, <4>1 DEF Moved
      <4> QED BY <3>8, <4>1, <4>2 DEF TablesOK
    <3>9. OneEach(staged'.pubs)
      BY <3>1, <3>6 DEF PayloadOK
    <3>10. TablesOK(staged)'
      <4> HIDE DEF MemoryInv, IndexInv
      <4> QED BY <1>1, <2>5, <2>6, <3>5, <3>6, <3>8, <3>9 DEF TablesOK
    <3> QED BY <1>1, <2>4, <3>7, <3>10, SamePublished DEF SamePubs
  <2>8. CASE staged.ops[o].kind # "publication"
    <3>1. /\ staged'.ops = e.ops /\ staged'.pubs = e.pubs /\ staged'.entries = e.entries
          /\ staged'.indexed = e.indexed /\ staged'.backend = e.backend
      BY <2>2, <2>3, <2>8 DEF Database
    <3>2. /\ Shared(staged') = Shared(staged) /\ staged'.pubs = staged.pubs
          /\ staged'.indexed = staged.indexed /\ staged'.backend = staged.backend
      BY <2>2, <3>1 DEF Moved, Shared
    <3>3. ASSUME NEW q \in Op, staged'.ops[q].state = "conflict",
                 staged'.ops[q].kind = "publication"
          PROVE  head # q /\ staged.indexed # q /\ NotBuiltOn(q)
      <4>1. q # o
        BY <2>2, <3>1, <3>3 DEF Moved
      <4>2. staged.ops[q] = staged'.ops[q]
        BY <2>2, <3>1, <4>1 DEF Moved
      <4> QED BY <3>3, <4>2 DEF TablesOK
    <3>4. OneEach(staged.pubs)
          /\ (staged.backend = "git" =>
                Shared(staged) \subseteq db.ops[staged.indexed].payload.entries)
      BY DEF TablesOK
    <3>5. TablesOK(staged)'
      <4> HIDE DEF MemoryInv, IndexInv
      <4> QED BY <1>1, <2>5, <2>6, <3>2, <3>3, <3>4 DEF TablesOK
    <3> QED BY <1>1, <2>4, <3>2, <3>5, SamePublished DEF SamePubs
  <2> QED BY <2>7, <2>8
<1>6. staged' = db \/ staged' = Indexed(staged, o)
  BY <1>2 DEF IndexOp
<1> QED BY <1>4, <1>5, <1>6

LEMMA ReconcileCommitIndex ==
  ASSUME MemoryInv, IndexInv, ReconcileCommit
  PROVE  IndexInv' /\ NoFork
<1> USE DEF MemoryInv, IndexInv
<1>1. /\ Prepared(staged) = {} /\ db' = staged /\ staged' = staged
      /\ head' = head /\ answers' = answers
  BY DEF ReconcileCommit
<1>2. \A o \in Op:
        /\ staged.ops[o] = NullOp <=> db.ops[o] = NullOp
        /\ db.ops[o] # NullOp => staged.ops[o].payload = db.ops[o].payload
                                /\ staged.ops[o].base = db.ops[o].base
  BY DEF StagedOK
<1>3. OpsOK'
  <2>1. \A o \in Op: staged.ops[o] # NullOp =>
          /\ PayloadOK(staged.ops[o].payload)
          /\ staged.ops[o].base \in Op => staged.ops[staged.ops[o].base] # NullOp
    BY <1>2 DEF OpsOK, Known
  <2>2. head \in Op => staged.ops[head] # NullOp
    BY <1>2 DEF OpsOK, Known
  <2> HIDE DEF MemoryInv, IndexInv
  <2> QED BY <1>1, <2>1, <2>2 DEF OpsOK, Known
<1>4. staged.backend = db.backend
      /\ (db.backend = "git" =>
             /\ staged.indexed \in Op /\ db.ops[staged.indexed] # NullOp
             /\ staged.indexed = db.indexed \/ staged.indexed \in Prepared(db))
  <2>1. staged.backend = db.backend
    BY DEF StagedOK
  <2>2. ASSUME db.backend = "git"
        PROVE  /\ staged.indexed \in Op /\ db.ops[staged.indexed] # NullOp
               /\ staged.indexed = db.indexed \/ staged.indexed \in Prepared(db)
    BY <1>1, <2>2, NullFacts, GitPublished DEF GitOK, Typed
  <2> QED BY <2>1, <2>2
<1>5. TablesOK(staged)'
  <2>1. \A o \in Op: NotBuiltOn(o) => NotBuiltOn(o)'
    BY <1>1, <1>2 DEF NotBuiltOn
  <2>2. staged.backend = "git" =>
          Shared(staged) \subseteq staged.ops[staged.indexed].payload.entries
    BY <1>2, <1>4 DEF TablesOK
  <2>3. \A o \in Op: staged.ops[o].state = "conflict" /\ staged.ops[o].kind = "publication" =>
          head # o /\ staged.indexed # o /\ NotBuiltOn(o)
    BY DEF TablesOK
  <2>4. OneEach(staged.pubs)
    BY DEF TablesOK
  <2> HIDE DEF MemoryInv, IndexInv
  <2>5. (Shared(staged))' = Shared(staged)
    BY <1>1 DEF Shared
  <2> QED BY <1>1, <2>1, <2>2, <2>3, <2>4, <2>5 DEF TablesOK
<1>6. TablesOK(db)' /\ SamePubs'
  BY <1>1, <1>5 DEF TablesOK, SamePubs, Shared
<1>7. CASE db.backend = "sql"
  <2>1. Published' = Published /\ StablePubs' = StablePubs
    BY <1>1, <1>4, <1>7 DEF Published, StablePubs, SamePubs, StagedOK
  <2>2. AnswersOK'
    BY <1>1, <2>1 DEF AnswersOK
  <2> QED BY <1>3, <1>5, <1>6, <2>1, <2>2, SamePublished
<1>8. CASE db.backend = "git"
  <2>1. PICK o \in Op: /\ o = staged.indexed /\ db.ops[o] # NullOp
                       /\ o = db.indexed \/ o \in Prepared(db)
    BY <1>4, <1>8
  <2>2. StablePubs = db.ops[db.indexed].payload.pubs
        /\ StablePubs' = db.ops[o].payload.pubs
    BY <1>1, <1>2, <1>4, <1>8, <2>1 DEF StablePubs
  <2>3. o = db.indexed \/ Follows(o)
    BY <1>8, <2>1 DEF OpsOK
  <2>4. AnswersOK'
    <3>1. StablePubs \subseteq StablePubs'
      BY <2>2, <2>3 DEF Follows
    <3> QED BY <1>1, <3>1 DEF AnswersOK
  <2>5. NoFork
    <3>1. CASE head # Foreign
      <4>1. head = o
        BY <1>1, <1>8, <2>1, <3>1 DEF GitOK
      <4>2. Published = db.ops[o].payload.entries
        BY <1>8, <2>1, <3>1, <4>1 DEF Published, Content
      <4>3. Published' = db.ops[o].payload.entries
        BY <1>1, <1>2, <1>4, <1>8, <2>1, <3>1, <4>1 DEF Published, Content
      <4> QED BY <4>2, <4>3, SamePublished
    <3>2. CASE head = Foreign
      <4>1. Published = db.ops[db.indexed].payload.entries
        BY <1>8, <3>2, GitPublished
      <4>2. Published' = db.ops[o].payload.entries
        BY <1>1, <1>2, <1>4, <1>8, <2>1, <3>2 DEF Published, Content
      <4>3. CASE o = db.indexed
        <5>1. Published' = Published
          BY <4>1, <4>2, <4>3
        <5> QED BY <5>1, SamePublished
      <4>4. CASE Follows(o)
        BY <4>1, <4>2, <4>4 DEF Follows, NoFork
      <4> QED BY <2>3, <4>3, <4>4
    <3> QED BY <3>1, <3>2
  <2> QED BY <1>3, <1>5, <1>6, <2>4, <2>5
<1> QED BY <1>7, <1>8 DEF Typed, Database

LEMMA ForeignPushIndex ==
  ASSUME MemoryInv, IndexInv, ForeignPush
  PROVE  IndexInv' /\ NoFork
<1> USE DEF MemoryInv, IndexInv
<1>1. head # Foreign /\ head' = Foreign /\ UNCHANGED <<db, staged, answers>>
  BY DEF ForeignPush
<1>2. OpsOK' /\ AnswersOK' /\ SamePubs' /\ TablesOK(db)' /\ TablesOK(staged)'
  BY <1>1, ForeignIsNoOp DEF OpsOK, AnswersOK, StablePubs, SamePubs, TablesOK, Known,
     Follows, NotBuiltOn, Prepared, Shared
<1>3. Published' \subseteq Published
  <2>1. CASE db.backend = "sql"
    BY <1>1, <2>1 DEF Published, Shared
  <2>2. CASE db.backend = "git"
    <3>1. /\ Published = db.ops[head].payload.entries
          /\ db.indexed \in Op
      BY <1>1, <2>2, GitPublished
    <3>2. Published' = db.ops[db.indexed].payload.entries
      BY <1>1, <2>2, <3>1 DEF Published, Content
    <3>3. head = db.indexed \/ Extends(head)
      BY <1>1, <2>2 DEF GitOK
    <3> QED BY <3>1, <3>2, <3>3 DEF Extends
  <2> QED BY <2>1, <2>2 DEF Typed, Database
<1> QED BY <1>2, <1>3 DEF NoFork, NoForkBetween

-----------------------------------------------------------------------------
(* The theorems.                                                              *)
LEMMA IndexStart == MemoryInit => IndexInv
<1> SUFFICES ASSUME MemoryInit PROVE IndexInv
  OBVIOUS
<1>1. /\ db.pubs = {} /\ db.backend = "sql" /\ \A o \in Op: db.ops[o] = NullOp
      /\ staged = db /\ head = 0 /\ answers = {}
  BY DEF MemoryInit
<1>2. OpsOK /\ AnswersOK /\ SamePubs
  BY <1>1 DEF OpsOK, AnswersOK, SamePubs, Known, Op
<1>3. TablesOK(db) /\ TablesOK(staged)
  BY <1>1, NullFacts DEF TablesOK, OneEach
<1> QED BY <1>2, <1>3 DEF IndexInv

LEMMA IndexSteps ==
  ASSUME MemoryInv, IndexInv, MemoryInv', [MemoryNext]_memVars
  PROVE  IndexInv' /\ NoFork
<1>1. ASSUME NEW c \in Client, NEW k \in Key, AnswerPublisher(c, k)
      PROVE  IndexInv' /\ NoFork
  BY <1>1, AnswerIndex
<1>2. ASSUME NEW c \in Client, NEW k \in Key, NEW sup \in Mem \cup {0}, Publish(c, k, sup)
      PROVE  IndexInv' /\ NoFork
  BY <1>2, PublishIndex
<1>3. ASSUME NEW sup \in Mem \cup {0}, NEW shared \in BOOLEAN, CreateEntry(sup, shared)
      PROVE  IndexInv' /\ NoFork
  BY <1>3, CreateEntryIndex
<1>4. CASE Mirror
  BY <1>4, MirrorIndex
<1>5. ASSUME NEW c \in Op, Cutover(c)
      PROVE  IndexInv' /\ NoFork
  BY <1>5, CutoverIndex
<1>6. ASSUME NEW a \in Client, NEW b \in Client, MergeAgents(a, b)
      PROVE  IndexInv' /\ NoFork
  BY <1>6, MergeIndex
<1>7. CASE ReconcileBegin
  BY <1>7, SameDatabase DEF ReconcileBegin
<1>8. CASE MoveRef
  BY <1>8, MoveRefIndex
<1>9. CASE IndexOp
  BY <1>9, IndexOpIndex
<1>10. CASE ReconcileCommit
  BY <1>10, ReconcileCommitIndex
<1>11. CASE Rebuild
  BY <1>11, RebuildIndex
<1>12. CASE Crash
  BY <1>12, SameDatabase DEF Crash
<1>13. CASE ForeignPush
  BY <1>13, ForeignPushIndex
<1>14. ASSUME NEW e \in db.entries, LoseRow(e)
       PROVE  IndexInv' /\ NoFork
  BY <1>14, LoseRowIndex
<1>15. CASE UNCHANGED memVars
  BY <1>15, SameDatabase DEF memVars
<1> QED
  BY <1>1, <1>2, <1>3, <1>4, <1>5, <1>6, <1>7, <1>8, <1>9, <1>10, <1>11, <1>12,
     <1>13, <1>14, <1>15 DEF MemoryNext

\* What tables and payloads hold, with reconciliation at any point of its
\* transaction (index_snapshot, publish_project_memory, cutover_project_memory).
THEOREM IndexInvariant == MemorySpec => [](MemoryInv /\ IndexInv)
<1>1. MemoryInit => IndexInv
  BY IndexStart
<1>2. MemoryInv /\ MemoryInv' /\ IndexInv /\ [MemoryNext]_memVars => IndexInv'
  BY IndexSteps
<1>3. MemorySpec => []MemoryInv
  BY MemoryInvariant
<1> QED BY <1>1, <1>2, <1>3, PTL DEF MemorySpec

\* Outside of reconciliation the index stands at the head of Git and holds nothing
\* that Git does not hold (cutover_project_memory, reconcile_git_memory).
THEOREM IndexAgreesWithGit == MemorySpec => []SettledWhenIdle
<1>1. MemoryInv /\ IndexInv => SettledWhenIdle
  BY IndexedFacts DEF SettledWhenIdle
<1> QED BY <1>1, IndexInvariant, PTL

\* A publication that ended in conflict was never built on (reconcile_git_memory).
THEOREM ConflictsAreUnpublished == MemorySpec => []ConflictIsUnpublished
<1>1. MemoryInv /\ IndexInv => ConflictIsUnpublished
  BY ConflictFacts
<1> QED BY <1>1, IndexInvariant, PTL

\* However often a publication is repeated, its key stands for one entry
\* (publish_project_memory).
THEOREM KeysAreIdempotent == MemorySpec => []OneEntryPerKey
<1>1. MemoryInv /\ IndexInv => OneEntryPerKey
  BY KeyFacts
<1> QED BY <1>1, IndexInvariant, PTL

\* Reconciliation never gets stuck on an index that differs from Git
\* (reconcile_git_memory, index_snapshot).
THEOREM IndexFollows == MemorySpec => []IndexCanFollow
<1>1. MemoryInv /\ IndexInv => IndexCanFollow
  BY FollowFacts
<1> QED BY <1>1, IndexInvariant, PTL

\* Revisions of published memory do not fork (publish_project_memory).
THEOREM RevisionsDoNotFork == MemorySpec => PublicationDoesNotFork
<1>1. MemoryInv /\ IndexInv /\ MemoryInv' /\ [MemoryNext]_memVars
        => [\A e \in Published' \ Published:
              e.source = "agent_task" /\ e.sup # 0 =>
                \A f \in Published: f.sup # e.sup]_memVars
  BY IndexSteps DEF NoFork, NoForkBetween
<1>2. MemorySpec => [](MemoryInv /\ IndexInv)
  BY IndexInvariant
<1> QED BY <1>1, <1>2, PTL DEF MemorySpec, PublicationDoesNotFork
=============================================================================
