--------------------------- MODULE ContractProofs ---------------------------
(* What a completion is worth, for any number of runs, receipts, revisions    *)
(* and contexts: its receipts stand, its reviewer saw the end, its executor   *)
(* knew the contract, and no check was repeated blindly.                      *)
EXTENDS Contract, SequenceTheorems, TLAPS

-----------------------------------------------------------------------------
(* The inductive invariant, in parts.                                         *)
ContractRec == [acceptance: Nat, context: Nat]
RunRec == [status: {"none", "claimed", "running", "paused", "ended", "completed"},
           lease: {"none", "held", "lapsed", "lost"}, kept: BOOLEAN,
           known: Nat, read: Nat]
RevisionRec == [status: {"pending_ack", "applied", "rejected"}, base: Nat,
                before: Nat, after: Nat]
ReceiptRec == [run: Run, criterion: Criterion, kind: {"check", "review", "human"},
               contract: ContractRec, seen: ContractRec, verdict: Verdict,
               settled: Nat, evidence: Evidence \cup {"none"}]

RowsOK ==
  /\ state \in {"ready", "in_progress", "review", "done", "cancelled"}
  /\ spec \in Nat /\ contract \in ContractRec
  /\ runs \in [Run -> RunRec]
  /\ revisions \in Seq(RevisionRec) /\ receipts \in Seq(ReceiptRec)

\* Whoever waits for a check waits for one whose outcome is open, and a verdict
\* of a reviewer or a human is on the contract it read.
ReceiptsOK ==
  /\ \A i \in waiting: /\ i \in 1 .. Len(receipts) /\ receipts[i].kind = "check"
                       /\ receipts[i].verdict = "BLOCKED" /\ receipts[i].settled = 0
  /\ \A i \in 1 .. Len(receipts): receipts[i].kind # "check" =>
       receipts[i].seen = receipts[i].contract
  /\ NoBlindReplay

\* One assignment holds the role; who never lost it has it while its run lives;
\* and a finished task knows the run that finished it.
RunsOK ==
  /\ \A x, y \in Run: Active(x) /\ Active(y) => x = y
  /\ \A x \in Run:
       /\ Active(x) => ~Terminal
       /\ Active(x) => Live(x) \/ runs[x].status = "claimed"
       /\ Live(x) /\ runs[x].kept => Active(x)
  /\ state = "done" => record.run \in Run /\ runs[record.run].status = "completed"

RevisionsOK ==
  /\ spec <= Len(revisions) + 1
  /\ \A v \in 1 .. Len(revisions):
       /\ revisions[v].status = "applied" =>
            v + 1 <= spec /\ revisions[v].after <= contract.context
       /\ revisions[v].status = "pending_ack" => v = Len(revisions)
  /\ RevisionsFormALine

CompletionOK ==
  /\ state = "done" => record.cited \subseteq 1 .. Len(receipts)
  /\ CompletionStands

ContractInv ==
  RowsOK /\ ReceiptsOK /\ RunsOK /\ RevisionsOK /\ ExecutorKnowsContract /\ CompletionOK

-----------------------------------------------------------------------------
(* How the tables change.                                                     *)
LEMMA ReceiptDomain == RowsOK => Len(receipts) \in Nat /\ DOMAIN receipts = 1 .. Len(receipts)
BY LenProperties DEF RowsOK

LEMMA RevisionDomain ==
  RowsOK => Len(revisions) \in Nat /\ DOMAIN revisions = 1 .. Len(revisions)
BY LenProperties DEF RowsOK

\* A receipt is added at the end.
AddsReceipt(r) ==
  /\ receipts' \in Seq(ReceiptRec) /\ Len(receipts') = Len(receipts) + 1
  /\ \A j \in 1 .. Len(receipts): receipts'[j] = receipts[j]
  /\ receipts'[Len(receipts) + 1] = r

LEMMA AppendReceipt ==
  ASSUME RowsOK, NEW r \in ReceiptRec, receipts' = Append(receipts, r)
  PROVE  AddsReceipt(r)
BY AppendProperties DEF RowsOK, AddsReceipt

LEMMA NewReceiptRow ==
  ASSUME RowsOK, NEW x \in Run, NEW c \in Criterion, NEW k \in {"check", "review", "human"},
         NEW v \in Verdict, NEW seen \in ContractRec, NEW e \in Evidence \cup {"none"},
         NEW r, r = NewReceipt(x, c, k, v, seen, e)
  PROVE  /\ r \in ReceiptRec
         /\ r.run = x /\ r.criterion = c /\ r.kind = k /\ r.contract = contract
         /\ r.seen = seen /\ r.verdict = v /\ r.settled = 0 /\ r.evidence = e
BY DEF NewReceipt, ReceiptRec, RowsOK

\* A receipt gets its outcome.
Rewrites(i, v, n) ==
  /\ receipts' \in Seq(ReceiptRec) /\ Len(receipts') = Len(receipts)
  /\ \A j \in 1 .. Len(receipts): j # i => receipts'[j] = receipts[j]
  /\ receipts'[i].verdict = v /\ receipts'[i].settled = n
  /\ receipts'[i].run = receipts[i].run /\ receipts'[i].criterion = receipts[i].criterion
  /\ receipts'[i].kind = receipts[i].kind /\ receipts'[i].contract = receipts[i].contract
  /\ receipts'[i].seen = receipts[i].seen /\ receipts'[i].evidence = receipts[i].evidence

LEMMA RewriteReceipt ==
  ASSUME RowsOK, NEW i \in 1 .. Len(receipts), NEW v \in Verdict, NEW n \in Nat,
         receipts' = [receipts EXCEPT ![i] = [@ EXCEPT !.verdict = v, !.settled = n]]
  PROVE  Rewrites(i, v, n)
<1>1. receipts[i] \in ReceiptRec
  BY ElementOfSeq DEF RowsOK
<1> DEFINE r == [receipts[i] EXCEPT !.verdict = v, !.settled = n]
<1>2. /\ r \in ReceiptRec /\ r.verdict = v /\ r.settled = n
      /\ r.run = receipts[i].run /\ r.criterion = receipts[i].criterion
      /\ r.kind = receipts[i].kind /\ r.contract = receipts[i].contract
      /\ r.seen = receipts[i].seen /\ r.evidence = receipts[i].evidence
  BY <1>1 DEF ReceiptRec
<1>3. receipts' = [receipts EXCEPT ![i] = r]
  OBVIOUS
<1> HIDE DEF r
<1>4. /\ receipts' \in Seq(ReceiptRec) /\ Len(receipts') = Len(receipts)
      /\ \A j \in 1 .. Len(receipts): receipts'[j] = IF j = i THEN r ELSE receipts[j]
  BY <1>2, <1>3, ExceptSeq DEF RowsOK
<1> QED BY <1>2, <1>4 DEF Rewrites

\* A revision becomes the contract.
AppliedAs(a, v) ==
  /\ revisions' \in Seq(RevisionRec)
  /\ Len(revisions') = IF v - 1 = Len(revisions) + 1 THEN Len(revisions) + 1
                       ELSE Len(revisions)
  /\ \A n \in 1 .. Len(revisions'):
       revisions'[n] = IF n = v - 1 THEN a ELSE revisions[n]
  /\ spec' = v
  /\ contract' \in ContractRec /\ contract'.context = contract.context + 1

LEMMA ApplyFacts ==
  ASSUME RowsOK, NEW v \in Nat, v - 1 \in 1 .. Len(revisions) + 1,
         NEW r \in RevisionRec, Apply(v, r)
  PROVE  \E a \in RevisionRec:
           /\ a.status = "applied" /\ a.base = r.base
           /\ a.before = r.before /\ a.after = contract.context + 1
           /\ AppliedAs(a, v)
<1>0. PICK a: a = [r EXCEPT !.status = "applied", !.after = contract.context + 1]
  OBVIOUS
<1>1. /\ a \in RevisionRec /\ a.status = "applied" /\ a.base = r.base
      /\ a.before = r.before /\ a.after = contract.context + 1
  <2>1. contract.context + 1 \in Nat
    BY DEF RowsOK, ContractRec
  <2> QED BY <1>0, <2>1 DEF RevisionRec
<1>2. spec' = v /\ contract' \in ContractRec /\ contract'.context = contract.context + 1
  BY DEF Apply, RowsOK, ContractRec
<1> DEFINE k == IF v - 1 = Len(revisions) + 1 THEN Len(revisions) + 1 ELSE Len(revisions)
<1>3. k \in Nat /\ DOMAIN revisions \cup {v - 1} = 1 .. k
  <2>1. Len(revisions) \in Nat /\ DOMAIN revisions = 1 .. Len(revisions)
    BY RevisionDomain
  <2> QED BY <2>1
<1>4. revisions' = [n \in 1 .. k |-> IF n = v - 1 THEN a ELSE revisions[n]]
  BY <1>0, <1>3 DEF Apply
<1>5. \A n \in 1 .. k: n # v - 1 => n \in 1 .. Len(revisions)
  BY RevisionDomain
<1>6. \A n \in 1 .. k: (IF n = v - 1 THEN a ELSE revisions[n]) \in RevisionRec
  BY <1>1, <1>5, ElementOfSeq DEF RowsOK
<1> HIDE DEF k
<1>7. revisions' \in [1 .. k -> RevisionRec]
  BY <1>4, <1>6
<1>8. revisions' \in Seq(RevisionRec)
  BY <1>3, <1>7, SeqDef
<1>9. Len(revisions') = k
  <2>1. DOMAIN revisions' = 1 .. k /\ DOMAIN revisions' = 1 .. Len(revisions')
        /\ Len(revisions') \in Nat
    BY <1>7, <1>8, LenProperties
  <2> QED BY <1>3, <2>1
<1>10. AppliedAs(a, v)
  BY <1>2, <1>4, <1>8, <1>9 DEF k, AppliedAs
<1> QED BY <1>1, <1>10

-----------------------------------------------------------------------------
(* Receipts.                                                                  *)
ReceiptsKept == receipts' \in Seq(ReceiptRec) /\ ReceiptsOK'

LEMMA SameReceipts ==
  ASSUME ContractInv, receipts' = receipts, waiting' \subseteq waiting
  PROVE  ReceiptsKept
BY DEF ContractInv, RowsOK, ReceiptsOK, NoBlindReplay, ReceiptsKept

\* A verdict of a reviewer or a human is no check.
LEMMA VerdictReceipt ==
  ASSUME ContractInv, waiting' = waiting, NEW r, AddsReceipt(r), r.kind # "check",
         r.seen = r.contract
  PROVE  ReceiptsKept
<1> USE DEF ContractInv, AddsReceipt
<1>1. Len(receipts) \in Nat /\ DOMAIN receipts = 1 .. Len(receipts)
      /\ DOMAIN receipts' = 1 .. Len(receipts')
  BY ReceiptDomain, LenProperties
<1>2. \A j \in 1 .. Len(receipts'): j \in 1 .. Len(receipts) \/ j = Len(receipts) + 1
  BY <1>1
<1>3. NoBlindReplay'
  <2> SUFFICES ASSUME NEW i \in 1 .. Len(receipts'), NEW j \in 1 .. Len(receipts'),
                      i < j, receipts'[i].kind = "check", receipts'[j].kind = "check",
                      receipts'[i].run = receipts'[j].run,
                      receipts'[i].criterion = receipts'[j].criterion,
                      receipts'[i].contract = receipts'[j].contract
               PROVE  receipts'[i].verdict # "BLOCKED"
    BY <1>1 DEF NoBlindReplay
  <2>1. i \in 1 .. Len(receipts) /\ j \in 1 .. Len(receipts)
    BY <1>2
  <2> QED BY <1>1, <2>1 DEF ReceiptsOK, NoBlindReplay
<1>4. \A i \in waiting: /\ i \in 1 .. Len(receipts')
                         /\ receipts'[i] = receipts[i]
  BY <1>1 DEF ReceiptsOK
<1>5. \A i \in 1 .. Len(receipts'): receipts'[i].kind # "check" =>
        receipts'[i].seen = receipts'[i].contract
  BY <1>1, <1>2 DEF ReceiptsOK
<1> QED BY <1>3, <1>4, <1>5 DEF ReceiptsOK, ReceiptsKept

LEMMA BeginReceipt ==
  ASSUME ContractInv, NEW x \in Run, NEW c \in Criterion, BeginVerification(x, c)
  PROVE  ReceiptsKept
<1> USE DEF ContractInv
<1>1. PICK r: r = NewReceipt(x, c, "check", "BLOCKED", contract, "none")
  OBVIOUS
<1>2. /\ r \in ReceiptRec /\ r.run = x /\ r.criterion = c /\ r.kind = "check"
      /\ r.contract = contract /\ r.verdict = "BLOCKED" /\ r.settled = 0
  <2>1. contract \in ContractRec /\ "BLOCKED" \in Verdict
    BY DEF RowsOK, Verdict
  <2> QED BY <1>1, <2>1, NewReceiptRow
<1>3. AddsReceipt(r)
  BY <1>1, <1>2, AppendReceipt DEF BeginVerification
<1> USE DEF AddsReceipt
<1>4. Len(receipts) \in Nat /\ DOMAIN receipts = 1 .. Len(receipts)
      /\ DOMAIN receipts' = 1 .. Len(receipts')
  BY <1>3, ReceiptDomain, LenProperties
<1>5. \A j \in 1 .. Len(receipts'): j \in 1 .. Len(receipts) \/ j = Len(receipts) + 1
  BY <1>3, <1>4
<1>6. waiting' = waiting \cup {Len(receipts) + 1} /\ Resolved(x, c)
  BY DEF BeginVerification
<1>7. \A i \in Attempts(x, c, "check"): receipts[i].verdict # "BLOCKED"
  <2> SUFFICES ASSUME NEW i \in Attempts(x, c, "check")
               PROVE  receipts[i].verdict # "BLOCKED"
    OBVIOUS
  <2>1. \A j \in Attempts(x, c, "check"):
          /\ j \in DOMAIN receipts /\ receipts[j].kind = "check"
          /\ receipts[j].run = x /\ receipts[j].criterion = c
          /\ receipts[j].contract = contract
    BY DEF Attempts
  <2>2. CASE \A j \in Attempts(x, c, "check"): j <= i
    BY <1>6, <2>2 DEF Latest, Resolved
  <2>3. CASE \E j \in Attempts(x, c, "check"): ~(j <= i)
    <3>1. PICK j \in Attempts(x, c, "check"): i < j
      BY <1>4, <2>1, <2>3
    <3> QED BY <2>1, <3>1 DEF ReceiptsOK, NoBlindReplay
  <2> QED BY <2>2, <2>3
<1>8. NoBlindReplay'
  <2> SUFFICES ASSUME NEW i \in 1 .. Len(receipts'), NEW j \in 1 .. Len(receipts'),
                      i < j, receipts'[i].kind = "check", receipts'[j].kind = "check",
                      receipts'[i].run = receipts'[j].run,
                      receipts'[i].criterion = receipts'[j].criterion,
                      receipts'[i].contract = receipts'[j].contract
               PROVE  receipts'[i].verdict # "BLOCKED"
    BY <1>4 DEF NoBlindReplay
  <2>1. i \in 1 .. Len(receipts) /\ receipts'[i] = receipts[i]
    BY <1>3, <1>4, <1>5
  <2>2. CASE j \in 1 .. Len(receipts)
    BY <1>3, <1>4, <2>1, <2>2 DEF ReceiptsOK, NoBlindReplay
  <2>3. CASE j = Len(receipts) + 1
    <3>1. i \in Attempts(x, c, "check")
      BY <1>2, <1>3, <1>4, <2>1, <2>3 DEF Attempts
    <3> QED BY <1>7, <2>1, <3>1
  <2> QED BY <1>5, <2>2, <2>3
<1>9. \A i \in waiting': /\ i \in 1 .. Len(receipts') /\ receipts'[i].kind = "check"
                          /\ receipts'[i].verdict = "BLOCKED" /\ receipts'[i].settled = 0
  BY <1>2, <1>3, <1>4, <1>6 DEF ReceiptsOK
<1>10. \A i \in 1 .. Len(receipts'): receipts'[i].kind # "check" =>
         receipts'[i].seen = receipts'[i].contract
  BY <1>2, <1>3, <1>4, <1>5 DEF ReceiptsOK
<1> QED BY <1>3, <1>8, <1>9, <1>10 DEF ReceiptsOK, ReceiptsKept

\* An outcome that is written late or reconciled: of an attempt that is still the
\* last one, or no longer BLOCKED.
LEMMA OutcomeReceipt ==
  ASSUME ContractInv, NEW i \in 1 .. Len(receipts), receipts[i].verdict = "BLOCKED",
         NEW v \in Verdict, NEW n \in Nat, Rewrites(i, v, n),
         waiting' \subseteq waiting \ {i}
  PROVE  ReceiptsKept
<1> USE DEF ContractInv, Rewrites
<1>1. Len(receipts) \in Nat /\ DOMAIN receipts = 1 .. Len(receipts)
      /\ DOMAIN receipts' = 1 .. Len(receipts)
  BY ReceiptDomain, LenProperties
<1>2. \A j \in 1 .. Len(receipts):
        /\ receipts'[j].kind = receipts[j].kind /\ receipts'[j].run = receipts[j].run
        /\ receipts'[j].criterion = receipts[j].criterion
        /\ receipts'[j].contract = receipts[j].contract
        /\ receipts'[j].seen = receipts[j].seen
        /\ j # i => receipts'[j].verdict = receipts[j].verdict
  OBVIOUS
<1>3. NoBlindReplay'
  <2> SUFFICES ASSUME NEW h \in 1 .. Len(receipts), NEW j \in 1 .. Len(receipts),
                      h < j, receipts'[h].kind = "check", receipts'[j].kind = "check",
                      receipts'[h].run = receipts'[j].run,
                      receipts'[h].criterion = receipts'[j].criterion,
                      receipts'[h].contract = receipts'[j].contract
               PROVE  receipts'[h].verdict # "BLOCKED"
    BY <1>1 DEF NoBlindReplay
  <2>1. receipts[h].verdict # "BLOCKED"
    BY <1>1, <1>2 DEF ReceiptsOK, NoBlindReplay
  <2> QED BY <1>2, <2>1
<1>4. \A j \in waiting': /\ j \in 1 .. Len(receipts') /\ receipts'[j] = receipts[j]
  BY DEF ReceiptsOK
<1> QED BY <1>2, <1>3, <1>4 DEF ReceiptsOK, ReceiptsKept

LEMMA ReceiptSteps ==
  ASSUME ContractInv, [ContractNext]_vars
  PROVE  ReceiptsKept
<1> USE DEF ContractInv
<1>a. Len(receipts) \in Nat /\ DOMAIN receipts = 1 .. Len(receipts)
  BY ReceiptDomain
<1>1. ASSUME NEW x \in Run, NEW c \in Criterion, BeginVerification(x, c)
      PROVE  ReceiptsKept
  BY <1>1, BeginReceipt
<1>2. ASSUME NEW x \in Run, NEW c \in Criterion, NEW v \in Judgement,
             NEW seen \in ContractRow, NEW e \in Evidence, SubmitReview(x, c, v, seen, e)
      PROVE  ReceiptsKept
  <2>1. PICK r: r = NewReceipt(x, c, "review", v, seen, e)
    OBVIOUS
  <2>2. seen = contract /\ contract \in ContractRec /\ v \in Verdict
        /\ receipts' = Append(receipts, r) /\ waiting' = waiting
    BY <1>2, <2>1, ContractAssumption DEF SubmitReview, SnapshotIsCurrent, RowsOK, Verdict
  <2>3. r \in ReceiptRec /\ r.kind = "review" /\ r.seen = r.contract
    BY <2>1, <2>2, NewReceiptRow
  <2> QED BY <2>2, <2>3, AppendReceipt, VerdictReceipt
<1>3. ASSUME NEW x \in Run, NEW c \in Criterion, NEW v \in Judgement,
             NEW seen \in ContractRow, SubmitHumanReview(x, c, v, seen)
      PROVE  ReceiptsKept
  <2>1. PICK r: r = NewReceipt(x, c, "human", v, seen, "none")
    OBVIOUS
  <2>2. seen = contract /\ contract \in ContractRec /\ v \in Verdict
        /\ receipts' = Append(receipts, r) /\ waiting' = waiting
    BY <1>3, <2>1, ContractAssumption
       DEF SubmitHumanReview, SnapshotIsCurrent, RowsOK, Verdict
  <2>3. r \in ReceiptRec /\ r.kind = "human" /\ r.seen = r.contract
    BY <2>1, <2>2, NewReceiptRow
  <2> QED BY <2>2, <2>3, AppendReceipt, VerdictReceipt
<1>4. ASSUME NEW i \in DOMAIN receipts, NEW v \in Verdict, FinishVerification(i, v)
      PROVE  ReceiptsKept
  <2>1. i \in waiting /\ waiting' = waiting \ {i} /\ receipts[i].verdict = "BLOCKED"
    BY <1>4 DEF FinishVerification, ReceiptsOK
  <2>2. Rewrites(i, v, Len(receipts))
    BY <1>4, <1>a, RewriteReceipt DEF FinishVerification
  <2> QED BY <1>a, <2>1, <2>2, OutcomeReceipt
<1>5. ASSUME NEW i \in DOMAIN receipts, CallLost(i)
      PROVE  ReceiptsKept
  BY <1>5, SameReceipts DEF CallLost
<1>6. ASSUME NEW i \in DOMAIN receipts, ReconcileVerification(i)
      PROVE  ReceiptsKept
  <2>1. receipts[i].verdict = "BLOCKED" /\ receipts[i].settled # 0 /\ waiting' = waiting
    BY <1>6 DEF ReconcileVerification, Reconcilable
  <2>2. i \notin waiting
    BY <2>1 DEF ReceiptsOK
  <2>3. receipts[i] \in ReceiptRec
    BY <1>a, ElementOfSeq DEF RowsOK
  <2>4. PICK n \in Nat: n = receipts[i].settled
    BY <2>3 DEF ReceiptRec
  <2>5. [receipts[i] EXCEPT !.verdict = "FAIL"]
          = [receipts[i] EXCEPT !.verdict = "FAIL", !.settled = n]
    BY <2>3, <2>4 DEF ReceiptRec
  <2>6. receipts' = [receipts EXCEPT ![i] = [@ EXCEPT !.verdict = "FAIL", !.settled = n]]
    BY <1>6, <2>5 DEF ReconcileVerification
  <2>7. "FAIL" \in Verdict
    BY DEF Verdict
  <2>8. Rewrites(i, "FAIL", n)
    BY <1>a, <2>6, <2>7, RewriteReceipt
  <2> QED BY <1>a, <2>1, <2>2, <2>7, <2>8, OutcomeReceipt
<1>7. CASE receipts' = receipts /\ waiting' = waiting
  BY <1>7, SameReceipts
<1>8. CASE UNCHANGED vars
  BY <1>7, <1>8 DEF vars
<1>9. CASE ContractNext
  BY <1>1, <1>2, <1>3, <1>4, <1>5, <1>6, <1>7, <1>9 DEF ContractNext, CompleteRun,
     WriteContext, ProposeRevision, RejectRevision, AckRevision, Claim, StartRun,
     ReadContext, PauseRun, LeaseLapses, ExpireLease, RecoverLease, Handoff, Takeover,
     CancelTask
<1> QED BY <1>8, <1>9

-----------------------------------------------------------------------------
(* Runs.                                                                      *)
States == {"ready", "in_progress", "review", "done", "cancelled"}
RunsKept == runs' \in [Run -> RunRec] /\ state' \in States /\ RunsOK'

LEMMA RunRows == RowsOK => \A y \in Run: runs[y] \in RunRec
BY DEF RowsOK

\* One run gets a new row.
OneRow(x, row) ==
  /\ runs' \in [Run -> RunRec] /\ runs'[x] = row
  /\ \A y \in Run: y # x => runs'[y] = runs[y]

LEMMA NewRow ==
  ASSUME RowsOK, NEW x \in Run, NEW row \in RunRec, runs' = [runs EXCEPT ![x] = row]
  PROVE  OneRow(x, row)
BY DEF RowsOK, OneRow

\* What the actions do to a row.
LEMMA StatusUpdate ==
  ASSUME NEW r \in RunRec, NEW s \in {"paused", "completed"}, NEW row,
         row = [r EXCEPT !.status = s]
  PROVE  /\ row \in RunRec /\ row.status = s
         /\ row.lease = r.lease /\ row.kept = r.kept
         /\ row.known = r.known /\ row.read = r.read
BY DEF RunRec

LEMMA CompletedUpdate ==
  ASSUME NEW r \in RunRec, NEW row,
         row = [r EXCEPT !.status = "completed", !.lease = "none"]
  PROVE  /\ row \in RunRec /\ row.status = "completed" /\ row.lease = "none"
         /\ row.kept = r.kept /\ row.known = r.known /\ row.read = r.read
BY DEF RunRec

LEMMA ReadUpdate ==
  ASSUME NEW r \in RunRec, NEW n \in Nat, NEW row, row = [r EXCEPT !.read = n]
  PROVE  /\ row \in RunRec /\ row.read = n /\ row.status = r.status
         /\ row.lease = r.lease /\ row.kept = r.kept /\ row.known = r.known
BY DEF RunRec

LEMMA LeaseUpdate ==
  ASSUME NEW r \in RunRec, NEW l \in {"held", "lapsed"}, NEW row,
         row = [r EXCEPT !.lease = l]
  PROVE  /\ row \in RunRec /\ row.lease = l /\ row.status = r.status
         /\ row.kept = r.kept /\ row.known = r.known /\ row.read = r.read
BY DEF RunRec

LEMMA LostUpdate ==
  ASSUME NEW r \in RunRec, NEW row, row = [r EXCEPT !.lease = "lost", !.kept = FALSE]
  PROVE  /\ row \in RunRec /\ row.lease = "lost" /\ row.status = r.status
         /\ row.kept = FALSE /\ row.known = r.known /\ row.read = r.read
BY DEF RunRec

LEMMA FreshRows ==
  ASSUME RowsOK
  PROVE  /\ EndedRun \in RunRec /\ EndedRun.status = "ended"
         /\ EndedRun.lease = "none" /\ EndedRun.kept = FALSE
         /\ NewRun \in RunRec /\ NewRun.status = "running" /\ NewRun.lease = "held"
         /\ NewRun.kept = TRUE /\ NewRun.known = spec
BY DEF RowsOK, ContractRec, RunRec, EndedRun, NoRun, NewRun

\* A row of a run that is not completed changes: it holds the role only if it
\* did or nobody else does.
Changes(x, row) ==
  /\ row \in RunRec /\ OneRow(x, row)
  /\ runs[x].status # "completed" /\ row.status # "completed"
  /\ row.lease \in {"held", "lapsed"} =>
       /\ Active(x) \/ ~Terminal
       /\ \A y \in Run: Active(y) => y = x
       /\ row.status \in {"claimed", "running", "paused"}
  /\ row.status \in {"running", "paused"} /\ row.kept => row.lease \in {"held", "lapsed"}

\* No task ends by the way.
Goes == state' = state \/ (~Terminal /\ state' \in {"ready", "in_progress", "review"})

LEMMA ChangedRow ==
  ASSUME ContractInv, NEW x \in Run, NEW row, Changes(x, row), Goes, record' = record
  PROVE  RunsKept
<1> USE DEF Changes, OneRow
<1>a. RunsOK /\ state \in States /\ state' \in States
  BY DEF ContractInv, RowsOK, States, Goes
<1>1. \A y, z \in Run: Active(y)' /\ Active(z)' => y = z
  BY <1>a DEF RunsOK, Active
<1>2. \A y \in Run: Active(y)' => ~Terminal'
  BY <1>a DEF RunsOK, Active, Terminal, Goes
<1>3. \A y \in Run: /\ Live(y)' /\ runs'[y].kept => Active(y)'
                    /\ Active(y)' => Live(y)' \/ runs'[y].status = "claimed"
  BY <1>a DEF RunsOK, Active, Live
<1>4. state' = "done" => record'.run \in Run /\ runs'[record'.run].status = "completed"
  BY <1>a DEF RunsOK, Goes, Terminal
<1> QED BY <1>a, <1>1, <1>2, <1>3, <1>4 DEF RunsOK, RunsKept

\* What one step of an executor does to its row.
LEMMA ExecutorRow ==
  ASSUME ContractInv, NEW x \in Run,
         \/ Claim(x) \/ StartRun(x) \/ ReadContext(x) \/ PauseRun(x)
         \/ LeaseLapses(x) \/ ExpireLease(x) \/ RecoverLease(x) \/ Handoff(x)
  PROVE  /\ Goes /\ UNCHANGED <<record, receipts, waiting, spec, contract, revisions>>
         /\ \E row: /\ Changes(x, row)
                    /\ \/ row.status \notin {"running", "paused"}
                       \/ row.kept = FALSE
                       \/ row.known = spec
                       \/ Live(x) /\ runs[x].kept /\ row.known = runs[x].known
<1>a. RowsOK /\ RunsOK /\ runs[x] \in RunRec /\ spec \in Nat /\ contract.context \in Nat
  BY RunRows DEF ContractInv, RowsOK, ContractRec
<1>b. /\ Active(x) => ~Terminal /\ (Live(x) \/ runs[x].status = "claimed")
      /\ \A y \in Run: Active(x) /\ Active(y) => y = x
      /\ Live(x) /\ runs[x].kept => Active(x)
  BY <1>a DEF RunsOK
<1>c. runs[x].kept \in BOOLEAN
  BY <1>a DEF RunRec
<1>1. CASE Claim(x)
  <2>1. PICK row: row = [NoRun EXCEPT !.status = "claimed", !.lease = "held", !.kept = TRUE]
    OBVIOUS
  <2>2. row \in RunRec /\ row.status = "claimed" /\ row.lease = "held"
    BY <2>1 DEF RunRec, NoRun
  <2>3. OneRow(x, row) /\ ~Terminal /\ runs[x].status = "none"
        /\ \A y \in Run: ~Active(y)
    BY <1>1, <1>a, <2>1, <2>2, NewRow DEF Claim, Unused
  <2> QED BY <1>1, <2>2, <2>3 DEF Claim, Changes, Goes, revisionVars
<1>2. CASE StartRun(x)
  <2>1. PICK row \in RunRec: row = NewRun /\ row.status = "running" /\ row.lease = "held"
                             /\ row.known = spec
    BY <1>a, FreshRows
  <2>2. OneRow(x, row) /\ runs[x].status = "claimed" /\ Active(x)
    BY <1>2, <1>a, <2>1, NewRow DEF StartRun, Held, Active
  <2> QED BY <1>2, <1>b, <2>1, <2>2 DEF StartRun, Changes, Goes, revisionVars
<1>3. CASE ReadContext(x)
  <2>1. PICK row: row = [runs[x] EXCEPT !.read = contract.context]
    OBVIOUS
  <2>2. /\ row \in RunRec /\ row.status = runs[x].status /\ row.lease = runs[x].lease
        /\ row.kept = runs[x].kept /\ row.known = runs[x].known
    BY <1>a, <2>1, ReadUpdate
  <2>3. OneRow(x, row) /\ Live(x)
    BY <1>3, <1>a, <2>1, <2>2, NewRow DEF ReadContext
  <2> QED BY <1>3, <1>b, <1>c, <2>2, <2>3
          DEF ReadContext, Changes, Goes, revisionVars, Live, Active
<1>4. CASE PauseRun(x)
  <2>1. PICK row: row = [runs[x] EXCEPT !.status = "paused"]
    OBVIOUS
  <2>2. /\ row \in RunRec /\ row.status = "paused" /\ row.lease = runs[x].lease
        /\ row.kept = runs[x].kept /\ row.known = runs[x].known
    BY <1>a, <2>1, StatusUpdate
  <2>3. OneRow(x, row) /\ runs[x].status = "running"
    BY <1>4, <1>a, <2>1, <2>2, NewRow DEF PauseRun
  <2> QED BY <1>4, <1>b, <1>c, <2>2, <2>3
          DEF PauseRun, Changes, Goes, revisionVars, Live, Active
<1>5. CASE LeaseLapses(x)
  <2>1. PICK row: row = [runs[x] EXCEPT !.lease = "lapsed"]
    OBVIOUS
  <2>2. /\ row \in RunRec /\ row.status = runs[x].status /\ row.lease = "lapsed"
        /\ row.kept = runs[x].kept /\ row.known = runs[x].known
    BY <1>a, <2>1, LeaseUpdate
  <2>3. OneRow(x, row) /\ Active(x)
    BY <1>5, <1>a, <2>1, <2>2, NewRow DEF LeaseLapses, Held, Active
  <2> QED BY <1>5, <1>b, <1>c, <2>2, <2>3
          DEF LeaseLapses, Changes, Goes, revisionVars, Live
<1>6. CASE ExpireLease(x)
  <2>1. PICK row: row = [runs[x] EXCEPT !.lease = "lost", !.kept = FALSE]
    OBVIOUS
  <2>2. /\ row \in RunRec /\ row.status = runs[x].status /\ row.lease = "lost"
        /\ row.kept = FALSE
    BY <1>a, <2>1, LostUpdate
  <2>3. OneRow(x, row) /\ Active(x)
    BY <1>6, <1>a, <2>1, <2>2, NewRow DEF ExpireLease, Active
  <2> QED BY <1>6, <1>b, <2>2, <2>3 DEF ExpireLease, Changes, Goes, revisionVars, Live
<1>7. CASE RecoverLease(x)
  <2>1. PICK row: row = [runs[x] EXCEPT !.lease = "held"]
    OBVIOUS
  <2>2. /\ row \in RunRec /\ row.status = runs[x].status /\ row.lease = "held"
        /\ row.kept = runs[x].kept /\ row.known = runs[x].known
    BY <1>a, <2>1, LeaseUpdate
  <2>3. OneRow(x, row) /\ Live(x) /\ ~Terminal /\ \A y \in Run: Active(y) => y = x
    BY <1>7, <1>a, <2>1, <2>2, NewRow DEF RecoverLease, Terminal
  <2> QED BY <1>7, <1>c, <2>2, <2>3 DEF RecoverLease, Changes, Goes, revisionVars, Live
<1>8. CASE Handoff(x)
  <2>1. PICK row \in RunRec: row = EndedRun /\ row.status = "ended" /\ row.lease = "none"
    BY <1>a, FreshRows
  <2>2. OneRow(x, row) /\ Live(x)
    BY <1>8, <1>a, <2>1, NewRow DEF Handoff
  <2> QED BY <1>8, <2>1, <2>2 DEF Handoff, Changes, Goes, Terminal, revisionVars, Live
<1> QED BY <1>1, <1>2, <1>3, <1>4, <1>5, <1>6, <1>7, <1>8

LEMMA AckRow ==
  ASSUME ContractInv, NEW x \in Run, NEW v \in Nat, AckRevision(v, x)
  PROVE  /\ Goes /\ record' = record /\ spec' = v /\ ~Terminal /\ Active(x)
         /\ \E row: Changes(x, row) /\ row.known = v
<1>a. RowsOK /\ RunsOK /\ runs[x] \in RunRec /\ contract.context \in Nat
  BY RunRows DEF ContractInv, RowsOK, ContractRec
<1>0. PICK n \in Nat: n = contract.context + 1
  BY <1>a
<1>1. PICK row: row = [runs[x] EXCEPT !.known = v, !.read = n]
  OBVIOUS
<1>2. /\ row \in RunRec /\ row.status = runs[x].status /\ row.lease = runs[x].lease
      /\ row.kept = runs[x].kept /\ row.known = v
  <2>1. PICK r \in RunRec: r = runs[x]
    BY <1>a
  <2>2. row = [r EXCEPT !.known = v, !.read = n]
    BY <1>1, <2>1
  <2>3. /\ row \in RunRec /\ row.status = r.status /\ row.lease = r.lease
        /\ row.kept = r.kept /\ row.known = v
    BY <2>2 DEF RunRec
  <2> QED BY <2>1, <2>3
<1>3. OneRow(x, row) /\ Live(x) /\ Active(x) /\ spec' = v
  BY <1>a, <1>0, <1>1, <1>2, NewRow DEF AckRevision, Apply, Held, Active
<1>4. ~Terminal /\ \A y \in Run: Active(y) => y = x
  BY <1>a, <1>3 DEF RunsOK
<1> QED BY <1>2, <1>3, <1>4 DEF AckRevision, Changes, Goes, Live, Active

\* A takeover leaves the role to the run it starts.
LEMMA TakeoverRows ==
  ASSUME ContractInv, NEW x \in Run, Takeover(x)
  PROVE  /\ runs' \in [Run -> RunRec] /\ state' = state /\ ~Terminal
         /\ Active(x)' /\ Live(x)' /\ runs'[x].known = spec
         /\ \A y \in Run: y # x => ~Live(y)' /\ ~Active(y)'
<1>a. RowsOK /\ RunsOK /\ runs \in [Run -> RunRec]
  BY DEF ContractInv, RowsOK
<1>1. /\ runs' = [y \in Run |-> IF y = x THEN NewRun
                               ELSE IF Live(y) \/ runs[y].status = "claimed" THEN EndedRun
                               ELSE runs[y]]
      /\ state' = state /\ state = "in_progress"
  BY DEF Takeover
<1>2. runs' \in [Run -> RunRec]
  BY <1>a, <1>1, FreshRows
<1>3. \A y \in Run: y # x => ~Live(y)' /\ ~Active(y)'
  BY <1>a, <1>1, FreshRows DEF RunsOK, Live, Active
<1> QED BY <1>a, <1>1, <1>2, <1>3, FreshRows DEF Live, Active, Terminal

LEMMA CompletedRow ==
  ASSUME ContractInv, NEW x \in Run, NEW e \in Evidence, NEW w, CompleteRun(x, e, w)
  PROVE  /\ \E row \in RunRec:
              /\ OneRow(x, row) /\ row.status = "completed" /\ row.lease = "none"
              /\ row.kept = runs[x].kept /\ row.known = runs[x].known
              /\ row.read = runs[x].read
         /\ Live(x) /\ Active(x) /\ ~Terminal /\ ~PendingRevision
         /\ state' = "done" /\ record'.run = x /\ record'.contract = contract
         /\ UNCHANGED <<spec, revisions>>
<1>a. RowsOK /\ RunsOK /\ runs[x] \in RunRec
  BY RunRows DEF ContractInv
<1>1. PICK row: row = [runs[x] EXCEPT !.status = "completed", !.lease = "none"]
  OBVIOUS
<1>2. /\ row \in RunRec /\ row.status = "completed" /\ row.lease = "none"
      /\ row.kept = runs[x].kept /\ row.known = runs[x].known /\ row.read = runs[x].read
  BY <1>a, <1>1, CompletedUpdate
<1>3. OneRow(x, row)
  BY <1>a, <1>1, <1>2, NewRow DEF CompleteRun
<1> QED BY <1>2, <1>3 DEF CompleteRun, Ready, Held, Active, revisionVars

LEMMA CancelRows ==
  ASSUME ContractInv, CancelTask
  PROVE  /\ runs' \in [Run -> RunRec] /\ state' = "cancelled" /\ spec' = spec
         /\ \A y \in Run: ~Live(y)' /\ ~Active(y)'
<1>a. RowsOK /\ runs \in [Run -> RunRec]
  BY DEF ContractInv, RowsOK
<1>1. /\ runs' = [y \in Run |-> IF Live(y) \/ Active(y) THEN EndedRun ELSE runs[y]]
      /\ state' = "cancelled" /\ spec' = spec
  BY DEF CancelTask
<1>2. runs' \in [Run -> RunRec]
  BY <1>a, <1>1, FreshRows
<1> QED BY <1>a, <1>1, <1>2, FreshRows DEF Live, Active

LEMMA RunSteps ==
  ASSUME ContractInv, [ContractNext]_vars
  PROVE  RunsKept
<1>a. RowsOK /\ RunsOK /\ runs \in [Run -> RunRec] /\ state \in States
  BY DEF ContractInv, RowsOK, States
<1>1. CASE UNCHANGED <<runs, state, record>>
  BY <1>1, <1>a DEF RunsOK, RunsKept, Live, Active, Terminal
<1>2. ASSUME NEW x \in Run, NEW c \in Criterion, NEW v \in Judgement,
             NEW seen \in ContractRow, NEW e \in Evidence, SubmitReview(x, c, v, seen, e)
      PROVE  RunsKept
  <2>1. runs' = runs /\ state' \in {"in_progress", "review"}
    BY <1>2 DEF SubmitReview
  <2> QED BY <1>a, <2>1 DEF RunsOK, RunsKept, States, Live, Active, Terminal
<1>3. ASSUME NEW x \in Run, NEW e \in Evidence, NEW w \in SUBSET Waivable,
             CompleteRun(x, e, w)
      PROVE  RunsKept
  <2>1. PICK row \in RunRec:
          OneRow(x, row) /\ row.status = "completed" /\ row.lease = "none"
    BY <1>3, CompletedRow
  <2>2. Active(x) /\ state' = "done" /\ record'.run = x
    BY <1>3, CompletedRow
  <2>3. \A y \in Run: ~Active(y)'
    BY <1>a, <2>1, <2>2 DEF RunsOK, Active, OneRow
  <2>4. \A y \in Run: ~(Live(y)' /\ runs'[y].kept)
    BY <1>a, <2>1, <2>2 DEF RunsOK, Active, Live, OneRow
  <2> QED BY <2>1, <2>2, <2>3, <2>4 DEF RunsOK, RunsKept, States, OneRow
<1>4. ASSUME NEW x \in Run, NEW v \in Nat, AckRevision(v, x)
      PROVE  RunsKept
  BY <1>4, AckRow, ChangedRow
<1>5. ASSUME NEW x \in Run, Takeover(x)
      PROVE  RunsKept
  <2>1. /\ runs' \in [Run -> RunRec] /\ state' = state /\ ~Terminal
        /\ Active(x)' /\ Live(x)'
        /\ \A y \in Run: y # x => ~Live(y)' /\ ~Active(y)'
    BY <1>5, TakeoverRows
  <2> QED BY <1>a, <2>1 DEF RunsOK, RunsKept, Terminal
<1>6. CASE CancelTask
  <2>1. /\ runs' \in [Run -> RunRec] /\ state' = "cancelled"
        /\ \A y \in Run: ~Live(y)' /\ ~Active(y)'
    BY <1>6, CancelRows
  <2> QED BY <2>1 DEF RunsOK, RunsKept, States
<1>7. ASSUME NEW x \in Run,
             \/ Claim(x) \/ StartRun(x) \/ ReadContext(x) \/ PauseRun(x)
             \/ LeaseLapses(x) \/ ExpireLease(x) \/ RecoverLease(x) \/ Handoff(x)
      PROVE  RunsKept
  <2>1. Goes /\ record' = record /\ \E row: Changes(x, row)
    BY <1>7, ExecutorRow
  <2> QED BY <2>1, ChangedRow
<1>8. \A v \in 2 .. Len(revisions) + 1: v \in Nat
  BY <1>a, RevisionDomain
<1>9. CASE UNCHANGED vars
  BY <1>1, <1>9 DEF vars
<1>10. CASE ContractNext
  BY <1>1, <1>2, <1>3, <1>4, <1>5, <1>6, <1>7, <1>8, <1>10 DEF ContractNext,
     BeginVerification, SubmitHumanReview, FinishVerification, CallLost,
     ReconcileVerification, WriteContext, ProposeRevision, RejectRevision
<1> QED BY <1>9, <1>10

-----------------------------------------------------------------------------
(* Revisions.                                                                 *)
RevisionsKept ==
  /\ spec' \in Nat /\ contract' \in ContractRec /\ revisions' \in Seq(RevisionRec)
  /\ RevisionsOK'

\* The revision of version v becomes the contract, on the version and context
\* its author saw; v is the last one or a new one.
LEMMA AppliedRevision ==
  ASSUME ContractInv, NEW v \in Nat, v - 1 \in 1 .. Len(revisions) + 1,
         v - 1 >= Len(revisions), NEW r \in RevisionRec, Apply(v, r),
         r.base = spec, r.before = contract.context,
         \A w \in 1 .. Len(revisions): w # v - 1 => revisions[w].status # "pending_ack"
  PROVE  RevisionsKept
<1> USE DEF ContractInv
<1>1. PICK a \in RevisionRec:
        /\ a.status = "applied" /\ a.base = r.base
        /\ a.before = r.before /\ a.after = contract.context + 1
        /\ AppliedAs(a, v)
  <2>1. RowsOK
    OBVIOUS
  <2> HIDE DEF ContractInv
  <2> QED BY <2>1, ApplyFacts
<1>2. /\ revisions' \in Seq(RevisionRec)
      /\ Len(revisions') = IF v - 1 = Len(revisions) + 1 THEN Len(revisions) + 1
                           ELSE Len(revisions)
      /\ \A n \in 1 .. Len(revisions'):
           revisions'[n] = IF n = v - 1 THEN a ELSE revisions[n]
      /\ spec' = v
      /\ contract' \in ContractRec /\ contract'.context = contract.context + 1
  BY <1>1 DEF AppliedAs
<1>3. Len(revisions) \in Nat /\ DOMAIN revisions = 1 .. Len(revisions)
      /\ DOMAIN revisions' = 1 .. Len(revisions')
  BY <1>2, RevisionDomain, LenProperties
<1>4. contract.context \in Nat /\ spec \in Nat
  BY DEF RowsOK, ContractRec
<1>5. Len(revisions') = v - 1
  BY <1>2, <1>3
<1>6. \A w \in 1 .. Len(revisions'): w # v - 1 =>
        w \in 1 .. Len(revisions) /\ revisions'[w] = revisions[w] /\ w + 1 < v + 1
  BY <1>2, <1>3, <1>5
<1>7. revisions'[v - 1] = a
  BY <1>2, <1>3, <1>5
<1>8. \A w \in 1 .. Len(revisions): revisions[w] \in RevisionRec
  BY ElementOfSeq DEF RowsOK
<1>9. \A w \in 1 .. Len(revisions'): w # v - 1 =>
        /\ revisions'[w].status = "applied" =>
             /\ w + 1 <= spec /\ revisions'[w].after <= contract.context
             /\ revisions'[w].after \in Nat
        /\ revisions'[w].status # "pending_ack"
  BY <1>6, <1>8 DEF RevisionsOK, RevisionRec
<1>10. spec' <= Len(revisions') + 1
  BY <1>2, <1>5
<1>11. \A w \in 1 .. Len(revisions'):
         /\ revisions'[w].status = "applied" =>
              w + 1 <= spec' /\ revisions'[w].after <= contract'.context
         /\ revisions'[w].status = "pending_ack" => w = Len(revisions')
  <2> SUFFICES ASSUME NEW w \in 1 .. Len(revisions')
               PROVE  /\ revisions'[w].status = "applied" =>
                           w + 1 <= spec' /\ revisions'[w].after <= contract'.context
                      /\ revisions'[w].status = "pending_ack" => w = Len(revisions')
    OBVIOUS
  <2>1. CASE w = v - 1
    BY <1>1, <1>2, <1>4, <1>5, <1>7, <2>1
  <2>2. CASE w # v - 1
    BY <1>2, <1>4, <1>6, <1>9, <2>2
  <2> QED BY <2>1, <2>2
<1>12. RevisionsFormALine'
  <2> SUFFICES ASSUME NEW n \in 1 .. Len(revisions'), revisions'[n].status = "applied"
               PROVE  /\ revisions'[n].after = revisions'[n].before + 1
                      /\ \A w \in 1 .. Len(revisions'):
                           revisions'[w].status = "applied" /\ w < n =>
                             /\ revisions'[n].base >= w + 1
                             /\ revisions'[n].before >= revisions'[w].after
    BY <1>3 DEF RevisionsFormALine
  <2>1. CASE n = v - 1
    <3>1. revisions'[n].after = revisions'[n].before + 1 /\ revisions'[n].base = spec
          /\ revisions'[n].before = contract.context
      BY <1>1, <1>7, <2>1
    <3>2. ASSUME NEW w \in 1 .. Len(revisions'), revisions'[w].status = "applied", w < n
          PROVE  /\ revisions'[n].base >= w + 1
                 /\ revisions'[n].before >= revisions'[w].after
      <4>1. w # v - 1
        BY <2>1, <3>2
      <4>2. w + 1 <= spec /\ revisions'[w].after <= contract.context
        BY <1>9, <3>2, <4>1
      <4> QED BY <1>4, <1>9, <3>1, <3>2, <4>1, <4>2
    <3> QED BY <3>1, <3>2
  <2>2. CASE n # v - 1
    <3>1. n \in 1 .. Len(revisions) /\ revisions'[n] = revisions[n]
      BY <1>6, <2>2
    <3>2. \A w \in 1 .. Len(revisions'): w < n =>
            w \in 1 .. Len(revisions) /\ revisions'[w] = revisions[w]
      BY <1>3, <1>5, <1>6, <2>2
    <3> QED BY <1>3, <3>1, <3>2 DEF RevisionsOK, RevisionsFormALine
  <2> QED BY <2>1, <2>2
<1> QED BY <1>2, <1>10, <1>11, <1>12 DEF RevisionsOK, RevisionsKept

\* Revisions that wait are withdrawn.
Withdrawn ==
  /\ revisions' \in Seq(RevisionRec) /\ Len(revisions') = Len(revisions)
  /\ \A w \in 1 .. Len(revisions): \/ revisions'[w] = revisions[w]
                                   \/ revisions'[w].status = "rejected"

LEMMA WithdrawnRevision ==
  ASSUME ContractInv, Withdrawn, spec' = spec, contract' = contract
  PROVE  RevisionsKept
<1> USE DEF ContractInv, Withdrawn
<1>1. Len(revisions) \in Nat /\ DOMAIN revisions = 1 .. Len(revisions)
      /\ DOMAIN revisions' = 1 .. Len(revisions)
  BY RevisionDomain, LenProperties
<1>2. \A w \in 1 .. Len(revisions):
        revisions'[w].status \in {"applied", "pending_ack"} => revisions'[w] = revisions[w]
  OBVIOUS
<1>3. RevisionsFormALine'
  BY <1>1, <1>2 DEF RevisionsOK, RevisionsFormALine
<1> QED BY <1>1, <1>2, <1>3 DEF RevisionsOK, RevisionsKept, RowsOK

LEMMA RejectedRow ==
  ASSUME NEW r \in RevisionRec
  PROVE  /\ [r EXCEPT !.status = "rejected"] \in RevisionRec
         /\ [r EXCEPT !.status = "rejected"].status = "rejected"
BY DEF RevisionRec

LEMMA RevisionSteps ==
  ASSUME ContractInv, [ContractNext]_vars
  PROVE  RevisionsKept
<1> USE DEF ContractInv
<1>a. /\ Len(revisions) \in Nat /\ DOMAIN revisions = 1 .. Len(revisions)
      /\ \A w \in 1 .. Len(revisions): revisions[w] \in RevisionRec
  BY RevisionDomain, ElementOfSeq DEF RowsOK
<1>b. spec \in Nat /\ contract.context \in Nat
  BY DEF RowsOK, ContractRec
<1>1. CASE UNCHANGED revisionVars
  <2>1. Withdrawn /\ spec' = spec /\ contract' = contract
    BY <1>1 DEF revisionVars, Withdrawn, RowsOK
  <2> QED BY <2>1, WithdrawnRevision
<1>2. CASE WriteContext
  <2>1. contract' \in ContractRec /\ contract'.context = contract.context + 1
    BY <1>2 DEF WriteContext, RowsOK, ContractRec
  <2>2. revisions' = revisions /\ spec' = spec
    BY <1>2 DEF WriteContext
  <2>3. RevisionsFormALine'
    BY <2>2 DEF RevisionsOK, RevisionsFormALine
  <2>4. \A w \in 1 .. Len(revisions): revisions[w].status = "applied" =>
          revisions[w].after <= contract'.context
    <3>1. \A w \in 1 .. Len(revisions): revisions[w].status = "applied" =>
            revisions[w].after <= contract.context
      BY DEF RevisionsOK
    <3>2. \A w \in 1 .. Len(revisions): revisions[w].after \in Nat
      BY <1>a DEF RevisionRec
    <3> QED BY <1>b, <2>1, <3>1, <3>2
  <2>5. RevisionsOK'
    BY <2>2, <2>3, <2>4 DEF RevisionsOK
  <2> QED BY <2>1, <2>2, <2>5 DEF RowsOK, RevisionsKept
<1>3. ASSUME NEW expected \in Version, ProposeRevision(expected)
      PROVE  RevisionsKept
  <2>1. PICK r: r = [status |-> "pending_ack", base |-> spec,
                     before |-> contract.context, after |-> 0]
    OBVIOUS
  <2>2. r \in RevisionRec /\ r.status = "pending_ack" /\ r.base = spec
        /\ r.before = contract.context
    BY <1>b, <2>1 DEF RevisionRec
  <2>3. \A w \in 1 .. Len(revisions): revisions[w].status # "pending_ack"
    BY <1>3, <1>a DEF ProposeRevision, PendingRevision
  <2>4. ASSUME revisions' = Append(revisions, r), UNCHANGED <<spec, contract>>
        PROVE  RevisionsKept
    <3>1. /\ revisions' \in Seq(RevisionRec) /\ Len(revisions') = Len(revisions) + 1
          /\ \A j \in 1 .. Len(revisions): revisions'[j] = revisions[j]
          /\ revisions'[Len(revisions) + 1] = r
      BY <2>2, <2>4, AppendProperties DEF RowsOK
    <3>2. DOMAIN revisions' = 1 .. Len(revisions) + 1
      BY <3>1, LenProperties
    <3>3. \A w \in 1 .. Len(revisions) + 1: revisions'[w].status = "applied" =>
            w \in 1 .. Len(revisions) /\ revisions'[w] = revisions[w]
      BY <1>a, <2>2, <3>1
    <3>4. RevisionsFormALine'
      BY <1>a, <3>2, <3>3 DEF RevisionsOK, RevisionsFormALine
    <3>5. \A w \in 1 .. Len(revisions) + 1: revisions'[w].status = "pending_ack" =>
            w = Len(revisions) + 1
      BY <1>a, <2>3, <3>1
    <3>6. spec' <= Len(revisions') + 1
      <4>1. spec <= Len(revisions) + 1
        BY DEF RevisionsOK
      <4> HIDE DEF ContractInv
      <4> QED BY <1>a, <1>b, <2>4, <3>1, <4>1
    <3>7. RevisionsOK'
      BY <2>4, <3>1, <3>3, <3>4, <3>5, <3>6 DEF RevisionsOK
    <3> QED BY <2>4, <3>1, <3>7 DEF RowsOK, RevisionsKept
  <2>5. ASSUME Apply(Len(revisions) + 2, r)
        PROVE  RevisionsKept
    <3>1. PICK v \in Nat: v = Len(revisions) + 2
      BY <1>a
    <3>2. v - 1 \in 1 .. Len(revisions) + 1 /\ v - 1 >= Len(revisions) /\ Apply(v, r)
      BY <1>a, <2>5, <3>1
    <3> QED BY <2>2, <2>3, <3>2, AppliedRevision
  <2> QED BY <1>3, <2>1, <2>4, <2>5 DEF ProposeRevision
<1>4. ASSUME NEW v \in 2 .. Len(revisions) + 1, NEW x \in Run, AckRevision(v, x)
      PROVE  RevisionsKept
  <2>1. v \in Nat /\ v - 1 \in 1 .. Len(revisions)
    BY <1>a
  <2>2. PICK r \in RevisionRec: r = revisions[v - 1]
    BY <1>a, <2>1
  <2>3. r.status = "pending_ack" /\ r.base = spec /\ r.before = contract.context
        /\ Apply(v, r)
    BY <1>4, <2>2 DEF AckRevision, Applicable
  <2>4. v - 1 = Len(revisions)
    BY <2>1, <2>2, <2>3 DEF RevisionsOK
  <2>5. \A w \in 1 .. Len(revisions): w # v - 1 => revisions[w].status # "pending_ack"
    BY <2>4 DEF RevisionsOK
  <2>6. v - 1 \in 1 .. Len(revisions) + 1 /\ v - 1 >= Len(revisions)
    BY <1>a, <2>1, <2>4
  <2> QED BY <2>1, <2>3, <2>5, <2>6, AppliedRevision
<1>5. ASSUME NEW v \in 2 .. Len(revisions) + 1, RejectRevision(v)
      PROVE  RevisionsKept
  <2>1. v - 1 \in 1 .. Len(revisions)
    BY <1>a
  <2>2. PICK k \in 1 .. Len(revisions): k = v - 1
    BY <2>1
  <2>3. PICK r: r = [revisions[k] EXCEPT !.status = "rejected"]
    OBVIOUS
  <2>4. r \in RevisionRec /\ r.status = "rejected"
    BY <1>a, <2>3, RejectedRow
  <2>5. revisions' = [revisions EXCEPT ![k] = r] /\ spec' = spec /\ contract' = contract
    BY <1>5, <2>2, <2>3 DEF RejectRevision
  <2>6. Withdrawn
    BY <2>4, <2>5, ExceptSeq DEF RowsOK, Withdrawn
  <2> QED BY <2>5, <2>6, WithdrawnRevision
<1>6. ASSUME CancelTask
      PROVE  RevisionsKept
  <2>1. /\ spec' = spec /\ contract' = contract
        /\ revisions' = [w \in 1 .. Len(revisions) |->
             IF revisions[w].status = "pending_ack"
             THEN [revisions[w] EXCEPT !.status = "rejected"] ELSE revisions[w]]
    BY <1>6, <1>a DEF CancelTask
  <2>2. \A w \in 1 .. Len(revisions):
          (IF revisions[w].status = "pending_ack"
           THEN [revisions[w] EXCEPT !.status = "rejected"] ELSE revisions[w])
            \in RevisionRec
    BY <1>a, RejectedRow
  <2>3. revisions' \in [1 .. Len(revisions) -> RevisionRec]
    BY <2>1, <2>2
  <2>4. revisions' \in Seq(RevisionRec)
    BY <1>a, <2>3, SeqDef
  <2>5. Len(revisions') = Len(revisions)
    <3>1. DOMAIN revisions' = 1 .. Len(revisions)
      BY <2>3
    <3>2. DOMAIN revisions' = 1 .. Len(revisions') /\ Len(revisions') \in Nat
      BY <2>4, LenProperties
    <3> QED BY <1>a, <3>1, <3>2
  <2>6. \A w \in 1 .. Len(revisions): \/ revisions'[w] = revisions[w]
                                      \/ revisions'[w].status = "rejected"
    BY <1>a, <2>1, RejectedRow
  <2> QED BY <2>1, <2>4, <2>5, <2>6, WithdrawnRevision DEF Withdrawn
<1>7. CASE UNCHANGED vars
  BY <1>1, <1>7 DEF vars, revisionVars
<1>8. CASE ContractNext
  BY <1>1, <1>2, <1>3, <1>4, <1>5, <1>6, <1>8 DEF ContractNext,
     BeginVerification, SubmitReview, SubmitHumanReview, FinishVerification, CallLost,
     ReconcileVerification, CompleteRun, Claim, StartRun, ReadContext, PauseRun,
     LeaseLapses, ExpireLease, RecoverLease, Handoff, Takeover
<1> QED BY <1>7, <1>8

-----------------------------------------------------------------------------
(* What the executor knows.                                                   *)
\* A finished task keeps its contract, its record and the run that finished it.
StaysDone ==
  /\ state = "done" /\ record' = record /\ spec' = spec
  /\ runs'[record.run] = runs[record.run]

LEMMA StillKnows ==
  ASSUME ContractInv,
         \A y \in Run: Live(y)' => runs'[y].kept = FALSE \/ runs'[y].known = spec',
         state' = "done" => StaysDone,
         Terminal' => ~PendingRevision'
  PROVE  ExecutorKnowsContract'
BY DEF ContractInv, ExecutorKnowsContract, Agreed, StaysDone

LEMMA SameProposals ==
  ASSUME ContractInv, revisions' = revisions, Terminal' => Terminal
  PROVE  Terminal' => ~PendingRevision'
BY DEF ContractInv, ExecutorKnowsContract, PendingRevision

LEMMA KnowSteps ==
  ASSUME ContractInv, [ContractNext]_vars
  PROVE  ExecutorKnowsContract'
<1>a. /\ RowsOK /\ RunsOK /\ ExecutorKnowsContract
      /\ \A y \in Run: Live(y) => runs[y].kept = FALSE \/ runs[y].known = spec
      /\ \A y \in Run: runs[y].kept \in BOOLEAN
  BY RunRows DEF ContractInv, ExecutorKnowsContract, Agreed, RunRec
<1>1. ASSUME UNCHANGED <<runs, spec, revisions>>,
             UNCHANGED <<state, record>> \/ state' \in {"in_progress", "review"}
      PROVE  ExecutorKnowsContract'
  <2>1. Terminal' => ~PendingRevision'
    BY <1>1, SameProposals DEF Terminal
  <2> QED BY <1>a, <1>1, <2>1, StillKnows DEF Live, StaysDone
<1>2. ASSUME NEW x \in Run, NEW e \in Evidence, NEW w \in SUBSET Waivable,
             CompleteRun(x, e, w)
      PROVE  ExecutorKnowsContract'
  <2>1. PICK row \in RunRec:
          /\ OneRow(x, row) /\ row.status = "completed" /\ row.kept = runs[x].kept
          /\ row.known = runs[x].known /\ row.read = runs[x].read
    BY <1>2, CompletedRow
  <2>2. /\ Live(x) /\ ~PendingRevision /\ record'.run = x /\ record'.contract = contract
        /\ UNCHANGED <<spec, revisions>>
    BY <1>2, CompletedRow
  <2>3. Criterion # {} => runs[x].read = contract.context
    BY <1>2 DEF CompleteRun
  <2>4. \A y \in Run: Live(y)' => Agreed(y)'
    BY <1>a, <2>1, <2>2 DEF Live, Agreed, OneRow
  <2>5. Agreed(x)' /\ (Criterion # {} => runs'[x].read = contract.context)
    BY <1>a, <2>1, <2>2, <2>3 DEF Agreed, OneRow
  <2> QED BY <2>2, <2>4, <2>5 DEF ExecutorKnowsContract, PendingRevision
<1>3. ASSUME NEW v \in 2 .. Len(revisions) + 1, NEW x \in Run, AckRevision(v, x)
      PROVE  ExecutorKnowsContract'
  <2>1. v \in Nat
    BY <1>a, RevisionDomain
  <2>2. /\ Goes /\ record' = record /\ spec' = v /\ ~Terminal /\ Active(x)
        /\ \E row: Changes(x, row) /\ row.known = v
    BY <1>3, <2>1, AckRow
  <2>3. PICK row: Changes(x, row) /\ row.known = v
    BY <2>2
  <2>4. \A y \in Run: Live(y)' => runs'[y].kept = FALSE \/ runs'[y].known = v
    BY <1>a, <2>2, <2>3 DEF RunsOK, Live, Changes, OneRow
  <2>5. ~Terminal' /\ state' # "done"
    BY <2>2 DEF Goes, Terminal
  <2> QED BY <2>2, <2>4, <2>5, StillKnows
<1>4. ASSUME NEW x \in Run,
             \/ Claim(x) \/ StartRun(x) \/ ReadContext(x) \/ PauseRun(x)
             \/ LeaseLapses(x) \/ ExpireLease(x) \/ RecoverLease(x) \/ Handoff(x)
      PROVE  ExecutorKnowsContract'
  <2>1. Goes /\ UNCHANGED <<record, spec, revisions>>
    BY <1>4, ExecutorRow
  <2>2. PICK row: /\ Changes(x, row)
                  /\ \/ row.status \notin {"running", "paused"}
                     \/ row.kept = FALSE
                     \/ row.known = spec
                     \/ Live(x) /\ runs[x].kept /\ row.known = runs[x].known
    BY <1>4, ExecutorRow
  <2>3. \A y \in Run: Live(y)' => runs'[y].kept = FALSE \/ runs'[y].known = spec'
    BY <1>a, <2>1, <2>2 DEF Live, Changes, OneRow
  <2>4. state' = "done" => StaysDone
    BY <1>a, <2>1, <2>2 DEF RunsOK, StaysDone, Goes, Changes, OneRow
  <2>5. Terminal' => ~PendingRevision'
    BY <2>1, SameProposals DEF Goes, Terminal
  <2> QED BY <2>3, <2>4, <2>5, StillKnows
<1>5. ASSUME NEW x \in Run, Takeover(x)
      PROVE  ExecutorKnowsContract'
  <2>1. /\ state' = state /\ ~Terminal /\ runs'[x].known = spec
        /\ \A y \in Run: y # x => ~Live(y)'
    BY <1>5, TakeoverRows
  <2>2. spec' = spec /\ state' # "done" /\ ~Terminal'
    BY <1>5, <2>1 DEF Takeover, Terminal, revisionVars
  <2> QED BY <2>1, <2>2, StillKnows
<1>6. ASSUME CancelTask
      PROVE  ExecutorKnowsContract'
  <2>1. /\ state' = "cancelled" /\ \A y \in Run: ~Live(y)'
    BY <1>6, CancelRows
  <2>2. revisions' = [w \in DOMAIN revisions |->
             IF revisions[w].status = "pending_ack"
             THEN [revisions[w] EXCEPT !.status = "rejected"] ELSE revisions[w]]
    BY <1>6 DEF CancelTask
  <2>3. \A w \in DOMAIN revisions: revisions[w] \in RevisionRec
    BY <1>a, RevisionDomain, ElementOfSeq DEF RowsOK
  <2>4. \A w \in DOMAIN revisions': revisions'[w].status # "pending_ack"
    BY <2>2, <2>3, RejectedRow
  <2> QED BY <2>1, <2>4, StillKnows DEF PendingRevision
<1>7. ASSUME NEW expected \in Version, ProposeRevision(expected)
      PROVE  ExecutorKnowsContract'
  <2>1. runs' = runs /\ state' = state /\ ~Terminal
    BY <1>7 DEF ProposeRevision
  <2>2. ~Terminal' /\ state' # "done"
    BY <2>1 DEF Terminal
  <2>3. CASE spec' = spec
    BY <1>a, <2>1, <2>2, <2>3, StillKnows DEF Live
  <2>4. CASE ~NeedsAck
    BY <2>1, <2>2, <2>4, StillKnows DEF NeedsAck, InFlight, Live
  <2> QED BY <1>7, <2>3, <2>4 DEF ProposeRevision
<1>8. ASSUME NEW v \in 2 .. Len(revisions) + 1, RejectRevision(v)
      PROVE  ExecutorKnowsContract'
  <2>1. runs' = runs /\ state' = state /\ spec' = spec /\ ~Terminal
    BY <1>8 DEF RejectRevision
  <2>2. ~Terminal' /\ state' # "done"
    BY <2>1 DEF Terminal
  <2> QED BY <1>a, <2>1, <2>2, StillKnows DEF Live
<1>9. ASSUME NEW x \in Run, NEW c \in Criterion, NEW v \in Judgement,
             NEW seen \in ContractRow, NEW e \in Evidence, SubmitReview(x, c, v, seen, e)
      PROVE  ExecutorKnowsContract'
  BY <1>1, <1>9 DEF SubmitReview, revisionVars
<1>10. CASE UNCHANGED vars
  BY <1>1, <1>10 DEF vars
<1>11. CASE ContractNext
  BY <1>1, <1>2, <1>3, <1>4, <1>5, <1>6, <1>7, <1>8, <1>9, <1>11
     DEF ContractNext, BeginVerification, SubmitHumanReview, FinishVerification,
     CallLost, ReconcileVerification, WriteContext, revisionVars
<1> QED BY <1>10, <1>11

-----------------------------------------------------------------------------
(* Completion.                                                                *)
\* No step changes a PASS or removes a receipt.
PassesKept ==
  /\ Len(receipts) <= Len(receipts')
  /\ \A i \in 1 .. Len(receipts): receipts[i].verdict = "PASS" =>
       receipts'[i] = receipts[i]

LEMMA PassSteps ==
  ASSUME ContractInv, [ContractNext]_vars
  PROVE  PassesKept
<1>a. RowsOK /\ ReceiptsOK /\ Len(receipts) \in Nat /\ DOMAIN receipts = 1 .. Len(receipts)
  BY ReceiptDomain DEF ContractInv
<1>1. CASE receipts' = receipts
  BY <1>a, <1>1 DEF PassesKept
<1>2. ASSUME NEW r \in ReceiptRec, receipts' = Append(receipts, r)
      PROVE  PassesKept
  BY <1>a, <1>2, AppendReceipt DEF AddsReceipt, PassesKept
<1>b. contract \in ContractRec
  BY <1>a DEF RowsOK
<1>3. ASSUME NEW x \in Run, NEW c \in Criterion, BeginVerification(x, c)
      PROVE  PassesKept
  <2>1. PICK r: r = NewReceipt(x, c, "check", "BLOCKED", contract, "none")
    OBVIOUS
  <2>2. "BLOCKED" \in Verdict
    BY DEF Verdict
  <2>3. r \in ReceiptRec
    BY <1>a, <1>b, <2>1, <2>2, NewReceiptRow
  <2> QED BY <1>2, <1>3, <2>1, <2>3 DEF BeginVerification
<1>4. ASSUME NEW x \in Run, NEW c \in Criterion, NEW v \in Judgement,
             NEW seen \in ContractRow, NEW e \in Evidence, SubmitReview(x, c, v, seen, e)
      PROVE  PassesKept
  <2>1. PICK r: r = NewReceipt(x, c, "review", v, seen, e)
    OBVIOUS
  <2>2. seen \in ContractRec /\ v \in Verdict /\ receipts' = Append(receipts, r)
    BY <1>4, <1>b, <2>1, ContractAssumption DEF SubmitReview, SnapshotIsCurrent, Verdict
  <2>3. r \in ReceiptRec
    BY <1>a, <2>1, <2>2, NewReceiptRow
  <2> QED BY <1>2, <2>2, <2>3
<1>5. ASSUME NEW x \in Run, NEW c \in Criterion, NEW v \in Judgement,
             NEW seen \in ContractRow, SubmitHumanReview(x, c, v, seen)
      PROVE  PassesKept
  <2>1. PICK r: r = NewReceipt(x, c, "human", v, seen, "none")
    OBVIOUS
  <2>2. seen \in ContractRec /\ v \in Verdict /\ receipts' = Append(receipts, r)
    BY <1>5, <1>b, <2>1, ContractAssumption
       DEF SubmitHumanReview, SnapshotIsCurrent, Verdict
  <2>3. r \in ReceiptRec
    BY <1>a, <2>1, <2>2, NewReceiptRow
  <2> QED BY <1>2, <2>2, <2>3
<1>6. ASSUME NEW i \in 1 .. Len(receipts), NEW row, receipts[i].verdict = "BLOCKED",
             receipts' = [receipts EXCEPT ![i] = row]
      PROVE  PassesKept
  <2>1. receipts' \in [1 .. Len(receipts) -> ReceiptRec \cup {row}]
    <3>1. receipts \in [1 .. Len(receipts) -> ReceiptRec]
      BY <1>a, LenProperties DEF RowsOK
    <3> QED BY <1>6, <3>1
  <2>2. receipts' \in Seq(ReceiptRec \cup {row})
    BY <1>a, <2>1, SeqDef
  <2>3. DOMAIN receipts' = 1 .. Len(receipts) /\ DOMAIN receipts' = 1 .. Len(receipts')
        /\ Len(receipts') \in Nat
    BY <2>1, <2>2, LenProperties
  <2>4. Len(receipts) <= Len(receipts')
    BY <1>a, <2>3
  <2> QED BY <1>6, <1>a, <2>4 DEF PassesKept
<1>7. ASSUME NEW i \in DOMAIN receipts, NEW v \in Verdict, FinishVerification(i, v)
      PROVE  PassesKept
  <2>1. receipts[i].verdict = "BLOCKED"
    BY <1>a, <1>7 DEF FinishVerification, ReceiptsOK
  <2>2. PICK row: row = [receipts[i] EXCEPT !.verdict = v, !.settled = Len(receipts)]
    OBVIOUS
  <2>3. receipts' = [receipts EXCEPT ![i] = row]
    BY <1>7, <2>2 DEF FinishVerification
  <2> QED BY <1>a, <1>6, <2>1, <2>3
<1>8. ASSUME NEW i \in DOMAIN receipts, ReconcileVerification(i)
      PROVE  PassesKept
  <2>1. receipts[i].verdict = "BLOCKED"
    BY <1>8 DEF ReconcileVerification, Reconcilable
  <2>2. PICK row: row = [receipts[i] EXCEPT !.verdict = "FAIL"]
    OBVIOUS
  <2>3. receipts' = [receipts EXCEPT ![i] = row]
    BY <1>8, <2>2 DEF ReconcileVerification
  <2> QED BY <1>a, <1>6, <2>1, <2>3
<1>9. CASE UNCHANGED vars
  BY <1>1, <1>9 DEF vars
<1>10. CASE ContractNext
  BY <1>1, <1>3, <1>4, <1>5, <1>7, <1>8, <1>10 DEF ContractNext, CallLost, CompleteRun,
     WriteContext, ProposeRevision, RejectRevision, AckRevision, Claim, StartRun,
     ReadContext, PauseRun, LeaseLapses, ExpireLease, RecoverLease, Handoff, Takeover,
     CancelTask
<1> QED BY <1>9, <1>10

\* Only complete_run ends a task well, and a finished task keeps its record.
LEMMA OnlyCompletion ==
  ASSUME ContractInv, [ContractNext]_vars, state' = "done"
  PROVE  \/ state = "done" /\ record' = record
         \/ /\ state # "done"
            /\ \E x \in Run, e \in Evidence, w \in SUBSET Waivable: CompleteRun(x, e, w)
<1>1. CASE \E x \in Run, e \in Evidence, w \in SUBSET Waivable: CompleteRun(x, e, w)
  BY <1>1 DEF CompleteRun, Ready, Terminal
<1>2. CASE UNCHANGED <<state, record>>
  BY <1>2
<1>3. ASSUME NEW x \in Run, NEW c \in Criterion, NEW v \in Judgement,
             NEW seen \in ContractRow, NEW e \in Evidence, SubmitReview(x, c, v, seen, e)
      PROVE  FALSE
  BY <1>3 DEF SubmitReview
<1>4. ASSUME NEW x \in Run, Claim(x) \/ Handoff(x)
      PROVE  UNCHANGED <<state, record>>
  BY <1>4 DEF Claim, Handoff
<1>5. CASE UNCHANGED vars
  BY <1>2, <1>5 DEF vars
<1>6. CASE ContractNext
  BY <1>1, <1>2, <1>3, <1>4, <1>6 DEF ContractNext, BeginVerification,
     SubmitHumanReview, FinishVerification, CallLost, ReconcileVerification,
     WriteContext, ProposeRevision, RejectRevision, AckRevision, StartRun, ReadContext,
     PauseRun, LeaseLapses, ExpireLease, RecoverLease, Takeover, CancelTask
<1> QED BY <1>5, <1>6

\* What the gate of complete_run has seen of a receipt it counts.
LEMMA Counted ==
  ASSUME ContractInv, NEW x \in Run, NEW e \in Evidence, NEW w, CompleteRun(x, e, w),
         NEW c \in Criterion \ w, NEW k \in Kinds(c), NEW i \in Latest(x, c, k)
  PROVE  /\ receipts[i].run = x /\ receipts[i].criterion = c /\ receipts[i].kind = k
         /\ receipts[i].contract = contract /\ receipts[i].verdict = "PASS"
         /\ k = "review" => receipts[i].evidence = e /\ ~CheckedSince(x, i)
<1>a. Len(receipts) \in Nat /\ DOMAIN receipts = 1 .. Len(receipts)
  BY ReceiptDomain DEF ContractInv
<1>1. PICK j \in Latest(x, c, k):
        /\ receipts[j].verdict = "PASS"
        /\ k = "review" => receipts[j].evidence = e /\ ~CheckedSince(x, j)
  BY DEF CompleteRun, Ready, Met
<1>2. i <= j /\ j <= i /\ i \in DOMAIN receipts /\ j \in DOMAIN receipts
  BY <1>1 DEF Latest, Attempts
<1>3. i = j
  BY <1>a, <1>2
<1> QED BY <1>1, <1>3 DEF Latest, Attempts

LEMMA CompletionSteps ==
  ASSUME ContractInv, [ContractNext]_vars
  PROVE  CompletionOK'
<1>a. Len(receipts) \in Nat /\ DOMAIN receipts = 1 .. Len(receipts) /\ CompletionOK
  BY ReceiptDomain DEF ContractInv
<1>1. CASE state' # "done"
  BY <1>1 DEF CompletionOK, CompletionStands
<1>2. CASE state = "done" /\ state' = "done" /\ record' = record
  <2>1. PassesKept
    BY PassSteps
  <2>2. ReceiptsKept
    BY ReceiptSteps
  <2>3. Len(receipts') \in Nat
    BY <2>2, LenProperties DEF ReceiptsKept
  <2>4. record.cited \subseteq 1 .. Len(receipts)
        /\ \A i \in record.cited: receipts[i].verdict = "PASS"
    BY <1>a, <1>2 DEF CompletionOK, CompletionStands
  <2>5. record.cited \subseteq 1 .. Len(receipts')
    BY <1>a, <2>1, <2>3, <2>4 DEF PassesKept
  <2>6. \A i \in record.cited: receipts'[i] = receipts[i]
    BY <2>1, <2>4 DEF PassesKept
  <2> QED BY <1>2, <1>a, <2>5, <2>6 DEF CompletionOK, CompletionStands
<1>3. ASSUME NEW x \in Run, NEW e \in Evidence, NEW w \in SUBSET Waivable,
             CompleteRun(x, e, w)
      PROVE  CompletionOK'
  <2>1. PICK cited: cited = {i \in DOMAIN receipts:
                      \E c \in Criterion \ w: \E k \in Kinds(c): i \in Latest(x, c, k)}
    OBVIOUS
  <2>2. /\ record'.run = x /\ record'.contract = contract /\ record'.cited = cited
        /\ record'.waived = w /\ receipts' = receipts
    BY <1>3, <2>1 DEF CompleteRun
  <2>3. \A i \in cited: /\ receipts[i].run = x /\ receipts[i].contract = contract
                        /\ receipts[i].verdict = "PASS"
    BY <1>3, <2>1, Counted
  <2>4. \A c \in Criterion \ w: \A k \in Kinds(c): \E i \in cited:
          receipts[i].criterion = c /\ receipts[i].kind = k
    <3> SUFFICES ASSUME NEW c \in Criterion \ w, NEW k \in Kinds(c)
                 PROVE  \E i \in cited: receipts[i].criterion = c /\ receipts[i].kind = k
      OBVIOUS
    <3>1. PICK i \in Latest(x, c, k): TRUE
      BY <1>3 DEF CompleteRun, Ready, Met
    <3>2. i \in DOMAIN receipts
      BY DEF Latest, Attempts
    <3>3. receipts[i].criterion = c /\ receipts[i].kind = k
      BY <1>3, Counted
    <3> QED BY <2>1, <3>2, <3>3
  <2>5. cited \subseteq 1 .. Len(receipts)
    BY <1>a, <2>1
  <2>6. CompletionStands'
    BY <2>2, <2>3, <2>4 DEF CompletionStands
  <2> QED BY <2>2, <2>5, <2>6 DEF CompletionOK
<1> QED BY <1>1, <1>2, <1>3, OnlyCompletion

LEMMA ReviewSteps ==
  ASSUME ContractInv, [ContractNext]_vars, state' = "done", state # "done",
         NEW i \in record'.cited, receipts[i].kind = "review"
  PROVE  /\ receipts[i].seen = record'.contract
         /\ receipts[i].evidence = record'.evidence
         /\ \A j \in DOMAIN receipts:
              receipts[j].run = record'.run /\ receipts[j].kind = "check" =>
                j < i /\ receipts[j].settled < i
<1>a. /\ Len(receipts) \in Nat /\ DOMAIN receipts = 1 .. Len(receipts)
      /\ \A j \in 1 .. Len(receipts): receipts[j] \in ReceiptRec
  BY ReceiptDomain, ElementOfSeq DEF ContractInv, RowsOK
<1>1. PICK x \in Run, e \in Evidence, w \in SUBSET Waivable: CompleteRun(x, e, w)
  BY OnlyCompletion
<1>2. /\ record'.run = x /\ record'.contract = contract /\ record'.evidence = e
      /\ record'.cited = {n \in DOMAIN receipts:
            \E c \in Criterion \ w: \E k \in Kinds(c): n \in Latest(x, c, k)}
  BY <1>1 DEF CompleteRun
<1>3. PICK c \in Criterion \ w: \E k \in Kinds(c): i \in Latest(x, c, k)
  BY <1>2
<1>7. PICK k \in Kinds(c): i \in Latest(x, c, k)
  BY <1>3
<1>4. /\ receipts[i].kind = k /\ receipts[i].contract = contract
      /\ k = "review" => receipts[i].evidence = e /\ ~CheckedSince(x, i)
  BY <1>1, <1>7, Counted
<1>5. i \in 1 .. Len(receipts) /\ receipts[i].seen = receipts[i].contract
  BY <1>2, <1>a DEF ContractInv, ReceiptsOK
<1>6. ASSUME NEW j \in DOMAIN receipts, receipts[j].run = x, receipts[j].kind = "check"
      PROVE  j < i /\ receipts[j].settled < i
  <2>1. ~(j > i \/ receipts[j].settled >= i)
    BY <1>4, <1>6 DEF CheckedSince
  <2>2. j # i
    BY <1>6
  <2>3. receipts[j].settled \in Nat
    BY <1>a DEF ReceiptRec
  <2> QED BY <1>a, <1>5, <2>1, <2>2, <2>3
<1> QED BY <1>2, <1>4, <1>5, <1>6

-----------------------------------------------------------------------------
LEMMA ContractStart == ContractInit => ContractInv
<1> SUFFICES ASSUME ContractInit
             PROVE  ContractInv
  OBVIOUS
<1>1. RowsOK
  BY EmptySeq DEF ContractInit, RowsOK, ContractRec, RunRec, NoRun
<1>2. receipts = <<>> /\ revisions = <<>> /\ Len(receipts) = 0 /\ Len(revisions) = 0
  BY EmptySeq DEF ContractInit
<1>3. DOMAIN receipts = 1 .. 0 /\ DOMAIN revisions = 1 .. 0
  BY <1>1, <1>2, ReceiptDomain, RevisionDomain
<1>4. \A n \in 1 .. 0: FALSE
  OBVIOUS
<1>5. ReceiptsOK
  BY <1>2, <1>3, <1>4 DEF ContractInit, ReceiptsOK, NoBlindReplay
<1>6. RevisionsOK
  BY <1>2, <1>3, <1>4 DEF ContractInit, RevisionsOK, RevisionsFormALine
<1>7. \A x \in Run: runs[x].status = "none" /\ runs[x].lease = "none"
  BY DEF ContractInit, NoRun
<1>8. RunsOK
  BY <1>7 DEF ContractInit, RunsOK, Live, Active
<1>9. ExecutorKnowsContract
  BY <1>7 DEF ContractInit, ExecutorKnowsContract, Live, Terminal
<1>10. CompletionOK
  BY DEF ContractInit, CompletionOK, CompletionStands
<1> QED BY <1>1, <1>5, <1>6, <1>8, <1>9, <1>10 DEF ContractInv

LEMMA ContractStep == ContractInv /\ [ContractNext]_vars => ContractInv'
<1> SUFFICES ASSUME ContractInv, [ContractNext]_vars
             PROVE  ContractInv'
  OBVIOUS
<1>1. ReceiptsKept /\ RunsKept /\ RevisionsKept /\ ExecutorKnowsContract' /\ CompletionOK'
  BY ReceiptSteps, RunSteps, RevisionSteps, KnowSteps, CompletionSteps
<1> QED BY <1>1 DEF ReceiptsKept, RunsKept, RevisionsKept, RowsOK, States, ContractInv

\* The parts of a contract hold together: who waits for a check, who is live,
\* which versions are in force and what a completion counted.
THEOREM ContractInvariant == ContractSpec => []ContractInv
<1> QED BY ContractStart, ContractStep, PTL DEF ContractSpec

\* What a completion rests on still stands, its permitted waivers apart, whatever
\* arrives later (complete_run, criterion_statuses_conn, finish_verification).
THEOREM CompletionsStand == ContractSpec => []CompletionStands
<1>1. ContractInv => CompletionStands
  BY DEF ContractInv, CompletionOK
<1> QED BY <1>1, ContractInvariant, PTL

\* An executor that never lost its lease works under a contract it agreed to,
\* whoever finishes the task was told of the last context, and a finished one has no
\* proposal waiting (ack_task_revision, complete_run, cancel_task_tx).
THEOREM ExecutorsKnow == ContractSpec => []ExecutorKnowsContract
<1>1. ContractInv => ExecutorKnowsContract
  BY DEF ContractInv
<1> QED BY <1>1, ContractInvariant, PTL

\* Applied revisions form one line and lose no context (apply_tx).
THEOREM RevisionsLine == ContractSpec => []RevisionsFormALine
<1>1. ContractInv => RevisionsFormALine
  BY DEF ContractInv, RevisionsOK
<1> QED BY <1>1, ContractInvariant, PTL

\* A check is not repeated while its last outcome is unknown
\* (begin_verification).
THEOREM NoReplay == ContractSpec => []NoBlindReplay
<1>1. ContractInv => NoBlindReplay
  BY DEF ContractInv, ReceiptsOK
<1> QED BY <1>1, ContractInvariant, PTL

\* When work is accepted, its reviewer had read the final contract and the
\* delivered evidence, and no check began or ended since (complete_run,
\* submit_review).
THEOREM ReviewersSawTheEnd == ContractSpec => ReviewSawTheEnd
<1>1. ContractInv /\ [ContractNext]_vars =>
        [state' = "done" /\ state # "done" =>
           \A i \in record'.cited: receipts[i].kind = "review" =>
             /\ receipts[i].seen = record'.contract
             /\ receipts[i].evidence = record'.evidence
             /\ \A j \in DOMAIN receipts:
                  receipts[j].run = record'.run /\ receipts[j].kind = "check" =>
                    j < i /\ receipts[j].settled < i]_vars
  BY ReviewSteps
<1> QED BY <1>1, ContractInvariant, PTL DEF ContractSpec, ReviewSawTheEnd
=============================================================================
