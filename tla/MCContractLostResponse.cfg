SPECIFICATION ContractSpec
CONSTANTS
  e1 = e1
  e2 = e2
  Checked = {"build"}
  Reviewed = {"build"}
  Human = {"taste"}
  Waivable = {"build"}
  Evidence = {e1, e2}
  Judgement = {"PASS", "FAIL", "BLOCKED"}
  NRun = 1
  NReceipt = 4
  NRevision = 0
  NContext = 2
SYMMETRY SameEvidence
CHECK_DEADLOCK FALSE
INVARIANT LostResponseCanBeReconciled
