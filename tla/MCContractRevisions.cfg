SPECIFICATION ContractSpec
CONSTANTS
  e1 = e1
  e2 = e2
  Checked = {}
  Reviewed = {"build"}
  Human = {}
  Waivable = {"build"}
  Evidence = {e1}
  Judgement = {"PASS", "FAIL"}
  NRun = 2
  NReceipt = 2
  NRevision = 2
  NContext = 3
CHECK_DEADLOCK FALSE
INVARIANTS
  CompletionStands
  ExecutorKnowsContract
  RevisionsFormALine
