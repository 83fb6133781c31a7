SPECIFICATION LifeSpec
CONSTANTS
  t1 = t1
  t2 = t2
  g1 = g1
  g2 = g2
  Task = {t1}
  Agent = {g1, g2}
  Role = {"executor", "reviewer"}
  AssignmentMode = {"open", "approval", "dispatch"}
  NAsg = 2
  NRun = 2
  NAttempt = 0
  MaxCalls = 0
  NativeContract = {t1}
  NeedsReview = {t1}
  InitialStates = {"ready"}
  NoTask = NoTask
  NoAgent = NoAgent
  DependsOn <- NoDeps
SYMMETRY Agents
INVARIANTS
  OneActivePerRole
  ReadyMeansUnowned
  LiveRunHasOpenAssignment
  DoneWasReviewed
PROPERTIES
  LiveLeaseIsNotRevoked
