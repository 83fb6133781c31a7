SPECIFICATION LifeSpec
CONSTANTS
  t1 = t1
  t2 = t2
  g1 = g1
  g2 = g2
  Task = {t1, t2}
  Agent = {g1}
  Role = {"executor"}
  AssignmentMode = {"open", "dispatch"}
  NAsg = 2
  NRun = 2
  NAttempt = 0
  MaxCalls = 2
  NativeContract = {}
  NeedsReview = {}
  InitialStates = {"backlog", "ready"}
  NoTask = NoTask
  NoAgent = NoAgent
  DependsOn <- T2AfterT1
INVARIANTS
  DoneRestsOnDone
PROPERTIES
  PhasesInOrder
