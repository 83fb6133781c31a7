SPECIFICATION FairMonitorSpec
CONSTANTS
  t1 = t1
  g1 = g1
  g2 = g2
  Task = {t1}
  Agent = {g1}
  Role = {"executor"}
  AssignmentMode = {"open"}
  NAsg = 1
  NRun = 1
  NAttempt = 2
  AttemptKind = {"local", "managed", "external"}
  MaxCalls = 0
  NativeContract = {}
  NeedsReview = {}
  InitialStates = {"ready"}
  NoTask = NoTask
  NoAgent = NoAgent
  DependsOn <- NoDeps
PROPERTIES
  CancellingEnds
  InterruptionResolves
  EndedScopeIsFinished
