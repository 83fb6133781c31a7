SPECIFICATION AgentSpec
CONSTANTS
  t1 = t1
  g1 = g1
  m1 = m1
  Task = {t1}
  Agent = {g1}
  Message = {m1}
  Role = {"executor"}
  AssignmentMode = {"open"}
  NAsg = 1
  NRun = 1
  NAttempt = 2
  AttemptKind = {"local", "managed", "external"}
  MaxCalls = 1
  MaxRestart = 1
  NativeContract = {}
  NeedsReview = {}
  InitialStates = {"ready"}
  NoTask = NoTask
  NoAgent = NoAgent
  DependsOn <- NoDeps
INVARIANTS
  OneLocalProcessPerRun
  CancelledIsQuiet
  GivenOnce
  WithdrawnWasNotGiven
  FinishedScopeHasNoCapability
PROPERTIES
  EndedRunsStayEnded
