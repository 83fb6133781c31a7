SPECIFICATION SysSpec
CONSTANTS
  t1 = t1
  g1 = g1
  g2 = g2
  Task = {t1}
  Agent = {g1}
  Role = {"executor"}
  AssignmentMode = {"open"}
  NAsg = 2
  NRun = 2
  NAttempt = 2
  AttemptKind = {"managed", "external"}
  MaxCalls = 0
  NativeContract = {}
  NeedsReview = {}
  InitialStates = {"ready"}
  NoTask = NoTask
  NoAgent = NoAgent
  DependsOn <- NoDeps
INVARIANTS
  OneRunUntilInvited
  TerminalScopeIsIdle
  SuccessorWaitsUntilInvited
  DoneHasNoExecutor
PROPERTIES
  EndedAssignmentsStayEnded
  CancelledIsFinal
