SPECIFICATION Spec
CONSTANTS
  t1 = t1
  t2 = t2
  t3 = t3
  None = None
  Task = {t1, t2, t3}
  Chain = {c1}
  Result = {yes}
  MaxEdges = 3
SYMMETRY SameTasks
INVARIANT
  NobodyWaitsForever
PROPERTY
  GateSettles
CHECK_DEADLOCK FALSE
