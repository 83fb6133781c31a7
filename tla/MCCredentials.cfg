SPECIFICATION CredentialsSpec
CONSTANTS
  App = {a1, a2}
  Bootstrap = FALSE
  NPrompt = 2
  NToken = 4
  NLogin = 1
  NOperator = 1
  PromptLimit = 1
  LoginLimit = 1
SYMMETRY Apps
INVARIANTS
  SingleUse
  ReplayEndsFamily
  ConsentCovers
PROPERTIES
  RevokedFamilyIsDead
  LoginIsFinal
CHECK_DEADLOCK FALSE
