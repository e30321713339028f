SPECIFICATION Spec
CONSTANTS
  Configs <- UpdateBinaryOnNand
  Requests <- ResetAndUpdate
  MaxMishaps = 2
  MaxChoices = 1
INVARIANT SafelyRestartable
CHECK_DEADLOCK FALSE
