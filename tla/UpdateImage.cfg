SPECIFICATION Spec
CONSTANTS
  NBlocks = 5
  PerBlock = 2
  Values <- PageValues
  MaxBad = 4
  MaxFaults = 6
  Updates <- SomeUpdates
INVARIANTS
  TypeOK
  HeaderIsValid
  DoneIsValid
\* The function returns.
CHECK_DEADLOCK FALSE
