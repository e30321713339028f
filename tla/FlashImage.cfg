SPECIFICATION Spec
CONSTANTS
  NBlocks = 4
  PerBlock = 2
  Values <- PageValues
  MaxBad = 2
  MaxFaults = 3
  Images <- Files
  MaxRuns = 3
INVARIANTS
  TypeOK
  FlashedReadsBack
  HeaderCommits
PROPERTY
  PagesAreErasedFirst
\* The bound on runs stops the system.
CHECK_DEADLOCK FALSE
