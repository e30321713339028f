CONSTANTS
  Devices <- MCDevices
  UserRoots <- MCUserRoots
  MaxFaults = 1
  PipeSize = 2
  Entries = 0
SPECIFICATION Spec
CHECK_DEADLOCK FALSE
INVARIANT EverythingCopied
