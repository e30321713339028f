CONSTANTS
  Devices <- MCDevices
  UserRoots <- MCUserRoots
  MaxFaults = 1
  PipeSize = 2
  Entries = 3
SPECIFICATION Spec
CHECK_DEADLOCK FALSE
INVARIANT TypeOK
INVARIANT PackageRootIsOpen
INVARIANT SuccessMeansDone
INVARIANT OnlySignedInstalls
INVARIANT LookupFindsEntry
INVARIANT FormatDone
INVARIANT CopiedUnlessFailing
PROPERTY FirmwareIsFirstAsked
PROPERTY OthersLeftAlone
PROPERTY KeepsPromise
PROPERTY InstallEnds
