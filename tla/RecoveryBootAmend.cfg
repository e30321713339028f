SPECIFICATION Spec
CONSTANTS
  Configs <- AmendFirmwareOnNand
  Requests <- ResetAndUpdate
  MaxMishaps = 2
  MaxChoices = 1
INVARIANT FirmwareWaitsForInstall
CHECK_DEADLOCK FALSE
