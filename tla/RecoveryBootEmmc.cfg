SPECIFICATION FairSpec
CONSTANTS
  Configs <- FirmwareOnEmmc
  Requests <- ResetAndUpdate
  MaxMishaps = 0
  MaxChoices = 1
PROPERTY EmmcBackToMain
CHECK_DEADLOCK FALSE
