SPECIFICATION FairSpec
CONSTANTS
  Configs <- AllConfigs
  Requests <- ResetAndUpdate
  MaxMishaps = 2
  MaxChoices = 2
INVARIANTS
  TypeOK
  CacheRestartable
  ResetRestartable
  InstallRestartable
  ImageComplete
  FirmwareAfterInstall
  WipeDone
  IntentDelivered
PROPERTIES
  FirmwareNotDropped
  WipeOnlyOnRequest
  BackToMain
  MailboxSpec
\* The bounds on requests and choices stop the main system.
CHECK_DEADLOCK FALSE
