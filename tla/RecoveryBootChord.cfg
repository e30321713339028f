SPECIFICATION Spec
CONSTANTS
  Configs <- UpdateBinaryOnNand
  Requests <- ResetAndUpdate
  MaxMishaps = 2
  MaxChoices = 2
PROPERTY ChordCompletesUpdate
CHECK_DEADLOCK FALSE
