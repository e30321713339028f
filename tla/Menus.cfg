SPECIFICATION FairSpec
CONSTANTS
  Styles <- SomeStyles
  Items <- SomeItems
  Headers <- SomeHeaders
  Main = "main"
  Rows = 3
  MenuMax = 5
  QueueMax = 2
  MaxKeys = 6
INVARIANTS
  TypeOK
  Highlighted
PROPERTIES
  NotByAccident
  ConfirmedKnowingly
  KeysAreTaken
\* The user may stop pressing keys.
CHECK_DEADLOCK FALSE
