SPECIFICATION FairSpec
CONSTANTS
  Devices = {"nand", "htc", "emmc"}
  Names <- Directory
  Selections <- Menus
  BySize <- Sizes
  MaxVersion = 1
  MaxFaults = 1
INVARIANTS
  TypeOK
  RoundTrip
PROPERTIES
  ErasesOnlyIntact
  EmptiesOnlyToFill
  ScriptEnds
