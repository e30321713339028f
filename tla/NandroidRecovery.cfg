SPECIFICATION Spec
CONSTANTS
  Devices = {"nand", "htc", "emmc"}
  Names <- Directory
  Selections <- Menus
  BySize <- Sizes
  MaxVersion = 0
  MaxFaults = 0
INVARIANT RawImagesAreOwn
