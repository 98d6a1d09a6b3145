SPECIFICATION YFairSpec
CONSTANTS
  HalfWord = 64
  Protocol = "YMODEM"
  SmallBlk = 2
  LargeBlk = 4
  BlkMod = 8
  MaxRetry = 3
  MaxTimeout = 3
  MaxFaults = 1
  FaultKinds = {"lose"}
  NoiseBytes = {0, 24}
  FileSizes = {5}
  RamSizes = {16}
  Timely = TRUE
  Valids = {{"filename", "filesize"}}
PROPERTY YTermination
