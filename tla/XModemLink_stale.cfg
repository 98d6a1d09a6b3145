SPECIFICATION Spec
CONSTANTS
  HalfWord = 64
  Protocol = "XMODEM"
  SmallBlk = 2
  LargeBlk = 4
  BlkMod = 8
  MaxRetry = 3
  MaxTimeout = 3
  MaxFaults = 1
  FaultKinds = {"damage"}
  NoiseBytes = {0, 24}
  FileSizes = {5}
  RamSizes = {16}
  Timely = FALSE
INVARIANT CompleteOnSuccess
